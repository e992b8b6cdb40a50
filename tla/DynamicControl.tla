--------------------------- MODULE DynamicControl ---------------------------
(***************************************************************************)
(* One dynamic control: a committed value that writers change through a    *)
(* confirmed apply.  A writer takes the control's async mutex, fans the    *)
(* value out to the appliers registered at that moment, and commits it     *)
(* only if every one acknowledged it.  Nothing is rolled back when one     *)
(* fails, and a caller may drop the write at any await.                    *)
(*                                                                         *)
(* Source: nmbrs-metrics/src/controls.rs.  An applier is opaque: what it   *)
(* applied last is its state; failing or timing out it may or may not have *)
(* taken the value.                                                        *)
(***************************************************************************)
EXTENDS Integers, Sequences, FiniteSets

CONSTANTS
    Writers,        \* callers of set
    LaunchWriters,  \* the ones that write with ControlOrigin::Launch
    Appliers,       \* consumers that may register
    Values, Initial,
    Valid,          \* the values the validator accepts
    Final,          \* whether the control is declared final
    None,           \* no writer
    MaxRev          \* bound: revisions handed out by the session's allocator

ASSUME ControlAssumption ==
    /\ LaunchWriters \subseteq Writers
    /\ Initial \in Values
    /\ Valid \subseteq Values
    /\ Final \in BOOLEAN
    /\ None \notin Writers
    /\ MaxRev \in Nat

VARIABLES
    committed,      \* the Versioned: value and rev
    gauge,          \* the reified gauge, with the rev of the value it shows
    counter,        \* the RevAllocator's counter, shared by every control
    taken,          \* the rev the holder took from it and has yet to commit
    registered,     \* appliers in registration
    applied,        \* per applier: the value it last took
    lock,           \* the holder of write_lock
    queue,          \* the writers waiting for it, in order
    pc, val,        \* per writer: where set is, and the value it writes
    snapshot,       \* the appliers the holder fanned out to
    pending,        \* those that have not answered
    failed,         \* whether one failed
    left,           \* history: per applier, what failed or dropped writes may have left it with
    previous,       \* history: what was committed before
    others          \* history: the revs other controls took

revs == <<counter, taken, others>>
fanout == <<snapshot, pending, failed>>
vars == <<committed, previous, gauge, revs, registered, applied, lock, queue, pc, val, fanout,
          left>>

WriterState == {"idle", "waiting", "fanout", "numbered", "committed"}

\* A control as ControlBuilder::build makes it; a consumer starts from the
\* same configured value.
Init ==
    /\ committed = [value |-> Initial, rev |-> 0]
    /\ gauge = [value |-> Initial, rev |-> 0]
    /\ previous = committed
    /\ counter = 0 /\ taken = 0 /\ others = {}
    /\ registered = {}
    /\ applied = [a \in Appliers |-> Initial]
    /\ lock = None
    /\ queue = <<>>
    /\ pc = [w \in Writers |-> "idle"]
    /\ val = [w \in Writers |-> Initial]
    /\ snapshot = {} /\ pending = {} /\ failed = FALSE
    /\ left = [a \in Appliers |-> {}]

\* register_applier: it takes the appliers' lock only, so it may come between
\* the snapshot of a write in progress and its commit.  Until a write reaches
\* it, the consumer runs with what it was configured with.
register_applier(a) ==
    /\ a \notin registered
    /\ registered' = registered \cup {a}
    /\ left' = [left EXCEPT ![a] = @ \cup {applied[a]}]
    /\ UNCHANGED <<committed, previous, gauge, revs, applied, lock, queue, pc, val, fanout>>

\* A call of set queues on the mutex, which serves its waiters in order.
Call(w) ==
    /\ pc[w] = "idle"
    /\ counter < MaxRev
    /\ \E v \in Values : val' = [val EXCEPT ![w] = v]
    /\ pc' = [pc EXCEPT ![w] = "waiting"]
    /\ queue' = Append(queue, w)
    /\ UNCHANGED <<committed, previous, gauge, revs, registered, applied, lock, fanout, left>>

\* The mutex is free.  (NeverLocked does without it.)
NeverLocked == TRUE
Unlocked == lock = None

MayWrite(w) == /\ Final => w \in LaunchWriters
               /\ val[w] \in Valid

\* The pin and the validator reject the write before any applier sees it.
Reject(w) ==
    /\ queue # <<>> /\ w = Head(queue) /\ Unlocked
    /\ ~MayWrite(w)
    /\ queue' = Tail(queue)
    /\ pc' = [pc EXCEPT ![w] = "idle"]
    /\ UNCHANGED <<committed, previous, gauge, revs, registered, applied, lock, val, fanout, left>>

\* The write is admitted and fans out to the appliers registered now.
FanOut(w) ==
    /\ queue # <<>> /\ w = Head(queue) /\ Unlocked
    /\ MayWrite(w)
    /\ queue' = Tail(queue)
    /\ lock' = w
    /\ pc' = [pc EXCEPT ![w] = "fanout"]
    /\ snapshot' = registered /\ pending' = registered /\ failed' = FALSE
    /\ UNCHANGED <<committed, previous, gauge, revs, registered, applied, val, left>>

\* An applier acknowledges the value in time.
Acknowledge(w, a) ==
    /\ pc[w] = "fanout" /\ a \in pending
    /\ applied' = [applied EXCEPT ![a] = val[w]]
    /\ pending' = pending \ {a}
    /\ UNCHANGED <<committed, previous, gauge, revs, registered, lock, queue, pc, val, snapshot,
                   failed, left>>

\* An applier returns an error or runs into the apply timeout.
FailApply(w, a) ==
    /\ pc[w] = "fanout" /\ a \in pending
    /\ applied' \in {applied, [applied EXCEPT ![a] = val[w]]}
    /\ pending' = pending \ {a}
    /\ failed' = TRUE
    /\ UNCHANGED <<committed, previous, gauge, revs, registered, lock, queue, pc, val, snapshot,
                   left>>

\* What every way out of a fan-out resets.  (LeakLock forgets the mutex.)
LeakLock(w) ==
    /\ lock' = lock
    /\ pc' = [pc EXCEPT ![w] = "idle"]
    /\ snapshot' = {} /\ pending' = {} /\ failed' = FALSE
Release(w) ==
    /\ lock' = None
    /\ pc' = [pc EXCEPT ![w] = "idle"]
    /\ snapshot' = {} /\ pending' = {} /\ failed' = FALSE

\* The appliers of a write that commits nothing keep what they have taken of it.
LeaveApart(w) ==
    left' = [a \in Appliers |-> IF a \in snapshot THEN left[a] \cup {val[w]} ELSE left[a]]

\* Some applier failed: set returns ApplyFailed, committing nothing.
ApplyFailed(w) ==
    /\ pc[w] = "fanout" /\ pending = {} /\ failed
    /\ LeaveApart(w)
    /\ Release(w)
    /\ UNCHANGED <<committed, previous, gauge, revs, registered, applied, queue, val>>

\* Every applier answered and none failed.  (AnyAnswer takes a failure for an
\* answer too.)
AnyAnswer == pending = {}
AllAcknowledged == pending = {} /\ ~failed

\* RevAllocator::next returns the counter after its increment.  (RevBefore
\* returns what was there before.)
RevBefore == counter
NextRev == counter + 1

\* The write takes a rev; other controls may take theirs before it is used.
TakeRev(w) ==
    /\ pc[w] = "fanout" /\ AllAcknowledged
    /\ counter' = counter + 1 /\ taken' = NextRev
    /\ pc' = [pc EXCEPT ![w] = "numbered"]
    /\ UNCHANGED <<committed, previous, gauge, others, registered, applied, lock, queue, val, fanout,
                   left>>

\* It becomes the committed value ...
Commit(w) ==
    /\ pc[w] = "numbered"
    /\ committed' = [value |-> val[w], rev |-> taken] /\ previous' = committed
    /\ taken' = 0
    /\ pc' = [pc EXCEPT ![w] = "committed"]
    /\ left' = [a \in Appliers |-> IF a \in snapshot THEN {} ELSE left[a]]
    /\ UNCHANGED <<gauge, counter, others, registered, applied, lock, queue, val, fanout>>

\* The value the gauge is given.  (NotPublished forgets it.)
NotPublished(w) == gauge
Published(w) == [value |-> val[w], rev |-> committed.rev]

\* ... and is then published to the gauge, and set returns Ok.
Publish(w) ==
    /\ pc[w] = "committed"
    /\ gauge' = Published(w)
    /\ Release(w)
    /\ UNCHANGED <<committed, previous, revs, registered, applied, queue, val, left>>

\* The caller drops the future of set while it waits for the lock ...
DropWaiting(w) ==
    /\ pc[w] = "waiting"
    /\ \E i \in 1..Len(queue) :
          /\ queue[i] = w
          /\ queue' = SubSeq(queue, 1, i - 1) \o SubSeq(queue, i + 1, Len(queue))
    /\ pc' = [pc EXCEPT ![w] = "idle"]
    /\ UNCHANGED <<committed, previous, gauge, revs, registered, applied, lock, val, fanout, left>>

\* ... or for the appliers, of which any may have taken the value by then.
DropFanOut(w) ==
    /\ pc[w] = "fanout"
    /\ \E took \in SUBSET pending :
          applied' = [a \in Appliers |-> IF a \in took THEN val[w] ELSE applied[a]]
    /\ LeaveApart(w)
    /\ Release(w)
    /\ UNCHANGED <<committed, previous, gauge, revs, registered, queue, val>>

\* Another control of the session takes a rev.
OtherCommit ==
    /\ counter < MaxRev
    /\ counter' = counter + 1 /\ others' = others \cup {counter + 1}
    /\ UNCHANGED <<committed, previous, gauge, taken, registered, applied, lock, queue, pc, val,
                   fanout, left>>

SetStep(w) ==
    \/ Reject(w) \/ FanOut(w) \/ ApplyFailed(w) \/ TakeRev(w) \/ Commit(w) \/ Publish(w)
    \/ \E a \in Appliers : Acknowledge(w, a) \/ FailApply(w, a)

Next ==
    \/ \E a \in Appliers : register_applier(a)
    \/ \E w \in Writers : Call(w) \/ SetStep(w) \/ DropWaiting(w) \/ DropFanOut(w)
    \/ OtherCommit

Spec == Init /\ [][Next]_vars

\* The runtime polls a writer that can go on, and an applier that does not
\* answer is timed out; callers need not drop anything.
FairSpec == Spec /\ \A w \in Writers : WF_vars(SetStep(w))
-----------------------------------------------------------------------------
\* The state stays within its types.
TypeOK ==
    /\ committed \in [value : Values, rev : Nat]
    /\ previous \in [value : Values, rev : Nat] /\ gauge \in [value : Values, rev : Nat]
    /\ counter \in Nat /\ taken \in Nat /\ others \subseteq Nat
    /\ registered \subseteq Appliers
    /\ applied \in [Appliers -> Values]
    /\ lock \in Writers \cup {None}
    /\ queue \in Seq(Writers)
    /\ pc \in [Writers -> WriterState]
    /\ val \in [Writers -> Values]
    /\ snapshot \subseteq Appliers
    /\ pending \subseteq snapshot
    /\ failed \in BOOLEAN
    /\ left \in [Appliers -> SUBSET Values]

\* The confirmed apply: between writes a consumer runs with the committed value,
\* or with one that a write which failed or was dropped since its last commit
\* tried to give it (or that it was configured with, if it registered since).  So
\* no overlap of writers leaves a consumer with a value nobody was told about;
\* but a write that failed has not left everything as it was.
AppliedUnlessReported ==
    lock = None => \A a \in registered : applied[a] \in {committed.value} \cup left[a]

\* A value is committed only when every consumer the write started with runs
\* with it, in spite of other writers, drops and late registrations.
CommitMeansLive ==
    \A w \in Writers : pc[w] = "committed" => \A a \in snapshot : applied[a] = val[w]

\* Revisions of a control strictly increase, and are never ones another
\* control of the session took, before or after: the committed value never
\* changes under a rev.
RevsIncrease ==
    [][committed' # committed => committed'.rev > committed.rev /\ committed'.rev \notin others]_vars

\* A sampler of the gauge is at most one write behind and never ahead: the gauge
\* shows the committed value, or the one before it while the writer is between
\* its commit and its publication.
GaugeFollows ==
    \/ gauge = committed
    \/ gauge = previous /\ \E w \in Writers : pc[w] = "committed"

\* A call of set ends: the lock is handed on after every outcome.
SetReturns == \A w \in Writers : pc[w] = "waiting" ~> pc[w] = "idle"
=============================================================================
