---------------------------- MODULE ControlProofs ----------------------------
(***************************************************************************)
(* Proofs about DynamicControl, for any number of writers, appliers and    *)
(* values: the confirmed apply, the order of the revisions and the gauge.  *)
(***************************************************************************)
EXTENDS DynamicControl, SequenceTheorems, TLAPS

\* The writer in the critical section is the one that holds the lock.
Exclusion == \A w \in Writers : pc[w] \in {"fanout", "numbered", "committed"} <=> lock = w

\* Without a holder nothing is being fanned out.
Quiet == lock = None => snapshot = {} /\ pending = {} /\ ~failed

\* What an applier runs with: outside the write in progress the committed value
\* or what is on record, and what it was configured with if it registered since
\* that write began; inside it, once it has answered, perhaps the new value.
Explained(a) == applied[a] \in {committed.value} \cup left[a]
Reached ==
    /\ snapshot \subseteq registered
    /\ lock # None => \A a \in registered \ snapshot : applied[a] \in left[a]
    /\ \A a \in registered : a \notin snapshot \/ a \in pending => Explained(a)
    /\ \A w \in Writers : lock = w =>
          \A a \in snapshot \ pending : Explained(a) \/ applied[a] = val[w]
    /\ \A w \in Writers : lock = w /\ ~failed => \A a \in snapshot \ pending : applied[a] = val[w]

\* After the commit the holder's value is the committed one, and until then
\* the gauge shows what is committed.
Ordered ==
    /\ committed.rev <= counter
    /\ \A w \in Writers : pc[w] \in {"numbered", "committed"} => pending = {} /\ ~failed
    /\ \A w \in Writers : pc[w] = "committed" => committed.value = val[w] /\ gauge = previous
    /\ (\A w \in Writers : pc[w] # "committed") => gauge = committed

\* The rev in hand is above the committed one, and nobody else has it.
Numbered ==
    /\ \A r \in others : r <= counter
    /\ \A w \in Writers : pc[w] = "numbered" =>
          taken > committed.rev /\ taken <= counter /\ taken \notin others

Inv == TypeOK /\ Exclusion /\ Quiet /\ Reached /\ Ordered /\ Numbered

\* A control as it is built, without writers.
LEMMA InvInit == Init => Inv
<1> SUFFICES ASSUME Init PROVE Inv
  OBVIOUS
<1> USE ControlAssumption DEF ControlAssumption, Init
<1>1. TypeOK
  <2>1. /\ committed \in [value : Values, rev : Nat]
        /\ previous \in [value : Values, rev : Nat] /\ gauge \in [value : Values, rev : Nat]
        /\ counter \in Nat /\ taken \in Nat /\ others \subseteq Nat
    OBVIOUS
  <2>2. /\ pc \in [Writers -> WriterState] /\ val \in [Writers -> Values]
        /\ applied \in [Appliers -> Values] /\ left \in [Appliers -> SUBSET Values]
    BY DEF WriterState
  <2>3. queue \in Seq(Writers)
    OBVIOUS
  <2>4. failed \in BOOLEAN /\ lock \in Writers \cup {None}
    OBVIOUS
  <2> QED BY <2>1, <2>2, <2>3, <2>4 DEF TypeOK
<1>2. Exclusion /\ Quiet /\ Reached
  BY DEF Exclusion, Quiet, Reached
<1>3. Ordered /\ Numbered
  BY DEF Ordered, Numbered
<1> QED BY <1>1, <1>2, <1>3 DEF Inv

\* Removing a waiter from the queue leaves a queue of writers.
LEMMA QueueOK ==
    ASSUME TypeOK, NEW i \in 1..Len(queue)
    PROVE  SubSeq(queue, 1, i - 1) \o SubSeq(queue, i + 1, Len(queue)) \in Seq(Writers)
<1>1. queue \in Seq(Writers) /\ Len(queue) \in Nat
  BY DEF TypeOK
<1>2. \A m, n \in Int : m >= 1 /\ n <= Len(queue) => SubSeq(queue, m, n) \in Seq(Writers)
  BY <1>1, SubSeqProperties
<1> QED BY <1>1, <1>2, ConcatProperties

\* Every step of set, of an applier or of another control keeps the invariant.
LEMMA InvStep == Inv /\ [Next]_vars => Inv'
<1> SUFFICES ASSUME Inv, [Next]_vars PROVE Inv'
  OBVIOUS
<1> USE ControlAssumption DEF ControlAssumption
<1> USE DEF Inv, revs, fanout
<1>1. ASSUME NEW a \in Appliers, register_applier(a) PROVE Inv'
  <2>1. TypeOK'
    BY <1>1 DEF register_applier, TypeOK
  <2>2. Exclusion' /\ Quiet' /\ Ordered' /\ Numbered'
    BY <1>1 DEF register_applier, Exclusion, Quiet, Ordered, Numbered
  <2>3. Reached'
    BY <1>1 DEF register_applier, Reached, Explained, TypeOK
  <2> QED BY <2>1, <2>2, <2>3
<1>2. ASSUME NEW w \in Writers, Call(w) PROVE Inv'
  <2>1. TypeOK'
    BY <1>2 DEF Call, TypeOK, WriterState
  <2>2. lock # w
    BY <1>2 DEF Call, Exclusion
  <2>3. Exclusion' /\ Quiet'
    BY <1>2 DEF Call, Exclusion, Quiet, TypeOK
  <2>4. Reached'
    BY <1>2, <2>2 DEF Call, Reached, Explained, TypeOK
  <2>5. Ordered' /\ Numbered'
    BY <1>2 DEF Call, Ordered, Numbered, TypeOK
  <2> QED BY <2>1, <2>3, <2>4, <2>5
<1>3. ASSUME NEW w \in Writers, Reject(w) PROVE Inv'
  <2>1. TypeOK'
    BY <1>3 DEF Reject, TypeOK, WriterState
  <2>2. Exclusion' /\ Quiet' /\ Reached'
    BY <1>3 DEF Reject, Unlocked, Exclusion, Quiet, Reached, Explained, TypeOK
  <2>3. Ordered' /\ Numbered'
    BY <1>3 DEF Reject, Unlocked, Exclusion, Ordered, Numbered, TypeOK
  <2> QED BY <2>1, <2>2, <2>3
<1>4. ASSUME NEW w \in Writers, FanOut(w) PROVE Inv'
  <2>0. queue' \in Seq(Writers) /\ pc' \in [Writers -> WriterState]
    BY <1>4 DEF FanOut, TypeOK, WriterState
  <2>1. TypeOK'
    BY <1>4, <2>0 DEF FanOut, TypeOK
  <2>2. Exclusion' /\ Quiet'
    BY <1>4 DEF FanOut, Unlocked, Exclusion, Quiet, TypeOK
  <2>3. Reached'
    BY <1>4 DEF FanOut, Unlocked, Quiet, Reached, Explained, TypeOK
  <2>4. Ordered' /\ Numbered'
    BY <1>4 DEF FanOut, Unlocked, Exclusion, Ordered, Numbered, TypeOK
  <2> QED BY <2>1, <2>2, <2>3, <2>4
<1>5. ASSUME NEW w \in Writers, NEW a \in Appliers, Acknowledge(w, a) PROVE Inv'
  <2>1. TypeOK'
    BY <1>5 DEF Acknowledge, TypeOK
  <2>2. lock = w
    BY <1>5 DEF Acknowledge, Exclusion
  <2>3. Exclusion' /\ Quiet'
    BY <1>5, <2>2 DEF Acknowledge, Exclusion, Quiet
  <2>4. Reached'
    BY <1>5, <2>2 DEF Acknowledge, Reached, Explained, TypeOK
  <2>5. Ordered' /\ Numbered'
    BY <1>5, <2>2 DEF Acknowledge, Exclusion, Ordered, Numbered, TypeOK
  <2> QED BY <2>1, <2>3, <2>4, <2>5
<1>6. ASSUME NEW w \in Writers, NEW a \in Appliers, FailApply(w, a) PROVE Inv'
  <2>1. TypeOK'
    BY <1>6 DEF FailApply, TypeOK
  <2>2. lock = w
    BY <1>6 DEF FailApply, Exclusion
  <2>3. Exclusion' /\ Quiet'
    BY <1>6, <2>2 DEF FailApply, Exclusion, Quiet
  <2>4. Reached'
    BY <1>6, <2>2 DEF FailApply, Reached, Explained, TypeOK
  <2>5. Ordered' /\ Numbered'
    BY <1>6, <2>2 DEF FailApply, Exclusion, Ordered, Numbered, TypeOK
  <2> QED BY <2>1, <2>3, <2>4, <2>5
<1>7. ASSUME NEW w \in Writers, ApplyFailed(w) PROVE Inv'
  <2>1. TypeOK'
    BY <1>7 DEF ApplyFailed, Release, LeaveApart, TypeOK, WriterState
  <2>2. lock = w
    BY <1>7 DEF ApplyFailed, Exclusion
  <2>3. Exclusion' /\ Quiet'
    BY <1>7, <2>2 DEF ApplyFailed, Release, Exclusion, Quiet, TypeOK
  <2>4. Reached'
    BY <1>7, <2>2 DEF ApplyFailed, Release, LeaveApart, Reached, Explained, TypeOK
  <2>5. Ordered' /\ Numbered'
    BY <1>7, <2>2 DEF ApplyFailed, Release, Exclusion, Ordered, Numbered, TypeOK
  <2> QED BY <2>1, <2>3, <2>4, <2>5
<1>8. ASSUME NEW w \in Writers, TakeRev(w) PROVE Inv'
  <2>1. TypeOK'
    BY <1>8 DEF TakeRev, NextRev, TypeOK, WriterState
  <2>2. lock = w
    BY <1>8 DEF TakeRev, Exclusion
  <2>3. Exclusion' /\ Quiet' /\ Reached'
    BY <1>8, <2>2 DEF TakeRev, Exclusion, Quiet, Reached, Explained, TypeOK
  <2>4. Ordered'
    BY <1>8, <2>2 DEF TakeRev, AllAcknowledged, Exclusion, Ordered, TypeOK
  <2>5. Numbered'
    <3>1. taken' = counter + 1 /\ counter' = counter + 1
      BY <1>8 DEF TakeRev, NextRev
    <3>2. counter + 1 > committed.rev /\ counter + 1 \notin others
      BY DEF TypeOK, Ordered, Numbered
    <3> QED BY <1>8, <3>1, <3>2 DEF TakeRev, Numbered, TypeOK
  <2> QED BY <2>1, <2>3, <2>4, <2>5
<1>9. ASSUME NEW w \in Writers, Commit(w) PROVE Inv'
  <2>1. TypeOK'
    BY <1>9 DEF Commit, TypeOK, WriterState
  <2>2. lock = w /\ pending = {} /\ ~failed
    BY <1>9 DEF Commit, Exclusion, Ordered
  <2>3. Exclusion' /\ Quiet'
    BY <1>9, <2>2 DEF Commit, Exclusion, Quiet, TypeOK
  <2>4. committed'.value = val[w] /\ committed'.rev = taken
    BY <1>9 DEF Commit
  <2>5. Reached'
    <3>1. \A a \in snapshot : applied'[a] = committed'.value
      BY <1>9, <2>2, <2>4 DEF Commit, Reached
    <3>2. \A a \in registered' \ snapshot' : applied'[a] \in left'[a]
      BY <1>9, <2>2 DEF Commit, Reached, TypeOK
    <3> QED BY <1>9, <2>2, <2>4, <3>1, <3>2 DEF Commit, Reached, Explained
  <2>6. gauge' = previous'
    BY <1>9, <2>2 DEF Commit, Exclusion, Ordered
  <2>7. Ordered'
    BY <1>9, <2>2, <2>4, <2>6 DEF Commit, Exclusion, Ordered, Numbered, TypeOK
  <2>8. Numbered'
    BY <1>9, <2>2 DEF Commit, Exclusion, Numbered, TypeOK
  <2> QED BY <2>1, <2>3, <2>5, <2>7, <2>8
<1>10. ASSUME NEW w \in Writers, Publish(w) PROVE Inv'
  <2>1. TypeOK'
    BY <1>10 DEF Publish, Published, Release, TypeOK, WriterState
  <2>2. lock = w
    BY <1>10 DEF Publish, Exclusion
  <2>3. Exclusion' /\ Quiet'
    BY <1>10, <2>2 DEF Publish, Release, Exclusion, Quiet, TypeOK
  <2>4. gauge' = committed /\ committed.value = val[w] /\ pending = {} /\ ~failed
    BY <1>10 DEF Publish, Published, Ordered, TypeOK
  <2>5. Reached'
    BY <1>10, <2>2, <2>4 DEF Publish, Release, Reached, Explained, TypeOK
  <2>6. Ordered' /\ Numbered'
    BY <1>10, <2>2, <2>4 DEF Publish, Release, Exclusion, Ordered, Numbered, TypeOK
  <2> QED BY <2>1, <2>3, <2>5, <2>6
<1>11. ASSUME NEW w \in Writers, DropWaiting(w) PROVE Inv'
  <2>1. queue' \in Seq(Writers)
    BY <1>11, QueueOK DEF DropWaiting
  <2>2. TypeOK'
    BY <1>11, <2>1 DEF DropWaiting, TypeOK, WriterState
  <2>3. Exclusion' /\ Quiet' /\ Reached'
    BY <1>11 DEF DropWaiting, Exclusion, Quiet, Reached, Explained, TypeOK
  <2>4. Ordered' /\ Numbered'
    BY <1>11 DEF DropWaiting, Ordered, Numbered, TypeOK
  <2> QED BY <2>2, <2>3, <2>4
<1>12. ASSUME NEW w \in Writers, DropFanOut(w) PROVE Inv'
  <2>1. TypeOK'
    BY <1>12 DEF DropFanOut, Release, LeaveApart, TypeOK, WriterState
  <2>2. lock = w
    BY <1>12 DEF DropFanOut, Exclusion
  <2>3. Exclusion' /\ Quiet'
    BY <1>12, <2>2 DEF DropFanOut, Release, Exclusion, Quiet, TypeOK
  <2>4. Reached'
    BY <1>12, <2>2 DEF DropFanOut, Release, LeaveApart, Reached, Explained, TypeOK
  <2>5. Ordered' /\ Numbered'
    BY <1>12, <2>2 DEF DropFanOut, Release, Exclusion, Ordered, Numbered, TypeOK
  <2> QED BY <2>1, <2>3, <2>4, <2>5
<1>13. CASE OtherCommit
  <2>1. TypeOK' /\ Exclusion' /\ Quiet' /\ Reached'
    BY <1>13 DEF OtherCommit, TypeOK, Exclusion, Quiet, Reached, Explained
  <2>2. Ordered' /\ Numbered'
    BY <1>13 DEF OtherCommit, TypeOK, Ordered, Numbered
  <2> QED BY <2>1, <2>2
<1>14. CASE UNCHANGED vars
  BY <1>14 DEF vars, TypeOK, Exclusion, Quiet, Reached, Explained, Ordered, Numbered
<1> QED
  BY <1>1, <1>2, <1>3, <1>4, <1>5, <1>6, <1>7, <1>8, <1>9, <1>10, <1>11, <1>12, <1>13, <1>14
     DEF Next, SetStep

\* The invariant holds throughout.
LEMMA Invariance == Spec => []Inv
BY InvInit, InvStep, PTL DEF Spec

\* The state of a control stays within its types.
THEOREM TypeCorrect == Spec => []TypeOK
<1>1. Inv => TypeOK
  BY DEF Inv
<1> QED BY <1>1, Invariance, PTL

\* Between writes every consumer runs with the committed value or with one a
\* failed or dropped write, or its own configuration, accounts for: no overlap of
\* calls of Control::set, for any number of writers and appliers, leaves it with
\* anything else.
THEOREM ConfirmedApply == Spec => []AppliedUnlessReported
<1>1. Inv => AppliedUnlessReported
  BY DEF Inv, Quiet, Reached, Explained, AppliedUnlessReported
<1> QED BY <1>1, Invariance, PTL

\* A committed value is live in every consumer the write started with: the
\* postcondition of a set that returns Ok.
THEOREM CommittedIsLive == Spec => []CommitMeansLive
<1>1. Inv => CommitMeansLive
  BY DEF Inv, Exclusion, Reached, Ordered, CommitMeansLive
<1> QED BY <1>1, Invariance, PTL

\* A sampler of the gauge never sees a value that is not committed, and one that
\* is no longer committed only between a write's commit and its publication.
THEOREM GaugeNeverAhead == Spec => []GaugeFollows
<1>1. Inv => GaugeFollows
  BY DEF Inv, Ordered, GaugeFollows
<1> QED BY <1>1, Invariance, PTL

\* The committed value changes only to a higher rev that no other control took,
\* though others may take theirs between its allocation and its commit.
THEOREM RevsStrictlyIncrease == Spec => RevsIncrease
<1> DEFINE Step == committed' # committed
                       => committed'.rev > committed.rev /\ committed'.rev \notin others
<1>1. Inv /\ [Next]_vars => [Step]_vars
  <2> SUFFICES ASSUME Inv, Next, committed' # committed
               PROVE  committed'.rev > committed.rev /\ committed'.rev \notin others
    BY DEF vars
  <2>1. PICK w \in Writers : Commit(w)
    BY DEF Next, SetStep, register_applier, Call, Reject, FanOut, Acknowledge, FailApply,
           ApplyFailed, TakeRev, Publish, DropWaiting, DropFanOut, OtherCommit
  <2>2. committed'.rev = taken /\ pc[w] = "numbered"
    BY <2>1 DEF Commit
  <2> QED BY <2>2 DEF Inv, Numbered
<1> QED BY <1>1, Invariance, PTL DEF Spec, RevsIncrease
=============================================================================
