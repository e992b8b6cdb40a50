--------------------------- MODULE ActivityProofs ---------------------------
(***************************************************************************)
(* Proofs about Activity, for any number of fibers, daemons, ordinals and  *)
(* stanza positions: its types; that each ordinal goes to one op and, when *)
(* nothing stops the phase, to one exactly; that the counters agree; that  *)
(* the wait loop waits for the phase's fibers; and that a clean result     *)
(* hides no daemon.                                                        *)
(***************************************************************************)
EXTENDS Activity, FiniteSetTheorems, SequenceTheorems, TLAPS

\* The task waits for a daemon only while it has one left to wait for.
AwaitOK == mpc = "await" => draining # <<>>

TypeInv == TypeOK /\ AwaitOK

\* What the assumption on the cursor says about one position.
LEMMA Rows ==
    ASSUME NEW p \in 1..Positions
    PROVE  /\ RowOffset[p] \in Nat
           /\ RowOffset[p + 1] \in Nat
           /\ RowOffset[p] < RowOffset[p + 1]
BY CursorAssumption DEF CursorAssumption

\* The stanza's stride is a natural number, and so is the extent.
LEMMA Stride ==
    /\ Extent \in Nat /\ Positions \in Nat \ {0}
    /\ RowOffset[Positions + 1] \in Nat
    /\ RowOffset[1] = 0
BY CursorAssumption DEF CursorAssumption

\* The cut of two numbers is one of them and exceeds neither.
LEMMA MinFact ==
    ASSUME NEW a \in Int, NEW b \in Int
    PROVE  /\ MinOf(a, b) \in {a, b}
           /\ MinOf(a, b) <= a /\ MinOf(a, b) <= b
BY DEF MinOf

\* A sub-run starts at the iterator's base and ends within its range.
LEMMA SubEndFact ==
    ASSUME NEW f \in Fibers, base[f] \in 0..Extent, fend[f] \in 0..Extent,
           pos[f] \in 1..Positions, base[f] < fend[f]
    PROVE  /\ SubEnd(f) \in 0..Extent
           /\ base[f] < SubEnd(f) /\ SubEnd(f) <= fend[f]
           /\ SubEnd(f) \in {fend[f],
                             base[f] + (RowOffset[pos[f] + 1] - RowOffset[pos[f]])}
<1>1. /\ RowOffset[pos[f]] \in Nat
      /\ RowOffset[pos[f] + 1] \in Nat
      /\ RowOffset[pos[f]] < RowOffset[pos[f] + 1]
  BY Rows
<1> QED BY <1>1, Stride DEF SubEnd, MinOf

\* The activity starts within its types.
LEMMA TypeInit == Init => TypeInv
<1> SUFFICES ASSUME Init PROVE TypeInv
  OBVIOUS
<1>1. TypeOK
  <2>1. /\ cursor \in 0..Extent
        /\ pos \in [Fibers -> 1..(Positions + 1)]
        /\ base \in [Fibers -> 0..Extent]
        /\ fend \in [Fibers -> 0..Extent]
        /\ covered \in [Ordinals -> Nat]
    BY Stride DEF Init
  <2>2. /\ pc \in [Fibers -> FiberState]
        /\ outcome \in [Fibers -> OpOutcome]
        /\ dpc \in [Daemons -> DaemonState]
        /\ dexit \in [Daemons -> DaemonExit]
        /\ mpc \in MainState
    BY DEF Init, FiberState, OpOutcome, DaemonState, DaemonExit, MainState
  <2>3. slots \in Seq(Daemons) /\ draining \in Seq(Daemons)
    BY DEF Init
  <2>4. sample \in [failures : Nat, cycles : Nat]
    BY DEF Init
  <2>5. /\ cycles_total \in Nat /\ result_total \in Nat /\ skips_total \in Nat
        /\ result_failure \in Nat /\ ops_started \in Nat /\ ops_finished \in Nat
        /\ level \in 0..2
    BY DEF Init
  <2>6. /\ stop_flag \in BOOLEAN /\ walk_stop \in BOOLEAN /\ daemon_stop \in BOOLEAN
        /\ policy_tripped \in BOOLEAN /\ result \in BOOLEAN
    BY DEF Init
  <2>7. /\ fiber_stop \subseteq Fibers /\ unpushed \subseteq Fibers
        /\ dflag \subseteq Daemons /\ dskip \subseteq Daemons
        /\ exits \subseteq DaemonExit \cup {"TimedOut"}
    BY DEF Init
  <2> QED BY <2>1, <2>2, <2>3, <2>4, <2>5, <2>6, <2>7 DEF TypeOK
<1>2. AwaitOK
  BY DEF Init, AwaitOK
<1> QED BY <1>1, <1>2 DEF TypeInv

\* The steps of the pool and of the fibers keep the types.
LEMMA TypeFiber ==
    ASSUME TypeInv, NEW f \in Fibers,
           \/ FiberStep(f) \/ OpReturns(f) \/ PanicFiber(f) \/ PanicInOutputs(f)
           \/ SpawnFiber(f) \/ PushFiber(f) \/ FlagFiber(f)
    PROVE  TypeInv'
<1> USE DEF TypeInv, TypeOK, AwaitOK, cursorVars, fiberVars, countVars, stopVars, mainVars,
            daemonVars, FiberState, Goto
<1>1. CASE LeaveAtBoundary(f)
  BY <1>1 DEF LeaveAtBoundary
<1>2. CASE Reserve(f)
  <2> DEFINE upto == MinOf(cursor + RowOffset[Positions + 1], Extent)
  <2>1. upto \in 0..Extent
    BY Stride DEF MinOf
  <2>2. cursor' = upto /\ fend' = [fend EXCEPT ![f] = upto]
    BY <1>2 DEF Reserve
  <2>3. cursor' \in 0..Extent /\ fend' \in [Fibers -> 0..Extent]
    BY <2>1, <2>2
  <2>4. pos' \in [Fibers -> 1..(Positions + 1)] /\ base' \in [Fibers -> 0..Extent]
    BY <1>2, Stride DEF Reserve
  <2> QED BY <1>2, <2>3, <2>4 DEF Reserve
<1>3. CASE Exhausted(f)
  BY <1>3 DEF Exhausted
<1>4. CASE EndStanza(f)
  BY <1>4 DEF EndStanza
<1>5. CASE NextOp(f)
  <2>1. pos[f] \in 1..Positions /\ base[f] < fend[f]
    BY <1>5, Stride DEF NextOp
  <2>2. SubEnd(f) \in 0..Extent
    BY <2>1, SubEndFact
  <2>3. base' \in [Fibers -> 0..Extent]
    BY <1>5, <2>2 DEF NextOp, AdvanceRun
  <2>4. covered' \in [Ordinals -> Nat]
    BY <1>5 DEF NextOp
  <2>5. pos' \in [Fibers -> 1..(Positions + 1)]
    BY <1>5, <2>1, Stride DEF NextOp
  <2> QED BY <1>5, <2>3, <2>4, <2>5 DEF NextOp
<1>6. CASE Dispatch(f)
  BY <1>6 DEF Dispatch
<1>7. CASE CancelOp(f)
  BY <1>7 DEF CancelOp, OpOutcome
<1>8. CASE CountCycle(f)
  BY <1>8 DEF CountCycle
<1>9. CASE CountResult(f)
  BY <1>9 DEF CountResult
<1>10. CASE SpawnDaemonFails(f)
  BY <1>10 DEF SpawnDaemonFails
<1>11. CASE \E d \in Daemons : SpawnDaemon(f, d)
  <2>1. PICK d \in Daemons : SpawnDaemon(f, d)
    BY <1>11
  <2>2. slots' \in Seq(Daemons)
    BY <2>1 DEF SpawnDaemon
  <2> QED BY <2>1, <2>2 DEF SpawnDaemon, DaemonState
<1>12. CASE OpReturns(f)
  BY <1>12 DEF OpReturns, OpOutcome
<1>13. CASE PanicFiber(f)
  BY <1>13 DEF PanicFiber
<1>14. CASE PanicInOutputs(f)
  BY <1>14 DEF PanicInOutputs
<1>15. CASE SpawnFiber(f)
  BY <1>15 DEF SpawnFiber
<1>16. CASE PushFiber(f)
  BY <1>16 DEF PushFiber
<1>17. CASE FlagFiber(f)
  BY <1>17 DEF FlagFiber
<1> QED
  BY <1>1, <1>2, <1>3, <1>4, <1>5, <1>6, <1>7, <1>8, <1>9, <1>10, <1>11, <1>12, <1>13, <1>14,
     <1>15, <1>16, <1>17 DEF FiberStep

\* So do the steps of the daemons.
LEMMA TypeDaemon ==
    ASSUME TypeInv, NEW d \in Daemons,
           DaemonStarts(d) \/ DaemonReturns(d) \/ DaemonCancels(d) \/ DaemonPanics(d)
    PROVE  TypeInv'
<1> USE DEF TypeInv, TypeOK, AwaitOK, cursorVars, fiberVars, countVars, stopVars, mainVars,
            daemonVars, DaemonState, DaemonExit
<1>1. CASE DaemonStarts(d)
  BY <1>1 DEF DaemonStarts
<1>2. CASE DaemonReturns(d)
  BY <1>2 DEF DaemonReturns, DaemonEnds, OpOutcome
<1>3. CASE DaemonCancels(d)
  BY <1>3 DEF DaemonCancels, DaemonEnds
<1>4. CASE DaemonPanics(d)
  BY <1>4 DEF DaemonPanics, DaemonEnds
<1> QED BY <1>1, <1>2, <1>3, <1>4

\* So do the activity's own task and the stops from outside.
LEMMA TypeMain ==
    ASSUME TypeInv, MainStep \/ Escalate \/ WalkStop \/ DaemonStop
    PROVE  TypeInv'
<1> USE DEF TypeInv, TypeOK, AwaitOK, cursorVars, fiberVars, countVars, stopVars, mainVars,
            daemonVars, MainState
<1>1. CASE ReadFailures
  BY <1>1 DEF ReadFailures
<1>2. CASE EvaluateStop
  <2>1. /\ policy_tripped' \in BOOLEAN /\ stop_flag' \in BOOLEAN /\ walk_stop' \in BOOLEAN
        /\ level' \in 0..2
    BY <1>2 DEF EvaluateStop, Trips
  <2> QED BY <1>2, <2>1 DEF EvaluateStop, FreshCycles
<1>3. CASE AllDrained
  BY <1>3 DEF AllDrained
<1>4. CASE SignalDaemon
  <2>1. Head(draining) \in Daemons
    BY <1>4 DEF SignalDaemon
  <2> QED BY <1>4, <2>1 DEF SignalDaemon
<1>5. ASSUME NEW e \in DaemonExit \cup {"TimedOut"}, mpc = "await", CollectExit(e)
      PROVE  TypeInv'
  <2>1. draining' \in Seq(Daemons)
    BY <1>5 DEF CollectExit
  <2> QED BY <1>5, <2>1 DEF CollectExit
<1>6. CASE JoinDaemon
  <2>1. Head(draining) \in Daemons
    BY <1>6 DEF JoinDaemon
  <2> QED BY <1>5, <1>6, <2>1 DEF JoinDaemon
<1>7. CASE GraceExpires
  BY <1>5, <1>7 DEF GraceExpires
<1>8. CASE ReportExits
  BY <1>8 DEF ReportExits
<1>9. CASE Finish
  <2>1. abnormal \in BOOLEAN
    BY DEF abnormal
  <2> QED BY <1>9, <2>1 DEF Finish
<1>10. CASE Escalate
  BY <1>10 DEF Escalate
<1>11. CASE WalkStop
  BY <1>11 DEF WalkStop
<1>12. CASE DaemonStop
  BY <1>12 DEF DaemonStop
<1> QED
  BY <1>1, <1>2, <1>3, <1>4, <1>6, <1>7, <1>8, <1>9, <1>10, <1>11, <1>12 DEF MainStep

\* Every step of fibers, daemons and the wait loop stays within the types.
LEMMA TypeStep == TypeInv /\ [Next]_vars => TypeInv'
<1> SUFFICES ASSUME TypeInv, [Next]_vars PROVE TypeInv'
  OBVIOUS
<1>1. CASE Next
  BY <1>1, TypeFiber, TypeDaemon, TypeMain DEF Next
<1>2. CASE UNCHANGED vars
  BY <1>2 DEF vars, cursorVars, fiberVars, countVars, stopVars, mainVars, daemonVars, TypeInv,
              TypeOK, AwaitOK
<1> QED BY <1>1, <1>2

\* Every state of an activity is within its types, for every instance.
THEOREM TypeCorrect == Spec => []TypeOK
<1>1. Spec => []TypeInv
  BY TypeInit, TypeStep, PTL DEF Spec
<1>2. TypeInv => TypeOK
  BY DEF TypeInv
<1> QED BY <1>1, <1>2, PTL
-----------------------------------------------------------------------------
(* Cover-once.  A fiber's iterator spans the ordinals base..fend-1 it has  *)
(* reserved and not yet handed out.                                        *)

Holds(f, o) == base[f] <= o /\ o < fend[f]

\* Reservations lie below the cursor, no two fibers hold the same ordinal, and
\* an ordinal handed to an op is below the cursor and held by no fiber.
Exclusive ==
    /\ \A f \in Fibers : fend[f] <= cursor
    /\ \A f, g \in Fibers : \A o \in Ordinals : Holds(f, o) /\ Holds(g, o) => f = g
    /\ \A o \in Ordinals : covered[o] # 0 => o < cursor
    /\ \A o \in Ordinals, f \in Fibers : covered[o] # 0 => ~Holds(f, o)

CoverInv == TypeInv /\ Exclusive /\ CoverOnce

\* No fiber holds a reservation at the start.
LEMMA CoverInit == Init => CoverInv
<1> SUFFICES ASSUME Init PROVE CoverInv
  OBVIOUS
<1>1. TypeInv
  BY TypeInit
<1>2. Exclusive
  BY Stride DEF Init, Exclusive, Holds, Ordinals
<1>3. CoverOnce
  BY DEF Init, CoverOnce
<1> QED BY <1>1, <1>2, <1>3 DEF CoverInv

\* A step that leaves the cursor, the iterators and the ops' ordinals alone.
LEMMA CoverIdle ==
    ASSUME CoverInv, UNCHANGED cursorVars PROVE Exclusive' /\ CoverOnce'
BY DEF CoverInv, Exclusive, CoverOnce, Holds, cursorVars

\* A step that drops what is left of one fiber's reservation.
LEMMA CoverDrop ==
    ASSUME CoverInv, NEW f \in Fibers, base' = [base EXCEPT ![f] = fend[f]],
           UNCHANGED <<cursor, fend, covered>>
    PROVE  Exclusive' /\ CoverOnce'
<1> USE DEF CoverInv, TypeInv, TypeOK, Ordinals
<1>1. \A g \in Fibers, o \in Ordinals : Holds(g, o)' => Holds(g, o)
  BY Stride DEF Holds
<1> QED BY <1>1 DEF Exclusive, CoverOnce

\* Reserve takes ordinals nobody holds yet: those from the cursor on.
LEMMA CoverReserve ==
    ASSUME CoverInv, NEW f \in Fibers, Reserve(f) PROVE Exclusive' /\ CoverOnce'
<1> USE DEF CoverInv, TypeInv, TypeOK
<1> DEFINE upto == MinOf(cursor + RowOffset[Positions + 1], Extent)
<1>1. upto \in 0..Extent /\ cursor <= upto
  BY Stride DEF MinOf
<1>2. /\ cursor' = upto /\ fend' = [fend EXCEPT ![f] = upto]
      /\ base' = [base EXCEPT ![f] = cursor]
      /\ covered' = covered
  BY DEF Reserve
<1>3. \A g \in Fibers \ {f}, o \in Ordinals : Holds(g, o)' => Holds(g, o) /\ o < cursor
  BY <1>2, Stride DEF Holds, Exclusive, Ordinals
<1>4. \A o \in Ordinals : Holds(f, o)' => cursor <= o
  BY <1>2 DEF Holds
<1>5. \A g \in Fibers : fend'[g] <= cursor'
  BY <1>1, <1>2, Stride DEF Exclusive
<1>6. \A g, h \in Fibers : \A o \in Ordinals : Holds(g, o)' /\ Holds(h, o)' => g = h
  <2> SUFFICES ASSUME NEW g \in Fibers, NEW h \in Fibers, NEW o \in Ordinals,
                      Holds(g, o)', Holds(h, o)'
               PROVE  g = h
    OBVIOUS
  <2>1. o \in Int /\ cursor \in Int
    BY Stride DEF Ordinals
  <2>2. (g = f <=> ~(o < cursor)) /\ (h = f <=> ~(o < cursor))
    BY <1>3, <1>4, <2>1
  <2>3. CASE g # f /\ h # f
    BY <2>3, <1>3 DEF Exclusive
  <2> QED BY <2>2, <2>3
<1>7. \A o \in Ordinals : covered'[o] # 0 => o < cursor'
  BY <1>1, <1>2, Stride DEF Exclusive, Ordinals
<1>8. \A o \in Ordinals, g \in Fibers : covered'[o] # 0 => ~Holds(g, o)'
  <2> SUFFICES ASSUME NEW o \in Ordinals, NEW g \in Fibers, covered[o] # 0
               PROVE  ~Holds(g, o)'
    BY <1>2
  <2>1. o < cursor /\ ~Holds(g, o)
    BY DEF Exclusive
  <2>2. o \in Int /\ cursor \in Int
    BY Stride DEF Ordinals
  <2>3. CASE g = f
    BY <1>4, <2>1, <2>2, <2>3
  <2>4. CASE g # f
    BY <1>3, <2>1, <2>4
  <2> QED BY <2>3, <2>4
<1> QED BY <1>2, <1>5, <1>6, <1>7, <1>8 DEF Exclusive, CoverOnce, Ordinals

\* NextOp hands out the front of the fiber's own reservation and moves its
\* iterator behind it.
LEMMA CoverNextOp ==
    ASSUME CoverInv, NEW f \in Fibers, NextOp(f) PROVE Exclusive' /\ CoverOnce'
<1> USE DEF CoverInv, TypeInv, TypeOK
<1>1. pos[f] \in 1..Positions /\ base[f] < fend[f]
  BY Stride DEF NextOp
<1>2. SubEnd(f) \in 0..Extent /\ base[f] < SubEnd(f) /\ SubEnd(f) <= fend[f]
  BY <1>1, SubEndFact
<1>3. /\ base' = [base EXCEPT ![f] = SubEnd(f)]
      /\ cursor' = cursor /\ fend' = fend
      /\ covered' = [o \in Ordinals |->
                        IF o \in base[f]..(SubEnd(f) - 1) THEN covered[o] + 1 ELSE covered[o]]
  BY DEF NextOp, AdvanceRun
<1>4. \A g \in Fibers, o \in Ordinals : Holds(g, o)' => Holds(g, o)
  BY <1>2, <1>3, Stride DEF Holds, Ordinals
<1>5. \A o \in Ordinals : covered'[o] # covered[o]
          => covered'[o] = covered[o] + 1 /\ Holds(f, o) /\ o < SubEnd(f)
  BY <1>2, <1>3, Stride DEF Holds, Ordinals
<1>6. \A o \in Ordinals : o < SubEnd(f) => ~Holds(f, o)'
  BY <1>2, <1>3, Stride DEF Holds, Ordinals
<1>7. \A o \in Ordinals : Holds(f, o) => o < cursor
  BY Stride DEF Holds, Exclusive, Ordinals
<1>8. \A o \in Ordinals : covered'[o] # 0 => o < cursor'
  <2> SUFFICES ASSUME NEW o \in Ordinals, covered'[o] # 0 PROVE o < cursor
    BY <1>3
  <2>1. covered[o] # 0 => o < cursor
    BY DEF Exclusive
  <2> QED BY <2>1, <1>5, <1>7
<1>9. \A o \in Ordinals, g \in Fibers : covered'[o] # 0 => ~Holds(g, o)'
  BY <1>4, <1>5, <1>6 DEF Exclusive
<1>10. \A o \in Ordinals : covered'[o] <= 1
  <2> SUFFICES ASSUME NEW o \in Ordinals PROVE covered'[o] <= 1
    OBVIOUS
  <2>1. covered[o] \in Nat /\ covered[o] <= 1
    BY DEF CoverOnce
  <2>2. Holds(f, o) => covered[o] = 0
    BY DEF Exclusive
  <2> QED BY <2>1, <2>2, <1>5
<1>11. \A g, h \in Fibers : \A o \in Ordinals : Holds(g, o)' /\ Holds(h, o)' => g = h
  BY <1>4 DEF Exclusive
<1>12. \A g \in Fibers : fend'[g] <= cursor'
  BY <1>3 DEF Exclusive
<1> QED BY <1>8, <1>9, <1>10, <1>11, <1>12 DEF Exclusive, CoverOnce, Ordinals

\* Every step keeps reservations disjoint and ordinals handed out once.
LEMMA CoverStep == CoverInv /\ [Next]_vars => CoverInv'
<1> SUFFICES ASSUME CoverInv, [Next]_vars PROVE CoverInv'
  OBVIOUS
<1>1. TypeInv'
  BY TypeStep DEF CoverInv
<1>2. SUFFICES Exclusive' /\ CoverOnce'
  BY <1>1 DEF CoverInv
<1>3. ASSUME NEW f \in Fibers, Reserve(f) PROVE Exclusive' /\ CoverOnce'
  BY <1>3, CoverReserve
<1>4. ASSUME NEW f \in Fibers, NextOp(f) PROVE Exclusive' /\ CoverOnce'
  BY <1>4, CoverNextOp
<1>5. ASSUME NEW f \in Fibers,
             EndStanza(f) \/ PanicFiber(f) \/ PanicInOutputs(f) \/ SpawnDaemonFails(f)
      PROVE  Exclusive' /\ CoverOnce'
  BY <1>5, CoverDrop DEF EndStanza, PanicFiber, PanicInOutputs, SpawnDaemonFails
<1>6. ASSUME NEW f \in Fibers,
             \/ LeaveAtBoundary(f) \/ Exhausted(f) \/ Dispatch(f) \/ CancelOp(f)
             \/ CountCycle(f) \/ CountResult(f) \/ \E d \in Daemons : SpawnDaemon(f, d)
             \/ OpReturns(f) \/ SpawnFiber(f) \/ PushFiber(f) \/ FlagFiber(f)
      PROVE  UNCHANGED cursorVars
  BY <1>6 DEF LeaveAtBoundary, Exhausted, Dispatch, CancelOp, CountCycle, CountResult,
              SpawnDaemon, OpReturns, SpawnFiber, PushFiber, FlagFiber
<1>7. ASSUME NEW d \in Daemons,
             DaemonStarts(d) \/ DaemonReturns(d) \/ DaemonCancels(d) \/ DaemonPanics(d)
      PROVE  UNCHANGED cursorVars
  BY <1>7 DEF DaemonStarts, DaemonReturns, DaemonCancels, DaemonPanics, DaemonEnds
<1>8. ASSUME MainStep \/ Escalate \/ WalkStop \/ DaemonStop PROVE UNCHANGED cursorVars
  <2>1. ReadFailures \/ AllDrained \/ SignalDaemon => UNCHANGED cursorVars
    BY DEF ReadFailures, AllDrained, SignalDaemon
  <2>2. EvaluateStop => UNCHANGED cursorVars
    BY DEF EvaluateStop
  <2>3. JoinDaemon \/ GraceExpires => UNCHANGED cursorVars
    BY DEF JoinDaemon, GraceExpires, CollectExit
  <2>4. ReportExits \/ Finish => UNCHANGED cursorVars
    BY DEF ReportExits, Finish
  <2>5. Escalate \/ WalkStop \/ DaemonStop => UNCHANGED cursorVars
    BY DEF Escalate, WalkStop, DaemonStop
  <2> QED BY <1>8, <2>1, <2>2, <2>3, <2>4, <2>5 DEF MainStep
<1>9. CASE UNCHANGED vars
  BY <1>9, CoverIdle DEF vars
<1> QED
  BY <1>3, <1>4, <1>5, <1>6, <1>7, <1>8, <1>9, CoverIdle DEF Next, FiberStep

\* No ordinal is handed to two ops, for any number of fibers, whatever resizes,
\* stops, panics and daemon failures happen: the cover-once promise of
\* StanzaRuns and of the shared cursor.
THEOREM CoverOnceHolds == Spec => []CoverOnce
<1>1. Spec => []CoverInv
  BY CoverInit, CoverStep, PTL DEF Spec
<1>2. CoverInv => CoverOnce
  BY DEF CoverInv
<1> QED BY <1>1, <1>2, PTL
-----------------------------------------------------------------------------
(* The counters.  A counter that lags behind another one does so by the    *)
(* fibers that stand between the two increments.                           *)

\* When one member of a finite set is all that may enter or leave a subset,
\* the subset's size moves by that member.
LEMMA OneMoves ==
    ASSUME NEW D, IsFiniteSet(D), NEW A \in SUBSET D, NEW B \in SUBSET D, NEW k \in D,
           A \ {k} = B \ {k}
    PROVE  /\ Cardinality(A) \in Nat /\ Cardinality(B) \in Nat
           /\ k \in A /\ k \notin B => Cardinality(A) = Cardinality(B) + 1
           /\ k \notin A /\ k \in B => Cardinality(B) = Cardinality(A) + 1
           /\ (k \in A <=> k \in B) => Cardinality(A) = Cardinality(B)
<1>1. IsFiniteSet(A) /\ IsFiniteSet(B)
  BY FS_Subset
<1>2. Cardinality(A) \in Nat /\ Cardinality(B) \in Nat
  BY <1>1, FS_CardinalityType
<1>3. ASSUME k \in A, k \notin B PROVE Cardinality(A) = Cardinality(B) + 1
  <2>1. B = A \ {k}
    BY <1>3
  <2>2. Cardinality(A \ {k}) = Cardinality(A) - 1
    BY <1>1, <1>3, FS_RemoveElement
  <2> QED BY <1>2, <2>1, <2>2
<1>4. ASSUME k \notin A, k \in B PROVE Cardinality(B) = Cardinality(A) + 1
  <2>1. A = B \ {k}
    BY <1>4
  <2>2. Cardinality(B \ {k}) = Cardinality(B) - 1
    BY <1>1, <1>4, FS_RemoveElement
  <2> QED BY <1>2, <2>1, <2>2
<1>5. ASSUME k \in A <=> k \in B PROVE A = B
  <2>1. \A x : x \in A <=> x \in B
    BY <1>5
  <2> QED BY <2>1
<1> QED BY <1>2, <1>3, <1>4, <1>5

\* A condition as a number.
Bit(b) == IF b THEN 1 ELSE 0

\* What a fiber at a label with an outcome adds to the number of those at some
\* labels with some outcomes.
Share(label, out, labels, outs) == Bit(label \in labels /\ out \in outs)

\* How many fibers are at one of some labels with one of some outcomes.
Size(labels, outs) == Cardinality({f \in Fibers : pc[f] \in labels /\ outcome[f] \in outs})

\* A fiber that moves enters or leaves such a group, and nobody else does.
LEMMA Moves ==
    ASSUME TypeInv, NEW f \in Fibers, NEW to, NEW labels, NEW outs,
           Goto(f, to), \A g \in Fibers \ {f} : outcome'[g] = outcome[g]
    PROVE  /\ Size(labels, outs) \in Nat
           /\ Size(labels, outs)' = Size(labels, outs)
                 + Share(to, outcome'[f], labels, outs) - Share(pc[f], outcome[f], labels, outs)
<1> DEFINE A == {g \in Fibers : pc[g] \in labels /\ outcome[g] \in outs}
           B == {g \in Fibers : pc'[g] \in labels /\ outcome'[g] \in outs}
<1>1. Size(labels, outs) = Cardinality(A) /\ Size(labels, outs)' = Cardinality(B)
  BY DEF Size
<1>2. pc'[f] = to /\ \A g \in Fibers \ {f} : pc'[g] = pc[g]
  BY DEF TypeInv, TypeOK, Goto
<1>3. A \ {f} = B \ {f}
  BY <1>2
<1>4. /\ f \in A <=> pc[f] \in labels /\ outcome[f] \in outs
      /\ f \in B <=> to \in labels /\ outcome'[f] \in outs
  BY <1>2
<1>5. A \in SUBSET Fibers /\ B \in SUBSET Fibers /\ IsFiniteSet(Fibers)
  BY FibersAssumption DEF FibersAssumption
<1> HIDE DEF A, B
<1>6. /\ Cardinality(A) \in Nat /\ Cardinality(B) \in Nat
      /\ f \in A /\ f \notin B => Cardinality(A) = Cardinality(B) + 1
      /\ f \notin A /\ f \in B => Cardinality(B) = Cardinality(A) + 1
      /\ (f \in A <=> f \in B) => Cardinality(A) = Cardinality(B)
  BY <1>3, <1>5, OneMoves
<1> QED BY <1>1, <1>4, <1>6 DEF Bit, Share

\* Fibers between the count of a cycle and the counts of its result, those of
\* them with a result to count, fibers that hold a skip whose cycle is still to
\* be counted, and fibers with an op under way.
Uncounted == Size({"counted"}, OpOutcome)
UncountedResults == Size({"counted"}, {"ok", "err"})
UncountedSkips == Size({"returned"}, {"skip"})
Operating == Size({"permit", "inflight", "returned", "counted"}, OpOutcome)

\* Daemons with an op under way, cancelled ones, and skipped ones.
Running == Cardinality({d \in Daemons : dpc[d] \in {"spawned", "running"}})
Cancels == Cardinality({d \in Daemons : dexit[d] = "Cancelled"})
Skips == Cardinality(dskip)

\* The change of the four groups of fibers when one fiber moves to a label.
Shift(f, to) ==
    /\ Uncounted' = Uncounted + Bit(to = "counted") - Bit(pc[f] = "counted")
    /\ UncountedResults' = UncountedResults
          + Bit(to = "counted" /\ outcome'[f] # "skip")
          - Bit(pc[f] = "counted" /\ outcome[f] # "skip")
    /\ UncountedSkips' = UncountedSkips
          + Bit(to = "returned" /\ outcome'[f] = "skip")
          - Bit(pc[f] = "returned" /\ outcome[f] = "skip")
    /\ Operating' = Operating
          + Bit(to \in {"permit", "inflight", "returned", "counted"})
          - Bit(pc[f] \in {"permit", "inflight", "returned", "counted"})

\* How the move of one fiber shows in the four groups of fibers.
LEMMA FiberSizes ==
    ASSUME TypeInv, TypeInv', NEW f \in Fibers, NEW to,
           Goto(f, to), \A g \in Fibers \ {f} : outcome'[g] = outcome[g]
    PROVE  Shift(f, to)
<1>1. outcome[f] \in OpOutcome /\ outcome'[f] \in OpOutcome
  BY DEF TypeInv, TypeOK
<1>2. /\ Size({"counted"}, OpOutcome) \in Nat
      /\ Size({"counted"}, OpOutcome)' = Size({"counted"}, OpOutcome)
            + Share(to, outcome'[f], {"counted"}, OpOutcome)
            - Share(pc[f], outcome[f], {"counted"}, OpOutcome)
  BY Moves
<1>3. /\ Size({"counted"}, {"ok", "err"}) \in Nat
      /\ Size({"counted"}, {"ok", "err"})' = Size({"counted"}, {"ok", "err"})
            + Share(to, outcome'[f], {"counted"}, {"ok", "err"})
            - Share(pc[f], outcome[f], {"counted"}, {"ok", "err"})
  BY Moves
<1>4. /\ Size({"returned"}, {"skip"}) \in Nat
      /\ Size({"returned"}, {"skip"})' = Size({"returned"}, {"skip"})
            + Share(to, outcome'[f], {"returned"}, {"skip"})
            - Share(pc[f], outcome[f], {"returned"}, {"skip"})
  BY Moves
<1> DEFINE busy == {"permit", "inflight", "returned", "counted"}
<1>5. /\ Size(busy, OpOutcome) \in Nat
      /\ Size(busy, OpOutcome)' = Size(busy, OpOutcome)
            + Share(to, outcome'[f], busy, OpOutcome)
            - Share(pc[f], outcome[f], busy, OpOutcome)
  BY Moves
<1>6. /\ outcome[f] \in {"ok", "err"} <=> outcome[f] # "skip"
      /\ outcome'[f] \in {"ok", "err"} <=> outcome'[f] # "skip"
  BY <1>1 DEF OpOutcome
<1>7. /\ Uncounted \in Nat
      /\ Uncounted' = Uncounted + Bit(to = "counted") - Bit(pc[f] = "counted")
  BY <1>1, <1>2 DEF Uncounted, Bit, Share
<1>8. /\ UncountedResults \in Nat
      /\ UncountedResults' = UncountedResults
            + Bit(to = "counted" /\ outcome'[f] # "skip")
            - Bit(pc[f] = "counted" /\ outcome[f] # "skip")
  BY <1>3, <1>6 DEF UncountedResults, Bit, Share
<1>9. /\ UncountedSkips \in Nat
      /\ UncountedSkips' = UncountedSkips
            + Bit(to = "returned" /\ outcome'[f] = "skip")
            - Bit(pc[f] = "returned" /\ outcome[f] = "skip")
  BY <1>4 DEF UncountedSkips, Bit, Share
<1>10. /\ Operating \in Nat
       /\ Operating' = Operating + Bit(to \in busy) - Bit(pc[f] \in busy)
  BY <1>1, <1>5 DEF Operating, Bit, Share
<1> QED BY <1>7, <1>8, <1>9, <1>10 DEF Shift

\* How a step of one daemon shows in the three groups of daemons.
LEMMA DaemonSizes ==
    ASSUME TypeInv, TypeInv', NEW d \in Daemons, dskip \ {d} = dskip' \ {d},
           \A e \in Daemons \ {d} : dpc'[e] = dpc[e] /\ dexit'[e] = dexit[e]
    PROVE  /\ Running \in Nat /\ Cancels \in Nat /\ Skips \in Nat
           /\ Running' = Running + Bit(dpc'[d] \in {"spawned", "running"})
                                 - Bit(dpc[d] \in {"spawned", "running"})
           /\ Cancels' = Cancels + Bit(dexit'[d] = "Cancelled") - Bit(dexit[d] = "Cancelled")
           /\ Skips' = Skips + Bit(d \in dskip') - Bit(d \in dskip)
<1> DEFINE A1 == {e \in Daemons : dpc[e] \in {"spawned", "running"}}
           B1 == {e \in Daemons : dpc'[e] \in {"spawned", "running"}}
           A2 == {e \in Daemons : dexit[e] = "Cancelled"}
           B2 == {e \in Daemons : dexit'[e] = "Cancelled"}
<1>1. /\ Running = Cardinality(A1) /\ Running' = Cardinality(B1)
      /\ Cancels = Cardinality(A2) /\ Cancels' = Cardinality(B2)
      /\ Skips = Cardinality(dskip) /\ Skips' = Cardinality(dskip')
  BY DEF Running, Cancels, Skips
<1>2. A1 \ {d} = B1 \ {d} /\ A2 \ {d} = B2 \ {d}
  OBVIOUS
<1>3. /\ (d \in A1 <=> dpc[d] \in {"spawned", "running"})
      /\ (d \in B1 <=> dpc'[d] \in {"spawned", "running"})
      /\ (d \in A2 <=> dexit[d] = "Cancelled")
      /\ (d \in B2 <=> dexit'[d] = "Cancelled")
  OBVIOUS
<1>4. /\ A1 \in SUBSET Daemons /\ B1 \in SUBSET Daemons
      /\ A2 \in SUBSET Daemons /\ B2 \in SUBSET Daemons
      /\ dskip \in SUBSET Daemons /\ dskip' \in SUBSET Daemons
      /\ IsFiniteSet(Daemons)
  BY DaemonAssumption DEF DaemonAssumption, TypeInv, TypeOK
<1> HIDE DEF A1, B1, A2, B2
<1>5. /\ Cardinality(A1) \in Nat /\ Cardinality(B1) \in Nat
      /\ d \in A1 /\ d \notin B1 => Cardinality(A1) = Cardinality(B1) + 1
      /\ d \notin A1 /\ d \in B1 => Cardinality(B1) = Cardinality(A1) + 1
      /\ (d \in A1 <=> d \in B1) => Cardinality(A1) = Cardinality(B1)
  BY <1>2, <1>4, OneMoves
<1>6. /\ Cardinality(A2) \in Nat /\ Cardinality(B2) \in Nat
      /\ d \in A2 /\ d \notin B2 => Cardinality(A2) = Cardinality(B2) + 1
      /\ d \notin A2 /\ d \in B2 => Cardinality(B2) = Cardinality(A2) + 1
      /\ (d \in A2 <=> d \in B2) => Cardinality(A2) = Cardinality(B2)
  BY <1>2, <1>4, OneMoves
<1>7. /\ Cardinality(dskip) \in Nat /\ Cardinality(dskip') \in Nat
      /\ d \in dskip /\ d \notin dskip' => Cardinality(dskip) = Cardinality(dskip') + 1
      /\ d \notin dskip /\ d \in dskip' => Cardinality(dskip') = Cardinality(dskip) + 1
      /\ (d \in dskip <=> d \in dskip') => Cardinality(dskip) = Cardinality(dskip')
  BY <1>4, OneMoves
<1>8. Running \in Nat /\ Running' = Running + Bit(dpc'[d] \in {"spawned", "running"})
                                           - Bit(dpc[d] \in {"spawned", "running"})
  BY <1>1, <1>3, <1>5 DEF Bit
<1>9. /\ Cancels \in Nat
      /\ Cancels' = Cancels + Bit(dexit'[d] = "Cancelled") - Bit(dexit[d] = "Cancelled")
  BY <1>1, <1>3, <1>6 DEF Bit
<1>10. Skips \in Nat /\ Skips' = Skips + Bit(d \in dskip') - Bit(d \in dskip)
  BY <1>1, <1>7 DEF Bit
<1> QED BY <1>8, <1>9, <1>10

\* Each failure was counted as a cycle first, with the fibers between the two
\* counts to spare; what the wait loop read of the failures is not above them.
Rates ==
    /\ result_failure + Uncounted <= cycles_total
    /\ mpc = "sampled" => sample.failures <= result_failure

\* Every op under way was counted as started and not yet as finished.
Started == ops_started >= ops_finished + Operating + Running

\* The cycles against the tallies, with what is on its way from one to the
\* other and with the daemon ops that are in none or in two.
Tallied ==
    /\ cycles_total + UncountedSkips + Skips
          = result_total + skips_total + UncountedResults + Cancels
    /\ \A d \in Daemons : dpc[d] # "returned" => dexit[d] = "none" /\ d \notin dskip

Counts == Rates /\ Started /\ Tallied /\ ErrorRateAtMostOne

\* The sizes are numbers, whatever the state.
LEMMA SizeTypes ==
    ASSUME TypeInv
    PROVE  /\ Uncounted \in Nat /\ UncountedResults \in Nat
           /\ UncountedSkips \in Nat /\ Operating \in Nat
           /\ Running \in Nat /\ Cancels \in Nat /\ Skips \in Nat
<1>1. IsFiniteSet(Fibers) /\ IsFiniteSet(Daemons)
  BY FibersAssumption, DaemonAssumption DEF FibersAssumption, DaemonAssumption
<1>2. \A S \in SUBSET Fibers : Cardinality(S) \in Nat
  BY <1>1, FS_Subset, FS_CardinalityType
<1>3. \A S \in SUBSET Daemons : Cardinality(S) \in Nat
  BY <1>1, FS_Subset, FS_CardinalityType
<1>4. Uncounted \in Nat /\ UncountedResults \in Nat
  BY <1>2 DEF Uncounted, UncountedResults, Size
<1>5. UncountedSkips \in Nat /\ Operating \in Nat
  BY <1>2 DEF UncountedSkips, Operating, Size
<1>6. Running \in Nat /\ Cancels \in Nat
  BY <1>3 DEF Running, Cancels
<1>7. Skips \in Nat
  BY <1>3 DEF Skips, TypeInv, TypeOK
<1> QED BY <1>4, <1>5, <1>6, <1>7

\* Nothing is counted at the start, and nobody is in a group.
LEMMA CountsInit == Init => Counts
<1> SUFFICES ASSUME Init PROVE Counts
  OBVIOUS
<1>1. Cardinality({}) = 0
  BY FS_EmptySet
<1>2. Uncounted = 0 /\ UncountedResults = 0 /\ UncountedSkips = 0 /\ Operating = 0
  <2>1. \A labels, outs : "boundary" \notin labels /\ "unborn" \notin labels
           => {f \in Fibers : pc[f] \in labels /\ outcome[f] \in outs} = {}
    BY DEF Init
  <2> QED BY <1>1, <2>1 DEF Uncounted, UncountedResults, UncountedSkips, Operating, Size
<1>3. Running = 0 /\ Cancels = 0 /\ Skips = 0
  <2>1. /\ {d \in Daemons : dpc[d] \in {"spawned", "running"}} = {}
        /\ {d \in Daemons : dexit[d] = "Cancelled"} = {}
        /\ dskip = {}
    BY DEF Init
  <2> QED BY <1>1, <2>1 DEF Running, Cancels, Skips
<1> QED BY <1>2, <1>3 DEF Init, Counts, Rates, Started, Tallied, ErrorRateAtMostOne

\* A step that moves no fiber and no daemon leaves the groups as they are.
LEMMA SizesFrame ==
    /\ pc' = pc /\ outcome' = outcome
         => /\ Uncounted' = Uncounted /\ UncountedResults' = UncountedResults
            /\ UncountedSkips' = UncountedSkips /\ Operating' = Operating
    /\ dpc' = dpc /\ dexit' = dexit /\ dskip' = dskip
         => Running' = Running /\ Cancels' = Cancels /\ Skips' = Skips
BY DEF Uncounted, UncountedResults, UncountedSkips, Operating, Running, Cancels, Skips, Size

\* The types of the counters before and after a step.
LEMMA CounterTypes ==
    ASSUME TypeInv, TypeInv'
    PROVE  /\ cycles_total \in Nat /\ result_total \in Nat /\ skips_total \in Nat
           /\ result_failure \in Nat /\ ops_started \in Nat /\ ops_finished \in Nat
           /\ sample.failures \in Nat /\ sample.cycles \in Nat
           /\ cycles_total' \in Nat /\ result_total' \in Nat /\ skips_total' \in Nat
           /\ result_failure' \in Nat /\ ops_started' \in Nat /\ ops_finished' \in Nat
BY DEF TypeInv, TypeOK

\* The steps of the fibers keep the counts: each one moves a fiber from one
\* group to another together with the counter the groups differ by.
LEMMA CountsFiber ==
    ASSUME TypeInv, TypeInv', Counts, NEW f \in Fibers,
           \/ FiberStep(f) \/ OpReturns(f) \/ PanicFiber(f) \/ PanicInOutputs(f)
           \/ SpawnFiber(f) \/ PushFiber(f) \/ FlagFiber(f)
    PROVE  Counts'
<1> USE SizeTypes, CounterTypes
<1>0. outcome[f] \in OpOutcome /\ outcome'[f] \in OpOutcome
  BY DEF TypeInv, TypeOK
<1>1. CASE LeaveAtBoundary(f)
  <2>1. /\ pc[f] = "boundary" /\ Goto(f, "exited")
        /\ \A g \in Fibers \ {f} : outcome'[g] = outcome[g]
        /\ UNCHANGED <<mpc, sample, dpc, dexit, dskip>>
    BY <1>1 DEF LeaveAtBoundary, mainVars, daemonVars, TypeInv, TypeOK
  <2>2. UNCHANGED countVars
    BY <1>1, <1>0 DEF LeaveAtBoundary, countVars, TypeInv, TypeOK
  <2>3. Shift(f, "exited")
    BY <2>1, FiberSizes
  <2>4. Running' = Running /\ Cancels' = Cancels /\ Skips' = Skips
    BY <2>1, SizesFrame
  <2> QED
    BY <2>1, <2>2, <2>3, <2>4
    DEF countVars, Counts, Rates, Started, Tallied, ErrorRateAtMostOne, Bit, Shift
<1>2. CASE Reserve(f)
  <2>1. /\ pc[f] = "boundary" /\ Goto(f, "stanza")
        /\ \A g \in Fibers \ {f} : outcome'[g] = outcome[g]
        /\ UNCHANGED <<mpc, sample, dpc, dexit, dskip>>
    BY <1>2 DEF Reserve, mainVars, daemonVars, TypeInv, TypeOK
  <2>2. UNCHANGED countVars
    BY <1>2, <1>0 DEF Reserve, countVars, TypeInv, TypeOK
  <2>3. Shift(f, "stanza")
    BY <2>1, FiberSizes
  <2>4. Running' = Running /\ Cancels' = Cancels /\ Skips' = Skips
    BY <2>1, SizesFrame
  <2> QED
    BY <2>1, <2>2, <2>3, <2>4
    DEF countVars, Counts, Rates, Started, Tallied, ErrorRateAtMostOne, Bit, Shift
<1>3. CASE Exhausted(f)
  <2>1. /\ pc[f] = "boundary" /\ Goto(f, "exited")
        /\ \A g \in Fibers \ {f} : outcome'[g] = outcome[g]
        /\ UNCHANGED <<mpc, sample, dpc, dexit, dskip>>
    BY <1>3 DEF Exhausted, mainVars, daemonVars, TypeInv, TypeOK
  <2>2. UNCHANGED countVars
    BY <1>3, <1>0 DEF Exhausted, countVars, TypeInv, TypeOK
  <2>3. Shift(f, "exited")
    BY <2>1, FiberSizes
  <2>4. Running' = Running /\ Cancels' = Cancels /\ Skips' = Skips
    BY <2>1, SizesFrame
  <2> QED
    BY <2>1, <2>2, <2>3, <2>4
    DEF countVars, Counts, Rates, Started, Tallied, ErrorRateAtMostOne, Bit, Shift
<1>4. CASE EndStanza(f)
  <2>1. /\ pc[f] = "stanza" /\ Goto(f, "boundary")
        /\ \A g \in Fibers \ {f} : outcome'[g] = outcome[g]
        /\ UNCHANGED <<mpc, sample, dpc, dexit, dskip>>
    BY <1>4 DEF EndStanza, mainVars, daemonVars, TypeInv, TypeOK
  <2>2. UNCHANGED countVars
    BY <1>4, <1>0 DEF EndStanza, countVars, TypeInv, TypeOK
  <2>3. Shift(f, "boundary")
    BY <2>1, FiberSizes
  <2>4. Running' = Running /\ Cancels' = Cancels /\ Skips' = Skips
    BY <2>1, SizesFrame
  <2> QED
    BY <2>1, <2>2, <2>3, <2>4
    DEF countVars, Counts, Rates, Started, Tallied, ErrorRateAtMostOne, Bit, Shift
<1>5. CASE NextOp(f)
  <2>1. /\ pc[f] = "stanza" /\ Goto(f, "permit")
        /\ \A g \in Fibers \ {f} : outcome'[g] = outcome[g]
        /\ UNCHANGED <<mpc, sample, dpc, dexit, dskip>>
    BY <1>5 DEF NextOp, mainVars, daemonVars, TypeInv, TypeOK
  <2>2. /\ ops_started' = ops_started + 1
        /\ UNCHANGED <<cycles_total, result_total, skips_total, result_failure, ops_finished>>
    BY <1>5, <1>0 DEF NextOp, countVars, TypeInv, TypeOK
  <2>3. Shift(f, "permit")
    BY <2>1, FiberSizes
  <2>4. Running' = Running /\ Cancels' = Cancels /\ Skips' = Skips
    BY <2>1, SizesFrame
  <2> QED
    BY <2>1, <2>2, <2>3, <2>4
    DEF countVars, Counts, Rates, Started, Tallied, ErrorRateAtMostOne, Bit, Shift
<1>6. CASE Dispatch(f)
  <2>1. /\ pc[f] = "permit" /\ Goto(f, "inflight")
        /\ \A g \in Fibers \ {f} : outcome'[g] = outcome[g]
        /\ UNCHANGED <<mpc, sample, dpc, dexit, dskip>>
    BY <1>6 DEF Dispatch, mainVars, daemonVars, TypeInv, TypeOK
  <2>2. UNCHANGED countVars
    BY <1>6, <1>0 DEF Dispatch, countVars, TypeInv, TypeOK
  <2>3. Shift(f, "inflight")
    BY <2>1, FiberSizes
  <2>4. Running' = Running /\ Cancels' = Cancels /\ Skips' = Skips
    BY <2>1, SizesFrame
  <2> QED
    BY <2>1, <2>2, <2>3, <2>4
    DEF countVars, Counts, Rates, Started, Tallied, ErrorRateAtMostOne, Bit, Shift
<1>7. CASE CancelOp(f)
  <2>1. /\ pc[f] = "inflight" /\ Goto(f, "returned")
        /\ \A g \in Fibers \ {f} : outcome'[g] = outcome[g]
        /\ UNCHANGED <<mpc, sample, dpc, dexit, dskip>>
    BY <1>7 DEF CancelOp, mainVars, daemonVars, TypeInv, TypeOK
  <2>2. /\ UNCHANGED countVars
        /\ outcome'[f] = "err"
    BY <1>7, <1>0 DEF CancelOp, countVars, TypeInv, TypeOK
  <2>3. Shift(f, "returned")
    BY <2>1, FiberSizes
  <2>4. Running' = Running /\ Cancels' = Cancels /\ Skips' = Skips
    BY <2>1, SizesFrame
  <2> QED
    BY <2>1, <2>2, <2>3, <2>4
    DEF countVars, Counts, Rates, Started, Tallied, ErrorRateAtMostOne, Bit, Shift
<1>8. CASE CountCycle(f)
  <2>1. /\ pc[f] = "returned" /\ Goto(f, "counted")
        /\ \A g \in Fibers \ {f} : outcome'[g] = outcome[g]
        /\ UNCHANGED <<mpc, sample, dpc, dexit, dskip>>
    BY <1>8 DEF CountCycle, mainVars, daemonVars, TypeInv, TypeOK
  <2>2. /\ cycles_total' = cycles_total + 1
        /\ outcome'[f] = outcome[f]
        /\ UNCHANGED <<result_total, skips_total, result_failure, ops_started, ops_finished>>
    BY <1>8, <1>0 DEF CountCycle, countVars, TypeInv, TypeOK
  <2>3. Shift(f, "counted")
    BY <2>1, FiberSizes
  <2>4. Running' = Running /\ Cancels' = Cancels /\ Skips' = Skips
    BY <2>1, SizesFrame
  <2> QED
    BY <2>1, <2>2, <2>3, <2>4
    DEF countVars, Counts, Rates, Started, Tallied, ErrorRateAtMostOne, Bit, Shift
<1>9. CASE CountResult(f)
  <2>1. /\ pc[f] = "counted" /\ Goto(f, "stanza")
        /\ \A g \in Fibers \ {f} : outcome'[g] = outcome[g]
        /\ UNCHANGED <<mpc, sample, dpc, dexit, dskip>>
    BY <1>9 DEF CountResult, mainVars, daemonVars, TypeInv, TypeOK
  <2>2. /\ result_total' = result_total + Bit(outcome[f] # "skip")
        /\ result_failure' = result_failure + Bit(outcome[f] = "err")
        /\ ops_finished' = ops_finished + 1
        /\ UNCHANGED <<cycles_total, skips_total, ops_started>>
    BY <1>9, <1>0 DEF CountResult, countVars, TypeInv, TypeOK, IsResult, Bit
  <2>3. Shift(f, "stanza")
    BY <2>1, FiberSizes
  <2>4. Running' = Running /\ Cancels' = Cancels /\ Skips' = Skips
    BY <2>1, SizesFrame
  <2> QED
    BY <2>1, <2>2, <2>3, <2>4
    DEF countVars, Counts, Rates, Started, Tallied, ErrorRateAtMostOne, Bit, Shift
<1>10. CASE SpawnDaemonFails(f)
  <2>1. /\ pc[f] = "permit" /\ Goto(f, "exited")
        /\ \A g \in Fibers \ {f} : outcome'[g] = outcome[g]
        /\ UNCHANGED <<mpc, sample, dpc, dexit, dskip>>
    BY <1>10 DEF SpawnDaemonFails, mainVars, daemonVars, TypeInv, TypeOK
  <2>2. UNCHANGED countVars
    BY <1>10, <1>0 DEF SpawnDaemonFails, countVars, TypeInv, TypeOK
  <2>3. Shift(f, "exited")
    BY <2>1, FiberSizes
  <2>4. Running' = Running /\ Cancels' = Cancels /\ Skips' = Skips
    BY <2>1, SizesFrame
  <2> QED
    BY <2>1, <2>2, <2>3, <2>4
    DEF countVars, Counts, Rates, Started, Tallied, ErrorRateAtMostOne, Bit, Shift
<1>11. CASE OpReturns(f)
  <2>1. /\ pc[f] = "inflight" /\ Goto(f, "returned")
        /\ \A g \in Fibers \ {f} : outcome'[g] = outcome[g]
        /\ UNCHANGED <<mpc, sample, dpc, dexit, dskip>>
    BY <1>11 DEF OpReturns, mainVars, daemonVars, TypeInv, TypeOK
  <2>2. /\ skips_total' = skips_total + Bit(outcome'[f] = "skip")
        /\ UNCHANGED <<cycles_total, result_total, result_failure, ops_started, ops_finished>>
    BY <1>11, <1>0 DEF OpReturns, countVars, TypeInv, TypeOK, Bit
  <2>3. Shift(f, "returned")
    BY <2>1, FiberSizes
  <2>4. Running' = Running /\ Cancels' = Cancels /\ Skips' = Skips
    BY <2>1, SizesFrame
  <2> QED
    BY <2>1, <2>2, <2>3, <2>4
    DEF countVars, Counts, Rates, Started, Tallied, ErrorRateAtMostOne, Bit, Shift
<1>12. CASE PanicFiber(f)
  <2>1. /\ pc[f] = "permit" /\ Goto(f, "exited")
        /\ \A g \in Fibers \ {f} : outcome'[g] = outcome[g]
        /\ UNCHANGED <<mpc, sample, dpc, dexit, dskip>>
    BY <1>12 DEF PanicFiber, mainVars, daemonVars, TypeInv, TypeOK
  <2>2. UNCHANGED countVars
    BY <1>12, <1>0 DEF PanicFiber, countVars, TypeInv, TypeOK
  <2>3. Shift(f, "exited")
    BY <2>1, FiberSizes
  <2>4. Running' = Running /\ Cancels' = Cancels /\ Skips' = Skips
    BY <2>1, SizesFrame
  <2> QED
    BY <2>1, <2>2, <2>3, <2>4
    DEF countVars, Counts, Rates, Started, Tallied, ErrorRateAtMostOne, Bit, Shift
<1>13. CASE PanicInOutputs(f)
  <2>1. /\ pc[f] = "counted" /\ Goto(f, "exited")
        /\ \A g \in Fibers \ {f} : outcome'[g] = outcome[g]
        /\ UNCHANGED <<mpc, sample, dpc, dexit, dskip>>
    BY <1>13 DEF PanicInOutputs, mainVars, daemonVars, TypeInv, TypeOK
  <2>2. /\ outcome[f] = "ok" /\ result_total' = result_total + 1
        /\ UNCHANGED <<cycles_total, skips_total, result_failure, ops_started, ops_finished>>
    BY <1>13, <1>0 DEF PanicInOutputs, countVars, TypeInv, TypeOK
  <2>3. Shift(f, "exited")
    BY <2>1, FiberSizes
  <2>4. Running' = Running /\ Cancels' = Cancels /\ Skips' = Skips
    BY <2>1, SizesFrame
  <2> QED
    BY <2>1, <2>2, <2>3, <2>4
    DEF countVars, Counts, Rates, Started, Tallied, ErrorRateAtMostOne, Bit, Shift
<1>14. CASE SpawnFiber(f)
  <2>1. /\ pc[f] = "unborn" /\ Goto(f, "boundary")
        /\ \A g \in Fibers \ {f} : outcome'[g] = outcome[g]
        /\ UNCHANGED <<mpc, sample, dpc, dexit, dskip>>
    BY <1>14 DEF SpawnFiber, mainVars, daemonVars, TypeInv, TypeOK, Goto
  <2>2. UNCHANGED countVars
    BY <1>14, <1>0 DEF SpawnFiber, countVars, TypeInv, TypeOK
  <2>3. Shift(f, "boundary")
    BY <2>1, FiberSizes
  <2>4. Running' = Running /\ Cancels' = Cancels /\ Skips' = Skips
    BY <2>1, SizesFrame
  <2> QED
    BY <2>1, <2>2, <2>3, <2>4
    DEF countVars, Counts, Rates, Started, Tallied, ErrorRateAtMostOne, Bit, Shift
<1>15. CASE \E d \in Daemons : SpawnDaemon(f, d)
  <2>1. PICK d \in Daemons : SpawnDaemon(f, d)
    BY <1>15
  <2>2. /\ pc[f] = "permit" /\ Goto(f, "stanza")
        /\ \A g \in Fibers \ {f} : outcome'[g] = outcome[g]
        /\ UNCHANGED <<mpc, sample, countVars>>
    BY <2>1 DEF SpawnDaemon, mainVars
  <2>3. /\ dpc[d] = "unborn" /\ dpc' = [dpc EXCEPT ![d] = "spawned"]
        /\ dexit' = dexit /\ dskip' = dskip
    BY <2>1 DEF SpawnDaemon
  <2>4. /\ dpc'[d] = "spawned"
        /\ \A e \in Daemons \ {d} : dpc'[e] = dpc[e] /\ dexit'[e] = dexit[e]
    BY <2>3 DEF TypeInv, TypeOK
  <2>5. Shift(f, "stanza")
    BY <2>2, FiberSizes
  <2>6. /\ Running' = Running + Bit(dpc'[d] \in {"spawned", "running"})
                              - Bit(dpc[d] \in {"spawned", "running"})
        /\ Cancels' = Cancels + Bit(dexit'[d] = "Cancelled") - Bit(dexit[d] = "Cancelled")
        /\ Skips' = Skips + Bit(d \in dskip') - Bit(d \in dskip)
    BY <2>3, <2>4, DaemonSizes
  <2>7. Rates' /\ Started' /\ ErrorRateAtMostOne'
    BY <2>2, <2>3, <2>4, <2>5, <2>6
    DEF countVars, Counts, Rates, Started, ErrorRateAtMostOne, Bit, Shift
  <2>8. Tallied'
    <3>1. cycles_total' + UncountedSkips' + Skips'
            = result_total' + skips_total' + UncountedResults' + Cancels'
      BY <2>2, <2>3, <2>5, <2>6 DEF countVars, Counts, Tallied, Bit, Shift
    <3>2. \A e \in Daemons : dpc'[e] # "returned" => dexit'[e] = "none" /\ e \notin dskip'
      BY <2>3, <2>4 DEF Counts, Tallied
    <3> QED BY <3>1, <3>2 DEF Tallied
  <2> QED BY <2>7, <2>8 DEF Counts
<1>16. CASE PushFiber(f) \/ FlagFiber(f)
  <2>1. UNCHANGED <<pc, outcome, countVars, mpc, sample, dpc, dexit, dskip>>
    BY <1>16 DEF PushFiber, FlagFiber, mainVars, daemonVars
  <2> QED
    BY <2>1, SizesFrame DEF countVars, Counts, Rates, Started, Tallied, ErrorRateAtMostOne
<1> QED
  BY <1>1, <1>2, <1>3, <1>4, <1>5, <1>6, <1>7, <1>8, <1>9, <1>10,
     <1>11, <1>12, <1>13, <1>14, <1>15, <1>16 DEF FiberStep

\* So do the steps of the daemons.
LEMMA CountsDaemon ==
    ASSUME TypeInv, TypeInv', Counts, NEW d \in Daemons,
           DaemonStarts(d) \/ DaemonReturns(d) \/ DaemonCancels(d) \/ DaemonPanics(d)
    PROVE  Counts'
<1> USE SizeTypes, CounterTypes
<1>1. /\ UNCHANGED <<pc, outcome, mpc, sample>>
      /\ \A e \in Daemons \ {d} : dpc'[e] = dpc[e] /\ dexit'[e] = dexit[e]
      /\ dskip \ {d} = dskip' \ {d}
      /\ dpc[d] \in {"spawned", "running"}
  <2> USE DEF fiberVars, mainVars, TypeInv, TypeOK
  <2>1. CASE DaemonStarts(d)
    BY <2>1 DEF DaemonStarts
  <2>2. CASE DaemonReturns(d)
    BY <2>2 DEF DaemonReturns, DaemonEnds
  <2>3. CASE DaemonCancels(d)
    BY <2>3 DEF DaemonCancels, DaemonEnds
  <2>4. CASE DaemonPanics(d)
    BY <2>4 DEF DaemonPanics, DaemonEnds
  <2> QED BY <2>1, <2>2, <2>3, <2>4
<1>2. /\ Uncounted' = Uncounted /\ UncountedResults' = UncountedResults
      /\ UncountedSkips' = UncountedSkips /\ Operating' = Operating
  BY <1>1, SizesFrame
<1>3. /\ Running' = Running + Bit(dpc'[d] \in {"spawned", "running"})
                            - Bit(dpc[d] \in {"spawned", "running"})
      /\ Cancels' = Cancels + Bit(dexit'[d] = "Cancelled") - Bit(dexit[d] = "Cancelled")
      /\ Skips' = Skips + Bit(d \in dskip') - Bit(d \in dskip)
  BY <1>1, DaemonSizes
<1>4. dexit[d] = "none" /\ d \notin dskip
  BY <1>1 DEF Counts, Tallied
<1>5. /\ Cancels' = Cancels + Bit(dexit'[d] = "Cancelled")
      /\ Skips' = Skips + Bit(d \in dskip')
      /\ Running' = Running + Bit(dpc'[d] \in {"spawned", "running"}) - 1
  BY <1>1, <1>3, <1>4 DEF Bit
<1>6. dpc'[d] # "returned" => dexit'[d] = "none" /\ d \notin dskip'
  <2> USE DEF TypeInv, TypeOK
  <2>1. CASE DaemonStarts(d)
    BY <1>4, <2>1 DEF DaemonStarts
  <2>2. CASE DaemonReturns(d) \/ DaemonCancels(d) \/ DaemonPanics(d)
    BY <2>2 DEF DaemonReturns, DaemonCancels, DaemonPanics, DaemonEnds
  <2> QED BY <2>1, <2>2
<1>7. \A e \in Daemons : dpc'[e] # "returned" => dexit'[e] = "none" /\ e \notin dskip'
  <2> SUFFICES ASSUME NEW e \in Daemons \ {d}, dpc'[e] # "returned"
               PROVE  dexit'[e] = "none" /\ e \notin dskip'
    BY <1>6
  <2>1. dexit[e] = "none" /\ e \notin dskip
    BY <1>1 DEF Counts, Tallied
  <2>2. e \notin dskip'
    BY <1>1, <2>1
  <2> QED BY <1>1, <2>1, <2>2
<1> DEFINE Balanced == cycles_total' + UncountedSkips' + Skips'
                         = result_total' + skips_total' + UncountedResults' + Cancels'
<1> SUFFICES Rates' /\ Started' /\ ErrorRateAtMostOne' /\ Balanced
  BY <1>7 DEF Counts, Tallied
<1> USE DEF Counts, Rates, Started, Tallied, ErrorRateAtMostOne, Bit
<1>8. CASE DaemonStarts(d)
  <2>1. /\ dpc'[d] = "running" /\ dexit'[d] = "none" /\ d \notin dskip'
        /\ ops_started' = ops_started + 1
        /\ UNCHANGED <<cycles_total, result_total, skips_total, result_failure, ops_finished>>
    BY <1>4, <1>8 DEF DaemonStarts, TypeInv, TypeOK
  <2> QED BY <1>1, <1>2, <1>5, <2>1
<1>9. CASE DaemonReturns(d)
  <2>1. PICK r \in OpOutcome, stops \in BOOLEAN :
           /\ DaemonEnds(d, IF r = "err" THEN "Errored" ELSE "Completed")
           /\ result_failure' = IF r = "err" THEN result_failure + 1 ELSE result_failure
           /\ skips_total' = IF r = "skip" THEN skips_total + 1 ELSE skips_total
           /\ dskip' = IF r = "skip" THEN dskip \cup {d} ELSE dskip
    BY <1>9 DEF DaemonReturns
  <2>2. /\ cycles_total' = cycles_total + 1 /\ ops_finished' = ops_finished + 1
        /\ result_total' = result_total + 1
    BY <1>9 DEF DaemonReturns
  <2>3. /\ dpc'[d] = "returned" /\ dexit'[d] # "Cancelled" /\ ops_started' = ops_started
        /\ (d \in dskip' <=> r = "skip")
    BY <1>4, <2>1 DEF DaemonEnds, TypeInv, TypeOK
  <2> QED BY <1>1, <1>2, <1>5, <2>1, <2>2, <2>3
<1>10. CASE DaemonCancels(d)
  <2>1. /\ dpc'[d] = "returned" /\ dexit'[d] = "Cancelled" /\ d \notin dskip'
        /\ cycles_total' = cycles_total + 1 /\ ops_finished' = ops_finished + 1
        /\ UNCHANGED <<ops_started, result_total, result_failure, skips_total>>
    BY <1>4, <1>10 DEF DaemonCancels, DaemonEnds, TypeInv, TypeOK
  <2> QED BY <1>1, <1>2, <1>5, <2>1
<1>11. CASE DaemonPanics(d)
  <2>1. /\ dpc'[d] = "returned" /\ dexit'[d] = "Panicked" /\ d \notin dskip'
        /\ UNCHANGED <<ops_started, cycles_total, ops_finished, result_total, result_failure,
                       skips_total>>
    BY <1>4, <1>11 DEF DaemonPanics, DaemonEnds, TypeInv, TypeOK
  <2> QED BY <1>1, <1>2, <1>5, <2>1
<1> QED BY <1>8, <1>9, <1>10, <1>11

\* The activity's own task and the stops from outside count nothing; what the
\* task samples is in the order that keeps the failures below the cycles.
LEMMA CountsMain ==
    ASSUME TypeInv, TypeInv', Counts, MainStep \/ Escalate \/ WalkStop \/ DaemonStop
    PROVE  Counts'
<1> USE SizeTypes, CounterTypes
<1>1. UNCHANGED <<pc, outcome, countVars, dpc, dexit, dskip>>
  <2> USE DEF fiberVars, daemonVars
  <2>1. ReadFailures \/ EvaluateStop => UNCHANGED <<pc, outcome, countVars, dpc, dexit, dskip>>
    BY DEF ReadFailures, EvaluateStop
  <2>2. AllDrained \/ SignalDaemon => UNCHANGED <<pc, outcome, countVars, dpc, dexit, dskip>>
    BY DEF AllDrained, SignalDaemon
  <2>3. JoinDaemon \/ GraceExpires => UNCHANGED <<pc, outcome, countVars, dpc, dexit, dskip>>
    BY DEF JoinDaemon, GraceExpires, CollectExit
  <2>4. ReportExits \/ Finish => UNCHANGED <<pc, outcome, countVars, dpc, dexit, dskip>>
    BY DEF ReportExits, Finish
  <2>5. Escalate \/ WalkStop \/ DaemonStop
           => UNCHANGED <<pc, outcome, countVars, dpc, dexit, dskip>>
    BY DEF Escalate, WalkStop, DaemonStop
  <2> QED BY <2>1, <2>2, <2>3, <2>4, <2>5 DEF MainStep
<1>2. /\ Uncounted' = Uncounted /\ UncountedResults' = UncountedResults
      /\ UncountedSkips' = UncountedSkips /\ Operating' = Operating
      /\ Running' = Running /\ Cancels' = Cancels /\ Skips' = Skips
  BY <1>1, SizesFrame
<1>3. Started' /\ Tallied'
  BY <1>1, <1>2 DEF countVars, Counts, Started, Tallied
<1>4. result_failure' + Uncounted' <= cycles_total'
  BY <1>1, <1>2 DEF countVars, Counts, Rates
<1>5. (mpc = "sampled" => sample.failures <= result_failure)' /\ ErrorRateAtMostOne'
  <2>1. CASE ReadFailures
    <3>1. mpc' = "sampled" /\ sample'.failures = result_failure /\ result_failure' = result_failure
      BY <2>1 DEF ReadFailures, countVars, TypeInv, TypeOK
    <3> QED BY <3>1 DEF ErrorRateAtMostOne
  <2>2. CASE EvaluateStop
    <3>1. /\ mpc = "sampled" /\ mpc' = "loop" /\ sample'.failures = sample.failures
          /\ sample'.cycles = cycles_total
      BY <2>2 DEF EvaluateStop, FreshCycles, TypeInv, TypeOK
    <3> QED BY <3>1 DEF Counts, Rates, ErrorRateAtMostOne
  <2>3. CASE ~ReadFailures /\ ~EvaluateStop
    <3>1. sample' = sample /\ (mpc' = mpc \/ (mpc # "sampled" /\ mpc' # "sampled"))
      <4>1. AllDrained \/ SignalDaemon \/ ReportExits \/ Finish
               => sample' = sample /\ mpc # "sampled" /\ mpc' # "sampled"
        BY DEF AllDrained, SignalDaemon, ReportExits, Finish
      <4>2. JoinDaemon \/ GraceExpires => sample' = sample /\ mpc # "sampled" /\ mpc' # "sampled"
        BY DEF JoinDaemon, GraceExpires, CollectExit
      <4>3. Escalate \/ WalkStop \/ DaemonStop => sample' = sample /\ mpc' = mpc
        BY DEF Escalate, WalkStop, DaemonStop, mainVars
      <4> QED BY <2>3, <4>1, <4>2, <4>3 DEF MainStep
    <3> QED BY <1>1, <3>1 DEF countVars, Counts, Rates, ErrorRateAtMostOne
  <2> QED BY <2>1, <2>2, <2>3
<1> QED BY <1>3, <1>4, <1>5 DEF Counts, Rates

CountInv == TypeInv /\ Counts

\* Every step keeps the counts.
LEMMA CountStep == CountInv /\ [Next]_vars => CountInv'
<1> SUFFICES ASSUME CountInv, [Next]_vars PROVE CountInv'
  OBVIOUS
<1>1. TypeInv /\ TypeInv' /\ Counts
  BY TypeStep DEF CountInv
<1>2. CASE Next
  BY <1>1, <1>2, CountsFiber, CountsDaemon, CountsMain DEF Next, CountInv
<1>3. CASE UNCHANGED vars
  <2>1. UNCHANGED <<pc, outcome, countVars, mpc, sample, dpc, dexit, dskip>>
    BY <1>3 DEF vars, fiberVars, mainVars, daemonVars
  <2> QED
    BY <1>1, <2>1, SizesFrame
    DEF countVars, CountInv, Counts, Rates, Started, Tallied, ErrorRateAtMostOne
<1> QED BY <1>2, <1>3

\* The counts stand in their relation in every state.
LEMMA CountAlways == Spec => []CountInv
<1>1. Init => CountInv
  BY TypeInit, CountsInit DEF CountInv
<1> QED BY <1>1, CountStep, PTL DEF Spec

\* Whatever ops fail while the wait loop reads its counters, the stop condition
\* is never evaluated on more failures than cycles.
THEOREM ErrorRateIsARate == Spec => []ErrorRateAtMostOne
<1>1. CountInv => ErrorRateAtMostOne
  BY DEF CountInv, Counts
<1> QED BY <1>1, CountAlways, PTL

\* With any number of fibers and daemons, no op under way is missing from the
\* difference the stall detector reads, and the cycles are the tallies up to the
\* daemon ops that are in none or in two of them.
THEOREM OpsAreAccountedFor == Spec => []OpsAccountedFor
<1>1. CountInv => OpsAccountedFor
  <2> SUFFICES ASSUME CountInv PROVE OpsAccountedFor
    OBVIOUS
  <2>1. \A f \in Fibers : outcome[f] \in OpOutcome
    BY DEF CountInv, TypeInv, TypeOK
  <2>2. Operating
          = Cardinality({f \in Fibers : pc[f] \in {"permit", "inflight", "returned", "counted"}})
    <3>1. {f \in Fibers : pc[f] \in {"permit", "inflight", "returned", "counted"}
                          /\ outcome[f] \in OpOutcome}
            = {f \in Fibers : pc[f] \in {"permit", "inflight", "returned", "counted"}}
      BY <2>1
    <3> QED BY <3>1 DEF Operating, Size
  <2>3. ASSUME \A f \in Fibers : pc[f] \notin {"returned", "counted"}
        PROVE  UncountedSkips = 0 /\ UncountedResults = 0
    <3>1. /\ {f \in Fibers : pc[f] \in {"returned"} /\ outcome[f] \in {"skip"}} = {}
          /\ {f \in Fibers : pc[f] \in {"counted"} /\ outcome[f] \in {"ok", "err"}} = {}
      BY <2>3
    <3> QED BY <3>1, FS_EmptySet DEF UncountedSkips, UncountedResults, Size
  <2>4. Skips = Cardinality(dskip)
        /\ Cancels = Cardinality({d \in Daemons : dexit[d] = "Cancelled"})
        /\ Running = Cardinality({d \in Daemons : dpc[d] \in {"spawned", "running"}})
    BY DEF Skips, Cancels, Running
  <2>5. TypeInv /\ Counts
    BY DEF CountInv
  <2>6. Skips \in Nat /\ Cancels \in Nat /\ cycles_total \in Nat /\ result_total \in Nat
        /\ skips_total \in Nat
    BY <2>5, SizeTypes DEF TypeInv, TypeOK
  <2>7. (\A f \in Fibers : pc[f] \notin {"returned", "counted"})
           => cycles_total + Skips = result_total + skips_total + Cancels
    BY <2>3, <2>5, <2>6 DEF Counts, Tallied
  <2> QED BY <2>2, <2>4, <2>5, <2>7 DEF OpsAccountedFor, Counts, Started
<1> QED BY <1>1, CountAlways, PTL
-----------------------------------------------------------------------------
(* What no step undoes: a fiber that was started stays so, one that exited *)
(* is gone, and a stop is never taken back.                                *)

\* The life of a fiber has one direction, and the pool forgets a fiber it has
\* recorded only in the record of the exited ones.
LEMMA FiberLife ==
    ASSUME TypeInv, [Next]_vars, NEW g \in Fibers
    PROVE  /\ pc[g] = "exited" => pc'[g] = "exited"
           /\ pc[g] # "unborn" => pc'[g] # "unborn"
           /\ pc[g] # "unborn" /\ g \notin unpushed => g \notin unpushed'
           /\ g \in fiber_stop => g \in fiber_stop'
<1> USE DEF TypeInv, TypeOK
<1>1. ASSUME NEW f \in Fibers,
             \/ LeaveAtBoundary(f) \/ Reserve(f) \/ Exhausted(f) \/ EndStanza(f) \/ NextOp(f)
             \/ Dispatch(f) \/ CancelOp(f) \/ CountCycle(f)
      PROVE  /\ pc[f] \notin {"exited", "unborn"} /\ pc'[f] # "unborn"
             /\ \A h \in Fibers \ {f} : pc'[h] = pc[h]
             /\ unpushed' = unpushed /\ fiber_stop' = fiber_stop
  BY <1>1 DEF LeaveAtBoundary, Reserve, Exhausted, EndStanza, NextOp, Dispatch, CancelOp,
              CountCycle, Goto
<1>2. ASSUME NEW f \in Fibers,
             \/ CountResult(f) \/ SpawnDaemonFails(f) \/ OpReturns(f) \/ PanicFiber(f)
             \/ PanicInOutputs(f) \/ \E d \in Daemons : SpawnDaemon(f, d)
      PROVE  /\ pc[f] \notin {"exited", "unborn"} /\ pc'[f] # "unborn"
             /\ \A h \in Fibers \ {f} : pc'[h] = pc[h]
             /\ unpushed' = unpushed /\ fiber_stop' = fiber_stop
  BY <1>2 DEF CountResult, SpawnDaemonFails, OpReturns, PanicFiber, PanicInOutputs,
              SpawnDaemon, Goto
<1>3. ASSUME NEW f \in Fibers, SpawnFiber(f)
      PROVE  /\ pc[f] = "unborn" /\ pc'[f] = "boundary"
             /\ \A h \in Fibers \ {f} : pc'[h] = pc[h]
             /\ unpushed' = unpushed \cup {f} /\ fiber_stop' = fiber_stop
  BY <1>3 DEF SpawnFiber
<1>4. ASSUME NEW f \in Fibers, PushFiber(f) \/ FlagFiber(f)
      PROVE  pc' = pc /\ unpushed' \subseteq unpushed /\ fiber_stop \subseteq fiber_stop'
  BY <1>4 DEF PushFiber, FlagFiber
<1>5. ASSUME NEW d \in Daemons,
             DaemonStarts(d) \/ DaemonReturns(d) \/ DaemonCancels(d) \/ DaemonPanics(d)
      PROVE  UNCHANGED fiberVars
  BY <1>5 DEF DaemonStarts, DaemonReturns, DaemonCancels, DaemonPanics, DaemonEnds
<1>6. ASSUME MainStep \/ Escalate \/ WalkStop \/ DaemonStop PROVE UNCHANGED fiberVars
  <2>1. ReadFailures \/ AllDrained \/ SignalDaemon \/ EvaluateStop => UNCHANGED fiberVars
    BY DEF ReadFailures, AllDrained, SignalDaemon, EvaluateStop
  <2>2. JoinDaemon \/ GraceExpires \/ ReportExits \/ Finish => UNCHANGED fiberVars
    BY DEF JoinDaemon, GraceExpires, CollectExit, ReportExits, Finish
  <2>3. Escalate \/ WalkStop \/ DaemonStop => UNCHANGED fiberVars
    BY DEF Escalate, WalkStop, DaemonStop
  <2> QED BY <1>6, <2>1, <2>2, <2>3 DEF MainStep
<1>7. UNCHANGED vars => UNCHANGED fiberVars
  BY DEF vars
<1>8. UNCHANGED fiberVars => pc' = pc /\ unpushed' = unpushed /\ fiber_stop' = fiber_stop
  BY DEF fiberVars
<1>9. CASE \E f \in Fibers : FiberStep(f) \/ OpReturns(f) \/ PanicFiber(f)
                             \/ PanicInOutputs(f) \/ SpawnFiber(f) \/ PushFiber(f)
                             \/ FlagFiber(f)
  BY <1>1, <1>2, <1>3, <1>4, <1>9 DEF FiberStep
<1>10. CASE UNCHANGED fiberVars
  BY <1>8, <1>10
<1> QED BY <1>5, <1>6, <1>7, <1>9, <1>10 DEF Next

\* Once stopped, an activity stays stopped.
LEMMA StopStays ==
    ASSUME TypeInv, [Next]_vars PROVE stopped => stopped'
<1> USE DEF TypeInv, TypeOK, stopVars, stopped
<1>1. ASSUME NEW f \in Fibers,
             \/ LeaveAtBoundary(f) \/ Reserve(f) \/ Exhausted(f) \/ EndStanza(f) \/ NextOp(f)
             \/ Dispatch(f) \/ CancelOp(f) \/ CountCycle(f) \/ SpawnFiber(f) \/ PushFiber(f)
             \/ FlagFiber(f) \/ \E d \in Daemons : SpawnDaemon(f, d)
      PROVE  UNCHANGED stopVars
  BY <1>1 DEF LeaveAtBoundary, Reserve, Exhausted, EndStanza, NextOp, Dispatch, CancelOp,
              CountCycle, SpawnFiber, PushFiber, FlagFiber, SpawnDaemon
<1>2. ASSUME NEW f \in Fibers,
             \/ CountResult(f) \/ SpawnDaemonFails(f) \/ OpReturns(f) \/ PanicFiber(f)
             \/ PanicInOutputs(f)
      PROVE  (stop_flag => stop_flag') /\ UNCHANGED <<level, walk_stop, daemon_stop>>
  BY <1>2 DEF CountResult, SpawnDaemonFails, OpReturns, PanicFiber, PanicInOutputs
<1>3. ASSUME NEW d \in Daemons,
             DaemonStarts(d) \/ DaemonReturns(d) \/ DaemonCancels(d) \/ DaemonPanics(d)
      PROVE  (stop_flag => stop_flag') /\ UNCHANGED <<level, walk_stop, daemon_stop>>
  BY <1>3 DEF DaemonStarts, DaemonReturns, DaemonCancels, DaemonPanics, DaemonEnds
<1>4. EvaluateStop => (stopped => stopped')
  <2> SUFFICES ASSUME EvaluateStop PROVE stopped => stopped'
    OBVIOUS
  <2>1. /\ stop_flag => stop_flag'
        /\ walk_stop => walk_stop'
        /\ daemon_stop' = daemon_stop
        /\ level' \in {1, 2, level}
    BY DEF EvaluateStop
  <2> QED BY <2>1
<1>5. ReadFailures \/ AllDrained \/ SignalDaemon \/ Finish => UNCHANGED stopVars
  BY DEF ReadFailures, AllDrained, SignalDaemon, Finish
<1>6. JoinDaemon \/ GraceExpires => UNCHANGED stopVars
  BY DEF JoinDaemon, GraceExpires, CollectExit
<1>7. ReportExits => (stop_flag => stop_flag') /\ UNCHANGED <<level, walk_stop, daemon_stop>>
  BY DEF ReportExits
<1>8. Escalate \/ WalkStop \/ DaemonStop => (stopped => stopped')
  BY DEF Escalate, WalkStop, DaemonStop
<1>9. UNCHANGED stopVars \/ ((stop_flag => stop_flag') /\ UNCHANGED <<level, walk_stop, daemon_stop>>)
         => (stopped => stopped')
  OBVIOUS
<1>10. UNCHANGED vars => UNCHANGED stopVars
  BY DEF vars
<1> HIDE DEF stopVars, stopped, TypeInv
<1>11. CASE \E f \in Fibers : FiberStep(f) \/ OpReturns(f) \/ PanicFiber(f)
                              \/ PanicInOutputs(f) \/ SpawnFiber(f) \/ PushFiber(f)
                              \/ FlagFiber(f)
  BY <1>1, <1>2, <1>9, <1>11 DEF FiberStep
<1> QED
  BY <1>3, <1>4, <1>5, <1>6, <1>7, <1>8, <1>9, <1>10, <1>11 DEF Next, MainStep
-----------------------------------------------------------------------------
(* The fibers the phase starts with.                                       *)

\* They were started and recorded before the wait loop began.
Initials == \A f \in InitialFibers : pc[f] # "unborn" /\ f \notin unpushed

DrainInv == TypeInv /\ Initials /\ InitialFibersDrained

\* The initial fibers start at the boundary, in the pool.
LEMMA DrainInit == Init => DrainInv
<1> SUFFICES ASSUME Init PROVE DrainInv
  OBVIOUS
<1>1. Initials /\ InitialFibersDrained
  BY FibersAssumption DEF FibersAssumption, Init, Initials, InitialFibersDrained
<1> QED BY <1>1, TypeInit DEF DrainInv

\* A step that takes the wait loop to its drain finds them exited, and no step
\* revives one.
LEMMA DrainStep == DrainInv /\ [Next]_vars => DrainInv'
<1> SUFFICES ASSUME DrainInv, [Next]_vars PROVE DrainInv'
  OBVIOUS
<1>1. TypeInv /\ Initials /\ InitialFibersDrained /\ TypeInv' /\ InitialFibers \subseteq Fibers
  BY TypeStep, FibersAssumption DEF DrainInv, FibersAssumption
<1>2. Initials'
  BY <1>1, FiberLife DEF Initials
<1> DEFINE Late == {"drain", "await", "report", "done"}
<1>3. CASE AllDrained
  <2>1. \A f \in InitialFibers : pc[f] = "exited"
    BY <1>1, <1>3 DEF AllDrained, tracked, spawned, Initials
  <2>2. \A f \in InitialFibers : pc'[f] = "exited"
    BY <1>1, <2>1, FiberLife
  <2> QED BY <1>1, <1>2, <2>2 DEF DrainInv, InitialFibersDrained
<1>4. CASE ~AllDrained
  <2>1. mpc' \in Late => mpc \in Late
    <3>1. ASSUME NEW f \in Fibers,
                 \/ FiberStep(f) \/ OpReturns(f) \/ PanicFiber(f)
                 \/ PanicInOutputs(f) \/ SpawnFiber(f) \/ PushFiber(f) \/ FlagFiber(f)
          PROVE  mpc' = mpc
      BY <3>1 DEF FiberStep, LeaveAtBoundary, Reserve, Exhausted, EndStanza, NextOp, Dispatch,
                  CancelOp, CountCycle, CountResult, SpawnDaemonFails, SpawnDaemon, OpReturns,
                  PanicFiber, PanicInOutputs, SpawnFiber, PushFiber, FlagFiber, mainVars
    <3>2. ASSUME NEW d \in Daemons,
                 DaemonStarts(d) \/ DaemonReturns(d) \/ DaemonCancels(d) \/ DaemonPanics(d)
          PROVE  mpc' = mpc
      BY <3>2 DEF DaemonStarts, DaemonReturns, DaemonCancels, DaemonPanics, DaemonEnds, mainVars
    <3>3. ReadFailures \/ EvaluateStop => mpc' \notin Late
      BY DEF ReadFailures, EvaluateStop
    <3>4. SignalDaemon \/ JoinDaemon \/ GraceExpires \/ ReportExits \/ Finish => mpc \in Late
      BY DEF SignalDaemon, JoinDaemon, GraceExpires, ReportExits, Finish
    <3>5. Escalate \/ WalkStop \/ DaemonStop \/ UNCHANGED vars => mpc' = mpc
      BY DEF Escalate, WalkStop, DaemonStop, mainVars, vars
    <3> HIDE DEF Late
    <3> QED BY <1>4, <3>1, <3>2, <3>3, <3>4, <3>5 DEF Next, MainStep
  <2>2. InitialFibersDrained'
    BY <1>1, <2>1, FiberLife DEF InitialFibersDrained
  <2> QED BY <1>1, <1>2, <2>2 DEF DrainInv
<1> QED BY <1>3, <1>4

\* When the activity's task goes on to its daemons, every fiber the phase was
\* started with has exited, flagged by a scale-down or not.
THEOREM InitialFibersDrain == Spec => []InitialFibersDrained
<1>1. Spec => []DrainInv
  BY DrainInit, DrainStep, PTL DEF Spec
<1>2. DrainInv => InitialFibersDrained
  BY DEF DrainInv
<1> QED BY <1>1, <1>2, PTL
-----------------------------------------------------------------------------
(* Nothing is dropped.                                                     *)

\* A fiber between stanzas holds nothing, and what is left of a reservation
\* fits in the positions that are left of the stanza.
Spans ==
    \A f \in Fibers :
        /\ pc[f] \in {"unborn", "boundary", "exited"} => fend[f] <= base[f]
        /\ \/ fend[f] <= base[f]
           \/ fend[f] <= base[f] + (RowOffset[Positions + 1] - RowOffset[pos[f]])

\* As long as no stop was raised, an ordinal below the cursor was handed out or
\* is held by a fiber, ...
Accounted == \A o \in Ordinals : o < cursor => covered[o] # 0 \/ \E f \in Fibers : Holds(f, o)

\* ... and a fiber that left without being told to found the cursor at its end.
Dismissed == \A f \in Fibers : pc[f] = "exited" /\ f \notin fiber_stop => cursor >= Extent

\* The pool keeps a fiber it has not told to leave.
Manned == spawned \ (unpushed \cup fiber_stop) # {}

AllInv == CoverInv /\ Spans /\ Manned /\ (~stopped => Accounted /\ Dismissed)

\* Nothing is reserved at the start and the initial fibers are unflagged.
LEMMA AllInit == Init => AllInv
<1> SUFFICES ASSUME Init PROVE AllInv
  OBVIOUS
<1>1. Spans /\ Accounted /\ Dismissed
  BY Stride DEF Init, Spans, Accounted, Dismissed, Ordinals
<1>2. Manned
  <2>1. PICK f \in InitialFibers : f \in Fibers
    BY FibersAssumption DEF FibersAssumption
  <2>2. f \in spawned \ (unpushed \cup fiber_stop)
    BY <2>1 DEF Init, spawned
  <2> QED BY <2>2 DEF Manned
<1> QED BY <1>1, <1>2, CoverInit DEF AllInv

\* A step that leaves the cursor and the iterators alone keeps the spans when
\* a fiber reaches its boundary or exits from a state that holds nothing.
LEMMA SpansIdle ==
    ASSUME Spans, UNCHANGED cursorVars,
           \A g \in Fibers : pc'[g] \in {"unborn", "boundary", "exited"}
                                => pc[g] \in {"unborn", "boundary", "exited"}
    PROVE  Spans'
BY DEF Spans, cursorVars

\* So does one that drops the reservation of one fiber.
LEMMA SpansDrop ==
    ASSUME TypeInv, Spans, NEW f \in Fibers, base' = [base EXCEPT ![f] = fend[f]],
           UNCHANGED <<pos, fend>>, \A g \in Fibers \ {f} : pc'[g] = pc[g]
    PROVE  Spans'
<1>1. \A g \in Fibers \ {f} : base'[g] = base[g] /\ fend'[g] = fend[g] /\ pos'[g] = pos[g]
  BY DEF TypeInv, TypeOK
<1>2. fend'[f] <= base'[f]
  BY Stride DEF TypeInv, TypeOK
<1> QED BY <1>1, <1>2 DEF Spans

\* Every step keeps the spans.
LEMMA SpansStep ==
    ASSUME CoverInv, Spans, [Next]_vars PROVE Spans'
<1> USE DEF CoverInv, TypeInv, TypeOK
<1>1. ASSUME NEW f \in Fibers, Reserve(f) PROVE Spans'
  <2>1. /\ cursor' = MinOf(cursor + RowOffset[Positions + 1], Extent)
        /\ fend' = [fend EXCEPT ![f] = cursor'] /\ base' = [base EXCEPT ![f] = cursor]
        /\ pos' = [pos EXCEPT ![f] = 1] /\ pc' = [pc EXCEPT ![f] = "stanza"]
    BY <1>1 DEF Reserve, Goto
  <2>2. cursor' <= cursor + RowOffset[Positions + 1]
    BY <2>1, Stride DEF MinOf
  <2>3. \A g \in Fibers \ {f} : /\ base'[g] = base[g] /\ fend'[g] = fend[g]
                                /\ pos'[g] = pos[g] /\ pc'[g] = pc[g]
    BY <2>1
  <2>4. base'[f] = cursor /\ fend'[f] = cursor' /\ pos'[f] = 1 /\ pc'[f] = "stanza"
    BY <2>1
  <2>5. fend'[f] <= base'[f] + (RowOffset[Positions + 1] - RowOffset[pos'[f]])
    BY <2>2, <2>4, Stride
  <2> QED BY <2>3, <2>4, <2>5 DEF Spans
<1>2. ASSUME NEW f \in Fibers, NextOp(f) PROVE Spans'
  <2>1. pos[f] \in 1..Positions /\ base[f] < fend[f]
    BY <1>2, Stride DEF NextOp
  <2>2. /\ base[f] < SubEnd(f) /\ SubEnd(f) \in 0..Extent
        /\ SubEnd(f) \in {fend[f], base[f] + (RowOffset[pos[f] + 1] - RowOffset[pos[f]])}
    BY <2>1, SubEndFact
  <2>3. /\ base' = [base EXCEPT ![f] = SubEnd(f)] /\ fend' = fend
        /\ pos' = [pos EXCEPT ![f] = pos[f] + 1] /\ pc' = [pc EXCEPT ![f] = "permit"]
    BY <1>2 DEF NextOp, AdvanceRun, Goto
  <2>4. \A g \in Fibers \ {f} : /\ base'[g] = base[g] /\ fend'[g] = fend[g]
                                /\ pos'[g] = pos[g] /\ pc'[g] = pc[g]
    BY <2>3
  <2>5. /\ base'[f] = SubEnd(f) /\ fend'[f] = fend[f] /\ pos'[f] = pos[f] + 1
        /\ pc'[f] = "permit"
    BY <2>3
  <2>6. fend[f] <= base[f] + (RowOffset[Positions + 1] - RowOffset[pos[f]])
    BY <2>1, Stride DEF Spans
  <2>7. RowOffset[pos[f]] \in Nat /\ RowOffset[pos[f] + 1] \in Nat
    BY <2>1, Rows
  <2>8. \/ fend'[f] <= base'[f]
        \/ fend'[f] <= base'[f] + (RowOffset[Positions + 1] - RowOffset[pos'[f]])
    <3>1. CASE SubEnd(f) = fend[f]
      BY <2>5, <3>1, Stride
    <3>2. CASE SubEnd(f) = base[f] + (RowOffset[pos[f] + 1] - RowOffset[pos[f]])
      BY <2>5, <2>6, <2>7, <3>2, Stride
    <3> QED BY <2>2, <3>1, <3>2
  <2> QED BY <2>4, <2>5, <2>8 DEF Spans
<1>3. ASSUME NEW f \in Fibers,
             EndStanza(f) \/ PanicFiber(f) \/ PanicInOutputs(f) \/ SpawnDaemonFails(f)
      PROVE  Spans'
  BY <1>3, SpansDrop DEF EndStanza, PanicFiber, PanicInOutputs, SpawnDaemonFails, Goto
<1> DEFINE Idle == /\ UNCHANGED cursorVars
                   /\ \A g \in Fibers : pc'[g] \in {"unborn", "boundary", "exited"}
                                           => pc[g] \in {"unborn", "boundary", "exited"}
<1>4. ASSUME NEW f \in Fibers,
             \/ LeaveAtBoundary(f) \/ Exhausted(f) \/ Dispatch(f) \/ CancelOp(f)
             \/ CountCycle(f) \/ CountResult(f) \/ \E d \in Daemons : SpawnDaemon(f, d)
             \/ OpReturns(f) \/ SpawnFiber(f) \/ PushFiber(f) \/ FlagFiber(f)
      PROVE  Idle
  BY <1>4 DEF LeaveAtBoundary, Exhausted, Dispatch, CancelOp, CountCycle, CountResult,
              SpawnDaemon, OpReturns, SpawnFiber, PushFiber, FlagFiber, Goto
<1>5. ASSUME NEW d \in Daemons,
             DaemonStarts(d) \/ DaemonReturns(d) \/ DaemonCancels(d) \/ DaemonPanics(d)
      PROVE  Idle
  BY <1>5 DEF DaemonStarts, DaemonReturns, DaemonCancels, DaemonPanics, DaemonEnds, fiberVars
<1>6. ASSUME MainStep \/ Escalate \/ WalkStop \/ DaemonStop PROVE Idle
  <2> USE DEF fiberVars
  <2>1. ReadFailures \/ AllDrained \/ SignalDaemon \/ EvaluateStop => Idle
    BY DEF ReadFailures, AllDrained, SignalDaemon, EvaluateStop
  <2>2. JoinDaemon \/ GraceExpires \/ ReportExits \/ Finish => Idle
    BY DEF JoinDaemon, GraceExpires, CollectExit, ReportExits, Finish
  <2>3. Escalate \/ WalkStop \/ DaemonStop => Idle
    BY DEF Escalate, WalkStop, DaemonStop
  <2> QED BY <1>6, <2>1, <2>2, <2>3 DEF MainStep
<1>7. UNCHANGED vars => Idle
  BY DEF vars, fiberVars
<1>8. Idle => Spans'
  BY SpansIdle
<1> HIDE DEF Idle
<1> QED BY <1>1, <1>2, <1>3, <1>4, <1>5, <1>6, <1>7, <1>8 DEF Next, FiberStep

\* The pool keeps an unflagged fiber: FlagFiber leaves another one.
LEMMA MannedStep ==
    ASSUME TypeInv, Manned, [Next]_vars PROVE Manned'
<1> DEFINE Pool == spawned \ (unpushed \cup fiber_stop)
<1>1. ASSUME NEW f \in Fibers, FlagFiber(f) PROVE Manned'
  <2>1. PICK g \in Pool : g # f
    BY <1>1 DEF FlagFiber
  <2>2. /\ pc' = pc /\ unpushed' = unpushed /\ fiber_stop' = fiber_stop \cup {f}
    BY <1>1 DEF FlagFiber
  <2> QED BY <2>1, <2>2 DEF Manned, spawned
<1>2. ASSUME ~\E f \in Fibers : FlagFiber(f) PROVE fiber_stop' = fiber_stop
  <2>1. ASSUME NEW f \in Fibers,
               \/ FiberStep(f) \/ OpReturns(f) \/ PanicFiber(f) \/ PanicInOutputs(f)
               \/ SpawnFiber(f) \/ PushFiber(f)
        PROVE  fiber_stop' = fiber_stop
    BY <2>1 DEF FiberStep, LeaveAtBoundary, Reserve, Exhausted, EndStanza, NextOp, Dispatch,
                CancelOp, CountCycle, CountResult, SpawnDaemonFails, SpawnDaemon, OpReturns,
                PanicFiber, PanicInOutputs, SpawnFiber, PushFiber
  <2>2. ASSUME NEW d \in Daemons,
               DaemonStarts(d) \/ DaemonReturns(d) \/ DaemonCancels(d) \/ DaemonPanics(d)
        PROVE  fiber_stop' = fiber_stop
    BY <2>2 DEF DaemonStarts, DaemonReturns, DaemonCancels, DaemonPanics, DaemonEnds, fiberVars
  <2> USE DEF fiberVars
  <2>3. ReadFailures \/ AllDrained \/ SignalDaemon \/ EvaluateStop => fiber_stop' = fiber_stop
    BY DEF ReadFailures, AllDrained, SignalDaemon, EvaluateStop
  <2>4. JoinDaemon \/ GraceExpires \/ ReportExits \/ Finish => fiber_stop' = fiber_stop
    BY DEF JoinDaemon, GraceExpires, CollectExit, ReportExits, Finish
  <2>5. Escalate \/ WalkStop \/ DaemonStop \/ UNCHANGED vars => fiber_stop' = fiber_stop
    BY DEF Escalate, WalkStop, DaemonStop, vars
  <2> QED BY <1>2, <2>1, <2>2, <2>3, <2>4, <2>5 DEF Next, MainStep
<1>3. ASSUME fiber_stop' = fiber_stop PROVE Manned'
  <2>1. PICK g \in Fibers : g \in Pool
    BY DEF Manned, spawned
  <2>2. pc'[g] # "unborn" /\ g \notin unpushed'
    BY <2>1, FiberLife DEF spawned
  <2>3. g \in (spawned \ (unpushed \cup fiber_stop))'
    BY <1>3, <2>1, <2>2 DEF spawned
  <2> QED BY <2>3 DEF Manned
<1> QED BY <1>1, <1>2, <1>3

\* Without a stop, no ordinal gets lost: what a fiber gives up was handed out.
LEMMA AccountedStep ==
    ASSUME CoverInv, Spans, Accounted, [Next]_vars, ~stopped, ~stopped'
    PROVE  Accounted'
<1> USE DEF CoverInv, TypeInv, TypeOK
<1>1. ASSUME NEW f \in Fibers, Reserve(f) PROVE Accounted'
  <2>1. /\ fend' = [fend EXCEPT ![f] = cursor'] /\ base' = [base EXCEPT ![f] = cursor]
        /\ covered' = covered /\ pc[f] = "boundary"
    BY <1>1 DEF Reserve
  <2>2. SUFFICES ASSUME NEW o \in Ordinals, o < cursor'
                 PROVE  covered'[o] # 0 \/ \E g \in Fibers : Holds(g, o)'
    BY DEF Accounted, Ordinals
  <2>3. CASE o < cursor
    <3>1. CASE covered[o] # 0
      BY <2>1, <3>1
    <3>2. CASE \E g \in Fibers : Holds(g, o)
      <4>1. PICK g \in Fibers : Holds(g, o)
        BY <3>2
      <4>2. o \in Int /\ base[f] \in Int /\ fend[f] \in Int
        BY Stride DEF Ordinals
      <4>3. g # f
        BY <2>1, <4>1, <4>2 DEF Spans, Holds
      <4>4. base'[g] = base[g] /\ fend'[g] = fend[g]
        BY <2>1, <4>3
      <4>5. Holds(g, o)'
        BY <4>1, <4>4 DEF Holds
      <4> QED BY <4>5
    <3> QED BY <2>3, <3>1, <3>2 DEF Accounted
  <2>4. CASE ~(o < cursor)
    <3>1. cursor <= o
      BY <2>4, Stride DEF Ordinals
    <3>2. base'[f] = cursor /\ fend'[f] = cursor'
      BY <2>1
    <3>3. Holds(f, o)'
      BY <2>2, <3>1, <3>2 DEF Holds
    <3> QED BY <3>3
  <2> QED BY <2>3, <2>4
<1>2. ASSUME NEW f \in Fibers, NextOp(f) PROVE Accounted'
  <2>1. pos[f] \in 1..Positions /\ base[f] < fend[f]
    BY <1>2, Stride DEF NextOp
  <2>2. base[f] < SubEnd(f) /\ SubEnd(f) \in 0..Extent /\ SubEnd(f) <= fend[f]
    BY <2>1, SubEndFact
  <2>3. /\ base' = [base EXCEPT ![f] = SubEnd(f)] /\ fend' = fend /\ cursor' = cursor
        /\ covered' = [o \in Ordinals |->
                          IF o \in base[f]..(SubEnd(f) - 1) THEN covered[o] + 1 ELSE covered[o]]
    BY <1>2 DEF NextOp, AdvanceRun
  <2>4. SUFFICES ASSUME NEW o \in Ordinals, o < cursor
                 PROVE  covered'[o] # 0 \/ \E g \in Fibers : Holds(g, o)'
    BY <2>3 DEF Accounted, Ordinals
  <2>5. CASE covered[o] # 0
    BY <2>3, <2>5
  <2>6. ASSUME NEW g \in Fibers, Holds(g, o) PROVE covered'[o] # 0 \/ Holds(g, o)'
    <3>1. CASE g # f
      <4>1. base'[g] = base[g] /\ fend'[g] = fend[g]
        BY <2>3, <3>1
      <4> QED BY <2>6, <4>1 DEF Holds
    <3>2. CASE g = f
      <4>1. base'[f] = SubEnd(f) /\ fend'[f] = fend[f] /\ o \in Int
        BY <2>3 DEF Ordinals
      <4>2. CASE o < SubEnd(f)
        <5>1. o \in base[f]..(SubEnd(f) - 1)
          BY <2>2, <2>6, <3>2, <4>1, <4>2, Stride DEF Holds
        <5>2. covered'[o] = covered[o] + 1 /\ covered[o] \in Nat
          BY <2>3, <5>1
        <5> QED BY <5>2
      <4>3. CASE ~(o < SubEnd(f))
        BY <2>2, <2>6, <3>2, <4>1, <4>3, Stride DEF Holds
      <4> QED BY <4>2, <4>3
    <3> QED BY <3>1, <3>2
  <2> QED BY <2>4, <2>5, <2>6 DEF Accounted
<1>3. ASSUME NEW f \in Fibers, EndStanza(f) PROVE Accounted'
  <2>1. /\ base' = [base EXCEPT ![f] = fend[f]] /\ fend' = fend /\ cursor' = cursor
        /\ covered' = covered
        /\ pos[f] > Positions \/ base[f] >= fend[f]
    BY <1>3 DEF EndStanza, StanzaBroken
  <2>2. fend[f] <= base[f]
    <3>1. CASE pos[f] > Positions
      <4>1. pos[f] = Positions + 1
        BY <3>1, Stride
      <4> QED BY <4>1, Stride DEF Spans
    <3>2. CASE base[f] >= fend[f]
      BY <3>2, Stride
    <3> QED BY <2>1, <3>1, <3>2
  <2>3. \A g \in Fibers, o \in Ordinals : Holds(g, o) => Holds(g, o)'
    BY <2>1, <2>2, Stride DEF Holds, Ordinals
  <2> QED BY <2>1, <2>3 DEF Accounted, Ordinals
<1>4. ASSUME NEW f \in Fibers, PanicFiber(f) \/ PanicInOutputs(f) \/ SpawnDaemonFails(f)
      PROVE  FALSE
  BY <1>4 DEF PanicFiber, PanicInOutputs, SpawnDaemonFails, stopped
<1>5. ASSUME NEW f \in Fibers,
             \/ LeaveAtBoundary(f) \/ Exhausted(f) \/ Dispatch(f) \/ CancelOp(f)
             \/ CountCycle(f) \/ CountResult(f) \/ \E d \in Daemons : SpawnDaemon(f, d)
             \/ OpReturns(f) \/ SpawnFiber(f) \/ PushFiber(f) \/ FlagFiber(f)
      PROVE  UNCHANGED cursorVars
  BY <1>5 DEF LeaveAtBoundary, Exhausted, Dispatch, CancelOp, CountCycle, CountResult,
              SpawnDaemon, OpReturns, SpawnFiber, PushFiber, FlagFiber
<1>6. ASSUME NEW d \in Daemons,
             DaemonStarts(d) \/ DaemonReturns(d) \/ DaemonCancels(d) \/ DaemonPanics(d)
      PROVE  UNCHANGED cursorVars
  BY <1>6 DEF DaemonStarts, DaemonReturns, DaemonCancels, DaemonPanics, DaemonEnds
<1>7. ASSUME MainStep \/ Escalate \/ WalkStop \/ DaemonStop PROVE UNCHANGED cursorVars
  BY <1>7 DEF MainStep, ReadFailures, AllDrained, SignalDaemon, EvaluateStop, JoinDaemon,
              GraceExpires, CollectExit, ReportExits, Finish, Escalate, WalkStop, DaemonStop
<1>8. UNCHANGED vars => UNCHANGED cursorVars
  BY DEF vars
<1>9. UNCHANGED cursorVars => Accounted'
  BY DEF cursorVars, Accounted, Holds, Ordinals
<1> HIDE DEF CoverInv, TypeInv, TypeOK
<1> QED
  BY <1>1, <1>2, <1>3, <1>4, <1>5, <1>6, <1>7, <1>8, <1>9 DEF Next, FiberStep

\* Without a stop, a fiber leaves because it was told to or at the cursor's end.
LEMMA DismissedStep ==
    ASSUME CoverInv, Dismissed, [Next]_vars, ~stopped, ~stopped'
    PROVE  Dismissed'
<1> USE DEF CoverInv, TypeInv, TypeOK
<1>1. cursor <= cursor' /\ cursor \in Int /\ cursor' \in Int
  <2>1. ASSUME NEW f \in Fibers, Reserve(f)
        PROVE  cursor <= cursor' /\ cursor \in Int /\ cursor' \in Int
    BY <2>1, Stride DEF Reserve, MinOf
  <2>2. ASSUME ~\E f \in Fibers : Reserve(f) PROVE cursor' = cursor
    <3> USE DEF cursorVars
    <3>1. ASSUME NEW f \in Fibers,
                 \/ LeaveAtBoundary(f) \/ Exhausted(f) \/ EndStanza(f) \/ NextOp(f)
                 \/ Dispatch(f) \/ CancelOp(f) \/ CountCycle(f) \/ CountResult(f)
                 \/ SpawnDaemonFails(f) \/ \E d \in Daemons : SpawnDaemon(f, d)
                 \/ OpReturns(f) \/ PanicFiber(f) \/ PanicInOutputs(f)
                 \/ SpawnFiber(f) \/ PushFiber(f) \/ FlagFiber(f)
          PROVE  cursor' = cursor
      BY <3>1 DEF LeaveAtBoundary, Exhausted, EndStanza, NextOp, Dispatch, CancelOp, CountCycle,
                  CountResult, SpawnDaemonFails, SpawnDaemon, OpReturns, PanicFiber,
                  PanicInOutputs, SpawnFiber, PushFiber, FlagFiber
    <3>2. ASSUME NEW d \in Daemons,
                 DaemonStarts(d) \/ DaemonReturns(d) \/ DaemonCancels(d) \/ DaemonPanics(d)
          PROVE  cursor' = cursor
      BY <3>2 DEF DaemonStarts, DaemonReturns, DaemonCancels, DaemonPanics, DaemonEnds
    <3>3. ASSUME MainStep \/ Escalate \/ WalkStop \/ DaemonStop PROVE cursor' = cursor
      BY <3>3 DEF MainStep, ReadFailures, AllDrained, SignalDaemon, EvaluateStop, JoinDaemon,
                  GraceExpires, CollectExit, ReportExits, Finish, Escalate, WalkStop, DaemonStop
    <3>4. UNCHANGED vars => cursor' = cursor
      BY DEF vars
    <3> QED BY <2>2, <3>1, <3>2, <3>3, <3>4 DEF Next, FiberStep
  <2>3. cursor \in Int
    BY Stride
  <2> QED BY <2>1, <2>2, <2>3
<1>2. ASSUME NEW g \in Fibers, pc'[g] = "exited", g \notin fiber_stop',
             pc[g] # "exited"
      PROVE  cursor >= Extent
  <2>1. g \notin fiber_stop
    BY <1>2, FiberLife
  <2>2. ASSUME NEW f \in Fibers, Exhausted(f) PROVE cursor >= Extent
    BY <2>2 DEF Exhausted
  <2>3. ASSUME NEW f \in Fibers, LeaveAtBoundary(f) PROVE FALSE
    BY <1>2, <2>1, <2>3 DEF LeaveAtBoundary, Goto
  <2>4. ASSUME NEW f \in Fibers, PanicFiber(f) \/ PanicInOutputs(f) \/ SpawnDaemonFails(f)
        PROVE  FALSE
    BY <2>4 DEF PanicFiber, PanicInOutputs, SpawnDaemonFails, stopped
  <2>5. ASSUME NEW f \in Fibers,
               \/ Reserve(f) \/ EndStanza(f) \/ NextOp(f) \/ Dispatch(f) \/ CancelOp(f)
               \/ CountCycle(f) \/ CountResult(f) \/ OpReturns(f)
               \/ SpawnFiber(f) \/ PushFiber(f) \/ FlagFiber(f)
               \/ \E d \in Daemons : SpawnDaemon(f, d)
        PROVE  FALSE
    BY <1>2, <2>5 DEF Reserve, EndStanza, NextOp, Dispatch, CancelOp, CountCycle, CountResult,
                      SpawnDaemon, OpReturns, SpawnFiber, PushFiber, FlagFiber, Goto
  <2> USE DEF fiberVars
  <2>6. ASSUME NEW d \in Daemons,
               DaemonStarts(d) \/ DaemonReturns(d) \/ DaemonCancels(d) \/ DaemonPanics(d)
        PROVE  FALSE
    BY <1>2, <2>6 DEF DaemonStarts, DaemonReturns, DaemonCancels, DaemonPanics, DaemonEnds
  <2>7. ASSUME MainStep \/ Escalate \/ WalkStop \/ DaemonStop PROVE FALSE
    BY <1>2, <2>7 DEF MainStep, ReadFailures, AllDrained, SignalDaemon, EvaluateStop, JoinDaemon,
                GraceExpires, CollectExit, ReportExits, Finish, Escalate, WalkStop, DaemonStop
  <2>8. ASSUME UNCHANGED vars PROVE FALSE
    BY <1>2, <2>8 DEF vars
  <2> QED BY <2>2, <2>3, <2>4, <2>5, <2>6, <2>7, <2>8 DEF Next, FiberStep
<1>3. \A g \in Fibers : g \in fiber_stop => g \in fiber_stop'
  BY FiberLife
<1> SUFFICES ASSUME NEW g \in Fibers, pc'[g] = "exited", g \notin fiber_stop'
             PROVE  cursor' >= Extent
  BY DEF Dismissed
<1>4. cursor >= Extent
  BY <1>2, <1>3 DEF Dismissed
<1> QED BY <1>1, <1>4, Stride

\* Every step keeps account of every ordinal.
LEMMA AllStep == AllInv /\ [Next]_vars => AllInv'
<1> SUFFICES ASSUME AllInv, [Next]_vars PROVE AllInv'
  OBVIOUS
<1>1. CoverInv /\ TypeInv /\ CoverInv'
  BY CoverStep DEF AllInv, CoverInv
<1>2. Spans'
  BY <1>1, SpansStep DEF AllInv
<1>3. Manned'
  BY <1>1, MannedStep DEF AllInv
<1>4. ASSUME ~stopped' PROVE Accounted' /\ Dismissed'
  <2>1. ~stopped
    BY <1>1, <1>4, StopStays
  <2>2. Spans /\ Accounted /\ Dismissed
    BY <2>1 DEF AllInv
  <2> QED BY <1>1, <1>4, <2>1, <2>2, AccountedStep, DismissedStep
<1> QED BY <1>1, <1>2, <1>3, <1>4 DEF AllInv

\* When no stop was raised and every fiber is gone, every ordinal went to an op:
\* scale-ups and scale-downs lose no part of the cursor, in any stanza layout.
THEOREM CoverAllHolds == Spec => []CoverAll
<1>1. Spec => []AllInv
  BY AllInit, AllStep, PTL DEF Spec
<1>2. AllInv => CoverAll
  <2> SUFFICES ASSUME AllInv, \A f \in spawned : pc[f] = "exited", ~stopped,
                      NEW o \in Ordinals
               PROVE  covered[o] = 1
    BY DEF CoverAll
  <2> USE DEF AllInv, CoverInv, TypeInv, TypeOK
  <2>1. PICK g \in Fibers : pc[g] = "exited" /\ g \notin fiber_stop
    BY DEF Manned, spawned
  <2>2. cursor >= Extent /\ o \in Int /\ o < Extent
    BY <2>1, Stride DEF Dismissed, Ordinals
  <2>3. o < cursor
    BY <2>2, Stride
  <2>4. \A f \in Fibers : ~Holds(f, o)
    <3> SUFFICES ASSUME NEW f \in Fibers PROVE ~Holds(f, o)
      OBVIOUS
    <3>1. pc[f] \in {"unborn", "exited"}
      BY DEF spawned
    <3>2. fend[f] <= base[f] /\ fend[f] \in Int /\ base[f] \in Int
      BY <3>1, Stride DEF Spans
    <3> QED BY <2>2, <3>2 DEF Holds
  <2>5. covered[o] # 0
    BY <2>3, <2>4 DEF Accounted
  <2>6. covered[o] \in Nat /\ covered[o] <= 1
    BY DEF CoverOnce
  <2> QED BY <2>5, <2>6
<1> QED BY <1>1, <1>2, PTL
-----------------------------------------------------------------------------
(* The daemons.  Each one that was started is in the pool's slots, in what *)
(* shutdown has still to join, or among the exits it has collected.        *)

InSeq(d, s) == \E i \in 1..Len(s) : s[i] = d

\* The activity's task is past its wait loop.
Late == mpc \in {"drain", "await", "report", "done"}

\* No fiber is left once the task is past its wait loop.
NoneLeft == Late => \A f \in Fibers : pc[f] \in {"unborn", "exited"}

\* A daemon shutdown is done with: it is among the exits, as it ended or as one
\* whose grace window expired.
Resolved(d) == "TimedOut" \in exits \/ (dpc[d] = "returned" /\ dexit[d] \in exits)

Located ==
    \A d \in Daemons :
        dpc[d] # "unborn" => InSeq(d, slots) \/ InSeq(d, draining) \/ Resolved(d)

\* Shutdown takes every slot, and none is left to join before and after it.
Emptied ==
    /\ Late => slots = <<>>
    /\ mpc \notin {"drain", "await"} => draining = <<>>

Failed == \E e \in exits : is_phase_error(e)

\* A failed exit stops the phase and so reaches the result.
Reported ==
    /\ mpc = "report" /\ Failed => stop_flag
    /\ mpc = "done" /\ Failed => result

FateInv == CountInv /\ Located /\ Emptied /\ Reported

\* A sequence holds its head and what its tail holds, and nothing else.
LEMMA InTail ==
    ASSUME NEW S, NEW s \in Seq(S), s # <<>>, NEW d, InSeq(d, s)
    PROVE  d = Head(s) \/ InSeq(d, Tail(s))
<1>1. PICK i \in 1..Len(s) : s[i] = d
  BY DEF InSeq
<1>2. CASE i = 1
  BY <1>1, <1>2
<1>3. CASE i # 1
  <2>1. /\ Len(Tail(s)) = Len(s) - 1
        /\ \A j \in 1..Len(Tail(s)) : Tail(s)[j] = s[j + 1]
    OBVIOUS
  <2>2. i - 1 \in 1..Len(Tail(s)) /\ Tail(s)[i - 1] = d
    BY <1>1, <1>3, <2>1
  <2> QED BY <2>2 DEF InSeq
<1> QED BY <1>2, <1>3

\* Appending keeps what a sequence holds and adds the new last element.
LEMMA InAppend ==
    ASSUME NEW S, NEW s \in Seq(S), NEW e \in S, NEW d
    PROVE  /\ InSeq(e, Append(s, e))
           /\ InSeq(d, s) => InSeq(d, Append(s, e))
<1>1. /\ Len(Append(s, e)) = Len(s) + 1 /\ Len(s) \in Nat
      /\ Append(s, e)[Len(s) + 1] = e
      /\ \A i \in 1..Len(s) : Append(s, e)[i] = s[i]
  OBVIOUS
<1>2. InSeq(e, Append(s, e))
  <2>1. Len(s) + 1 \in 1..Len(Append(s, e))
    BY <1>1
  <2> QED BY <1>1, <2>1 DEF InSeq
<1>3. ASSUME InSeq(d, s) PROVE InSeq(d, Append(s, e))
  <2>1. PICK i \in 1..Len(s) : s[i] = d
    BY <1>3 DEF InSeq
  <2>2. i \in 1..Len(Append(s, e)) /\ Append(s, e)[i] = d
    BY <1>1, <2>1
  <2> QED BY <2>2 DEF InSeq
<1> QED BY <1>2, <1>3

\* No daemon was started yet.
LEMMA FateInit == Init => FateInv
<1> SUFFICES ASSUME Init PROVE FateInv
  OBVIOUS
<1>1. CountInv
  BY TypeInit, CountsInit DEF CountInv
<1>2. Located /\ Emptied /\ Reported
  BY DEF Init, Located, Emptied, Reported, Late
<1> QED BY <1>1, <1>2 DEF FateInv

\* A step that leaves the daemons, their sequences and the task's place alone.
LEMMA FateIdle ==
    ASSUME Located, Emptied, Reported, stop_flag => stop_flag',
           UNCHANGED <<dpc, dexit, slots, draining, exits, mpc, result>>
    PROVE  Located' /\ Emptied' /\ Reported'
<1>1. Located'
  BY DEF Located, Resolved, InSeq
<1>2. Emptied' /\ Reported'
  BY DEF Emptied, Reported, Late, Failed
<1> QED BY <1>1, <1>2

\* The fibers' steps: only the start of a daemon matters, and it happens while
\* the task is in its wait loop.
LEMMA FateFiber ==
    ASSUME FateInv, NoneLeft, NEW f \in Fibers,
           \/ FiberStep(f) \/ OpReturns(f) \/ PanicFiber(f) \/ PanicInOutputs(f)
           \/ SpawnFiber(f) \/ PushFiber(f) \/ FlagFiber(f)
    PROVE  Located' /\ Emptied' /\ Reported'
<1>0. TypeInv /\ Located /\ Emptied /\ Reported
  BY DEF FateInv, CountInv
<1>1. ASSUME NEW d \in Daemons, SpawnDaemon(f, d) PROVE Located' /\ Emptied' /\ Reported'
  <2>1. /\ pc[f] = "permit" /\ dpc' = [dpc EXCEPT ![d] = "spawned"] /\ dpc[d] = "unborn"
        /\ slots' = Append(slots, d)
        /\ UNCHANGED <<dexit, draining, exits, mpc, result, stop_flag>>
    BY <1>1 DEF SpawnDaemon, mainVars, stopVars
  <2>2. ~Late
    BY <2>1 DEF NoneLeft
  <2>3. Emptied' /\ Reported'
    BY <1>0, <2>1, <2>2 DEF Emptied, Reported, Late
  <2>4. Located'
    <3> SUFFICES ASSUME NEW e \in Daemons, dpc'[e] # "unborn"
                 PROVE  InSeq(e, slots') \/ InSeq(e, draining') \/ Resolved(e)'
      BY DEF Located
    <3>1. slots \in Seq(Daemons)
      BY <1>0 DEF TypeInv, TypeOK
    <3>2. CASE e = d
      BY <2>1, <3>1, <3>2, InAppend
    <3>3. CASE e # d
      <4>1. dpc'[e] = dpc[e]
        BY <1>0, <2>1, <3>3 DEF TypeInv, TypeOK
      <4>2. InSeq(e, slots) \/ InSeq(e, draining) \/ Resolved(e)
        BY <1>0, <4>1 DEF Located
      <4>3. InSeq(e, slots) => InSeq(e, slots')
        BY <2>1, <3>1, InAppend
      <4>4. Resolved(e) => Resolved(e)'
        BY <2>1, <4>1 DEF Resolved
      <4> QED BY <2>1, <4>2, <4>3, <4>4
    <3> QED BY <3>2, <3>3
  <2> QED BY <2>3, <2>4
<1>2. ASSUME ~\E d \in Daemons : SpawnDaemon(f, d)
      PROVE  /\ stop_flag => stop_flag'
             /\ UNCHANGED <<dpc, dexit, slots, draining, exits, mpc, result>>
  <2> USE DEF mainVars, daemonVars, stopVars
  <2>1. CASE \/ LeaveAtBoundary(f) \/ Reserve(f) \/ Exhausted(f) \/ EndStanza(f) \/ NextOp(f)
             \/ Dispatch(f) \/ CancelOp(f) \/ CountCycle(f) \/ SpawnFiber(f) \/ PushFiber(f)
             \/ FlagFiber(f)
    BY <2>1 DEF LeaveAtBoundary, Reserve, Exhausted, EndStanza, NextOp, Dispatch, CancelOp,
                CountCycle, SpawnFiber, PushFiber, FlagFiber
  <2>2. CASE \/ CountResult(f) \/ SpawnDaemonFails(f) \/ OpReturns(f) \/ PanicFiber(f)
             \/ PanicInOutputs(f)
    BY <2>2 DEF CountResult, SpawnDaemonFails, OpReturns, PanicFiber, PanicInOutputs
  <2> QED BY <1>2, <2>1, <2>2 DEF FiberStep
<1> QED BY <1>0, <1>1, <1>2, FateIdle

\* The daemons' steps: one that ends stays where it is until it is joined.
LEMMA FateDaemon ==
    ASSUME FateInv, NEW d \in Daemons,
           DaemonStarts(d) \/ DaemonReturns(d) \/ DaemonCancels(d) \/ DaemonPanics(d)
    PROVE  Located' /\ Emptied' /\ Reported'
<1>0. TypeInv /\ Located /\ Emptied /\ Reported
  BY DEF FateInv, CountInv
<1>1. /\ stop_flag => stop_flag'
      /\ UNCHANGED <<slots, draining, exits, mpc, result>>
      /\ dpc[d] \in {"spawned", "running"}
      /\ \A e \in Daemons \ {d} : dpc'[e] = dpc[e] /\ dexit'[e] = dexit[e]
  <2> USE <1>0 DEF mainVars, stopVars, TypeInv, TypeOK
  <2>1. CASE DaemonStarts(d)
    BY <2>1 DEF DaemonStarts
  <2>2. CASE DaemonReturns(d)
    BY <2>2 DEF DaemonReturns, DaemonEnds
  <2>3. CASE DaemonCancels(d)
    BY <2>3 DEF DaemonCancels, DaemonEnds
  <2>4. CASE DaemonPanics(d)
    BY <2>4 DEF DaemonPanics, DaemonEnds
  <2> QED BY <2>1, <2>2, <2>3, <2>4
<1>2. Located'
  <2> SUFFICES ASSUME NEW e \in Daemons, dpc'[e] # "unborn"
               PROVE  InSeq(e, slots) \/ InSeq(e, draining) \/ Resolved(e)'
    BY <1>1 DEF Located
  <2>1. InSeq(e, slots) \/ InSeq(e, draining) \/ Resolved(e)
    BY <1>0, <1>1 DEF Located
  <2>2. Resolved(e) => Resolved(e)'
    BY <1>1 DEF Resolved
  <2> QED BY <2>1, <2>2
<1>3. Emptied' /\ Reported'
  BY <1>0, <1>1 DEF Emptied, Reported, Late, Failed
<1> QED BY <1>2, <1>3

\* The steps of the task: shutdown takes the slots over, joins them one by one
\* and reports what it collected.
LEMMA FateMain ==
    ASSUME FateInv, MainStep \/ Escalate \/ WalkStop \/ DaemonStop
    PROVE  Located' /\ Emptied' /\ Reported'
<1>0. TypeInv /\ Located /\ Emptied /\ Reported
  BY DEF FateInv, CountInv
<1>1. CASE ReadFailures \/ EvaluateStop
  <2>1. /\ mpc \in {"loop", "sampled"} /\ mpc' \in {"loop", "sampled"}
        /\ UNCHANGED <<dpc, dexit, slots, draining, exits>>
    BY <1>1 DEF ReadFailures, EvaluateStop, daemonVars
  <2>2. Located'
    BY <1>0, <2>1 DEF Located, Resolved, InSeq
  <2> QED BY <1>0, <2>1, <2>2 DEF Emptied, Reported, Late
<1>2. CASE AllDrained
  <2>1. /\ mpc = "loop" /\ mpc' = "drain" /\ draining' = slots /\ slots' = <<>>
        /\ UNCHANGED <<dpc, dexit, exits>>
    BY <1>2 DEF AllDrained
  <2>2. draining = <<>>
    BY <1>0, <2>1 DEF Emptied
  <2>3. Located'
    <3> SUFFICES ASSUME NEW d \in Daemons, dpc[d] # "unborn"
                 PROVE  InSeq(d, slots) \/ Resolved(d)'
      BY <2>1 DEF Located
    <3>1. InSeq(d, slots) \/ Resolved(d)
      BY <1>0, <2>2 DEF Located, InSeq
    <3>2. Resolved(d) => Resolved(d)'
      BY <2>1 DEF Resolved
    <3> QED BY <3>1, <3>2
  <2> QED BY <2>1, <2>3 DEF Emptied, Reported, Late
<1>3. CASE SignalDaemon
  <2>1. /\ mpc = "drain" /\ mpc' = "await"
        /\ UNCHANGED <<dpc, dexit, slots, draining, exits>>
    BY <1>3 DEF SignalDaemon
  <2>2. Located'
    BY <1>0, <2>1 DEF Located, Resolved, InSeq
  <2> QED BY <1>0, <2>1, <2>2 DEF Emptied, Reported, Late
<1>4. ASSUME NEW e, CollectExit(e), mpc = "await",
             \/ e = "TimedOut"
             \/ dpc[Head(draining)] = "returned" /\ e = dexit[Head(draining)]
      PROVE  Located' /\ Emptied' /\ Reported'
  <2>1. /\ draining' = Tail(draining) /\ exits' = exits \cup {e} /\ mpc' = "drain"
        /\ UNCHANGED <<dpc, dexit, slots>>
    BY <1>4 DEF CollectExit, daemonVars
  <2>2. draining \in Seq(Daemons) /\ draining # <<>>
    BY <1>0, <1>4 DEF TypeInv, TypeOK, AwaitOK
  <2>3. Located'
    <3> SUFFICES ASSUME NEW d \in Daemons, dpc[d] # "unborn"
                 PROVE  InSeq(d, slots) \/ InSeq(d, Tail(draining)) \/ Resolved(d)'
      BY <2>1 DEF Located
    <3>1. InSeq(d, slots) \/ InSeq(d, draining) \/ Resolved(d)
      BY <1>0 DEF Located
    <3>2. Resolved(d) => Resolved(d)'
      BY <2>1 DEF Resolved
    <3>3. InSeq(d, draining) => d = Head(draining) \/ InSeq(d, Tail(draining))
      BY <2>2, InTail
    <3>4. d = Head(draining) => Resolved(d)'
      BY <1>4, <2>1 DEF Resolved
    <3> QED BY <3>1, <3>2, <3>3, <3>4
  <2> QED BY <1>0, <1>4, <2>1, <2>3 DEF Emptied, Reported, Late
<1>5. CASE JoinDaemon
  BY <1>4, <1>5 DEF JoinDaemon
<1>6. CASE GraceExpires
  BY <1>4, <1>6 DEF GraceExpires
<1>7. CASE ReportExits
  <2>1. /\ mpc = "drain" /\ mpc' = "report" /\ draining = <<>>
        /\ stop_flag' = (stop_flag \/ \E e \in exits : is_phase_error(e))
        /\ UNCHANGED <<dpc, dexit, slots, draining, exits>>
    BY <1>7 DEF ReportExits, daemonVars
  <2>2. Located'
    BY <1>0, <2>1 DEF Located, Resolved, InSeq
  <2> QED BY <1>0, <2>1, <2>2 DEF Emptied, Reported, Late, Failed
<1>8. CASE Finish
  <2>1. /\ mpc = "report" /\ mpc' = "done" /\ result' = abnormal
        /\ UNCHANGED <<dpc, dexit, slots, draining, exits>>
    BY <1>8 DEF Finish, daemonVars
  <2>2. Located'
    BY <1>0, <2>1 DEF Located, Resolved, InSeq
  <2>3. Failed => abnormal
    BY <1>0, <2>1 DEF Reported, abnormal
  <2>4. Failed' => Failed
    BY <2>1 DEF Failed
  <2> QED BY <1>0, <2>1, <2>2, <2>3, <2>4 DEF Emptied, Reported, Late
<1>9. CASE Escalate \/ WalkStop \/ DaemonStop
  <2>1. UNCHANGED <<dpc, dexit, slots, draining, exits, mpc, result, stop_flag>>
    BY <1>9 DEF Escalate, WalkStop, DaemonStop, mainVars, daemonVars
  <2> QED BY <1>0, <2>1, FateIdle
<1> QED BY <1>1, <1>2, <1>3, <1>5, <1>6, <1>7, <1>8, <1>9 DEF MainStep

\* Every step keeps track of every daemon while no fiber outlives the wait loop.
LEMMA FateStep == FateInv /\ NoneLeft /\ [Next]_vars => FateInv'
<1> SUFFICES ASSUME FateInv, NoneLeft, [Next]_vars PROVE FateInv'
  OBVIOUS
<1>1. CountInv'
  BY CountStep DEF FateInv
<1>2. Located /\ Emptied /\ Reported
  BY DEF FateInv
<1>3. CASE Next
  <2>1. Located' /\ Emptied' /\ Reported'
    BY <1>3, FateFiber, FateDaemon, FateMain DEF Next
  <2> QED BY <1>1, <2>1 DEF FateInv
<1>4. CASE UNCHANGED vars
  <2>1. UNCHANGED <<dpc, dexit, slots, draining, exits, mpc, result, stop_flag>>
    BY <1>4 DEF vars, mainVars, daemonVars, stopVars
  <2>2. Located' /\ Emptied' /\ Reported'
    BY <1>2, <2>1, FateIdle
  <2> QED BY <1>1, <2>2 DEF FateInv
<1> QED BY <1>3, <1>4

\* At the end, a daemon is unborn or its exit was collected.
LEMMA FateEnd == FateInv => CleanResultIsClean
<1> SUFFICES ASSUME FateInv, mpc = "done", ~result, NEW d \in Daemons
             PROVE  dpc[d] \in {"unborn", "returned"} /\ ~is_phase_error(dexit[d])
  BY DEF CleanResultIsClean
<1>1. ~Failed
  BY DEF FateInv, Reported
<1>2. "TimedOut" \notin exits
  BY <1>1 DEF Failed, is_phase_error
<1>3. CASE dpc[d] = "unborn"
  <2>1. dexit[d] = "none"
    BY <1>3 DEF FateInv, CountInv, Counts, Tallied
  <2> QED BY <1>3, <2>1 DEF is_phase_error
<1>4. CASE dpc[d] # "unborn"
  <2>1. slots = <<>> /\ draining = <<>>
    BY DEF FateInv, Emptied, Late
  <2>2. Resolved(d)
    BY <1>4, <2>1 DEF FateInv, Located, InSeq
  <2>3. dpc[d] = "returned" /\ dexit[d] \in exits
    BY <1>2, <2>2 DEF Resolved
  <2> QED BY <1>1, <2>3 DEF Failed
<1> QED BY <1>3, <1>4

\* In every run of an activity in which no late scale-up leaves a fiber behind
\* the wait loop, a phase reported as not stopped left no daemon running and hid
\* no daemon's failure.  (A fiber spawned and not yet recorded when the loop
\* finds the pool empty may still start a daemon nobody joins.)
THEOREM CleanUnlessLate == Spec /\ []NoneLeft => []CleanResultIsClean
<1>1. Spec /\ []NoneLeft => []FateInv
  BY FateInit, FateStep, PTL DEF Spec
<1> QED BY <1>1, FateEnd, PTL

\* A phase that keeps the fibers it starts with is one of those.
THEOREM CleanWithoutScaleUp ==
    ASSUME InitialFibers = Fibers
    PROVE  Spec => []CleanResultIsClean
<1>1. InitialFibersDrained => NoneLeft
  BY DEF InitialFibersDrained, NoneLeft, Late
<1> QED BY <1>1, InitialFibersDrain, CleanUnlessLate, PTL
=============================================================================
