------------------------------ MODULE WalkProofs ------------------------------
(***************************************************************************)
(* Proofs about the walk of a scenario, for every tree of nodes, every     *)
(* kind, limit and declared condition.  The inductive invariant is local:  *)
(* it says of a node and of its children what they may be together, and    *)
(* only one part, Carried, follows a failure along the ancestors of the    *)
(* node that holds it.  A step is of one of few shapes (a node starts      *)
(* children, moves on, ends, is joined, is dropped), so each part of the   *)
(* invariant is shown once for each shape, after each action has been      *)
(* shown to be of its shape.                                               *)
(***************************************************************************)
EXTENDS Walk, FiniteSetTheorems, TLAPS

Began == {"running", "stopping", "failing", "completed", "failed", "dwell"}

\* What a phase has done by the step it is at.
Paced ==
    \A n \in Nodes :
        /\ at[n] \in Began => n \in reached
        /\ at[n] = "dwell" => runs[n] + 1 < MaxRuns
        /\ at[n] = "failed" => children_failed > 0 /\ why # {}

\* A node that is not under way and has not failed, and a child of n that n may
\* leave or start again.
Quiet(n) == st[n] = "off" \/ (st[n] \in {"returned", "done"} /\ ~bad[n])
Rest(n, k) ==
    st[k] = "off" \/ (~bad[k] /\ (st[k] = "done" \/ (Kind[n] = "loop" /\ st[k] = "returned")))

\* Below a quiet node everything is at rest.
Calm == \A n \in Nodes : Quiet(n) => \A k \in Children[n] : Rest(n, k)

\* The children a running node has yet to start.
AheadOf(n) ==
    /\ Kind[n] = "body" /\ at[n] = "enter" => \A k \in Children[n] : st[k] = "off"
    /\ Kind[n] = "body" /\ at[n] = "dispatch" => \A i \in Left(n) : st[Kids[n][i]] = "off"
    /\ Kind[n] = "sweep" /\ at[n] \in {"enter", "permit"} =>
          \A i \in 1..Len(Kids[n]) : i >= pos[n] => st[Kids[n][i]] = "off"
    /\ Kind[n] = "loop" /\ at[n] = "enter" => \A k \in Children[n] : Rest(n, k)
Ahead == \A n \in Nodes : st[n] = "run" => AheadOf(n)

\* What has returned has joined its children, unless its gate failed; that is a
\* failure no shell recorded, and nothing is dropped without one.
ChildOver(n, k) == st[k] \in {"off", "done"} \/ (Kind[n] = "loop" /\ st[k] = "returned")
Joins(n) == GaveUp(n) \/ \A k \in Children[n] : ChildOver(n, k)
Nested ==
    /\ \A n \in Nodes : st[n] \in {"returned", "done"} => Joins(n)
    /\ \A n \in Nodes :
          st[n] = "dropped" \/ (st[n] \in {"returned", "done"} /\ GaveUp(n)) => "unrecorded" \in why

\* While a counted failure has not stopped the walk, a phase is about to evaluate.
Evaluating(n) == n \in Phases /\ st[n] = "run" /\ at[n] \in {"failed", "completed"}
Halting == children_failed > 0 /\ ~walk_stop => \E n \in Nodes : Evaluating(n)

\* A failed outcome has a reason, and one that was recorded has stopped the walk.
Blamed == \A n \in Nodes : bad[n] => why # {} /\ ("unrecorded" \in why \/ walk_stop)

\* Where children run one at a time, those before a started one are over.
SerialAt(n) ==
    \A i, j \in 1..Len(Kids[n]) :
        i < j /\ {Kids[n][i], Kids[n][j]} \cap Daemons = {} /\ st[Kids[n][j]] # "off" =>
            st[Kids[n][i]] # "run" /\ ("unrecorded" \notin why => ~bad[Kids[n][i]])
Serial == \A n \in Nodes : Kind[n] = "body" /\ Limit[n] = 1 => SerialAt(n)

\* Without a failure and a stop, a node that is over has been through all its
\* children, unless it is one that may leave some out.
Excused(n) == (Kind[n] = "sweep" /\ at[n] = "drain") \/ (Kind[n] = "loop" /\ runs[n] = 0)
Through(n) ==
    /\ n \in Phases => n \in reached
    /\ Excused(n) \/ \A k \in Children[n] : st[k] \in {"returned", "done"}
Sofar(n) ==
    /\ Kind[n] = "body" =>
          /\ at[n] # "drain"
          /\ at[n] # "enter" => \A k \in Children[n] \cap Daemons : st[k] # "off"
          /\ at[n] = "dispatch" => \A i \in (1..Len(Kids[n])) \ Left(n) : st[Kids[n][i]] # "off"
          /\ at[n] = "daemons" => \A k \in Children[n] : st[k] # "off"
    /\ Kind[n] = "sweep" /\ at[n] \in {"enter", "permit"} =>
          \A i \in 1..Len(Kids[n]) : i < pos[n] => st[Kids[n][i]] # "off"
    /\ Kind[n] = "loop" /\ at[n] = "enter" /\ runs[n] > 0 =>
          \A k \in Children[n] : st[k] = "returned"
Visited ==
    why = {} /\ ~walk_stop =>
        \A n \in Nodes :
            /\ st[n] = "run" => Sofar(n)
            /\ st[n] \in {"returned", "done"} => Through(n)

\* Once a unit has failed, some node holds a failure that nothing between it and
\* the root has returned over yet.
Holds(n) ==
    \/ st[n] \in {"returned", "done"} /\ bad[n]
    \/ st[n] = "run" /\ at[n] = "failed"
Carried ==
    why # {} => \E n \in Nodes : Holds(n) /\ \A a \in Above[n] : st[a] = "run"

Core == Calm /\ Ahead /\ Nested /\ Halting /\ Blamed /\ Serial /\ Visited /\ Carried
Inv == TypeOK /\ Paced /\ Core

-----------------------------------------------------------------------------
\* The tree

\* The children of a node are the ones it lists, each at one position.
LEMMA Lists ==
    ASSUME NEW n \in Nodes
    PROVE  /\ Children[n] \in SUBSET Nodes /\ Len(Kids[n]) \in Nat
           /\ \A i \in 1..Len(Kids[n]) : Kids[n][i] \in Children[n]
           /\ \A k \in Children[n] : \E i \in 1..Len(Kids[n]) : k = Kids[n][i]
           /\ \A i, j \in 1..Len(Kids[n]) : Kids[n][i] = Kids[n][j] => i = j
<1>1. Kids[n] \in Seq(Nodes)
  BY WalkAssumption DEF WalkAssumption
<1>2. Len(Kids[n]) \in Nat /\ DOMAIN Kids[n] = 1..Len(Kids[n])
      /\ \A i \in 1..Len(Kids[n]) : Kids[n][i] \in Nodes
  BY <1>1
<1>3. Children[n] = {Kids[n][i] : i \in 1..Len(Kids[n])}
  BY <1>2 DEF Children, Range
<1>4. IsInjective(Kids[n])
  BY TreeAssumption DEF TreeAssumption
<1>5. \A i, j \in 1..Len(Kids[n]) : Kids[n][i] = Kids[n][j] => i = j
  BY <1>2, <1>4 DEF IsInjective
<1> QED BY <1>2, <1>3, <1>5

\* A child has the one parent, and the root none.
LEMMA Parents ==
    /\ \A n \in Nodes : \A k \in Children[n] : k \in Nodes /\ k # Root /\ Parent[k] = n
    /\ \A k \in Nodes \ {Root} : Parent[k] \in Nodes /\ k \in Children[Parent[k]]
<1>1. \A n \in Nodes : Children[n] = Range(Kids[n])
  BY DEF Children
<1>2. \A n \in Nodes : Root \notin Children[n] /\ Children[n] \in SUBSET Nodes
  BY <1>1, Lists, TreeAssumption DEF TreeAssumption
<1>3. ASSUME NEW k \in Nodes \ {Root}
      PROVE  /\ Parent[k] \in Nodes /\ k \in Children[Parent[k]]
             /\ \A q \in Nodes : k \in Children[q] => q = Parent[k]
  <2>1. PICK p \in Nodes : k \in Children[p] /\ \A q \in Nodes : k \in Children[q] => q = p
    BY <1>1, TreeAssumption DEF TreeAssumption
  <2>2. Parent[k] = CHOOSE q \in Nodes : k \in Children[q]
    BY DEF Parent
  <2> QED BY <2>1, <2>2
<1> QED BY <1>2, <1>3

\* Any set of nodes has one whose parent is not in it.
LEMMA Founded ==
    ASSUME NEW S \in SUBSET Nodes, S # {}
    PROVE  \E x \in S : \A m \in S : x \notin Children[m]
<1>1. \A m \in Nodes : Children[m] = Range(Kids[m])
  BY DEF Children
<1>2. S \in (SUBSET Nodes) \ {{}}
  OBVIOUS
<1>3. PICK x \in S : \A m \in S : x \notin Range(Kids[m])
  BY <1>2, TreeAssumption DEF TreeAssumption
<1> QED BY <1>1, <1>3

\* No node is below itself; the assumption says so of every set, here it is
\* used for a node and for a node and its child.
LEMMA NoCycle ==
    ASSUME NEW n \in Nodes, NEW k \in Children[n]
    PROVE  k # n /\ n \notin Children[k]
<1>0. k \in Nodes
  BY Parents
<1>1. k # n
  <2>1. {n} \in SUBSET Nodes /\ {n} # {}
    OBVIOUS
  <2>2. \E x \in {n} : \A m \in {n} : x \notin Children[m]
    BY <2>1, Founded
  <2> QED BY <2>2
<1>2. n \notin Children[k]
  <2>1. {n, k} \in SUBSET Nodes /\ {n, k} # {}
    BY <1>0
  <2>2. \E x \in {n, k} : \A m \in {n, k} : x \notin Children[m]
    BY <2>1, Founded
  <2> QED BY <2>2
<1> QED BY <1>1, <1>2

\* A phase is a leaf, and the kinds are apart.
LEMMA Leaves == \A n \in Phases : n \in Nodes /\ Children[n] = {} /\ Kind[n] = "phase" /\ n # Root
<1> SUFFICES ASSUME NEW n \in Phases
             PROVE  n \in Nodes /\ Children[n] = {} /\ Kind[n] = "phase" /\ n # Root
  OBVIOUS
<1>1. n \in Nodes /\ Kind[n] = "phase"
  BY DEF Phases
<1>2. n # Root
  BY <1>1, WalkAssumption DEF WalkAssumption
<1>3. Kids[n] = <<>>
  BY <1>1, TreeAssumption DEF TreeAssumption
<1>4. Len(Kids[n]) = 0
  BY <1>3
<1>5. Children[n] = {}
  BY <1>1, <1>4, Lists
<1> QED BY <1>1, <1>2, <1>5

\* A loop has its one body.
LEMMA Bodies == \A n \in Nodes : Kind[n] = "loop" => Children[n] = {Kids[n][1]}
<1> SUFFICES ASSUME NEW n \in Nodes, Kind[n] = "loop" PROVE Children[n] = {Kids[n][1]}
  OBVIOUS
<1>1. Len(Kids[n]) = 1
  BY WalkAssumption DEF WalkAssumption
<1> QED BY <1>1, Lists

\* The ancestors of a node: its parent and those of its parent, up to the root,
\* and never the node itself.
LEMMA Ancestors ==
    ASSUME NEW n \in Nodes
    PROVE  /\ Above[n] \in SUBSET Nodes /\ HoldsParents(Above[n])
           /\ n # Root => Parent[n] \in Above[n] /\ Root \in Above[n]
           /\ n = Root => Above[n] = {}
<1> DEFINE Up(S) == HoldsParents(S) /\ (n # Root => Parent[n] \in S)
<1>0. Above[n] = {a \in Nodes : \A S \in SUBSET Nodes : Up(S) => a \in S}
  BY DEF Above
<1>1. Above[n] \in SUBSET Nodes /\ \A a \in Above[n] : \A S \in SUBSET Nodes : Up(S) => a \in S
  BY <1>0
<1>2. HoldsParents(Above[n])
  <2> SUFFICES ASSUME NEW m \in Above[n] \ {Root} PROVE Parent[m] \in Above[n]
    BY DEF HoldsParents
  <2>1. Parent[m] \in Nodes
    BY <1>1, Parents
  <2>2. ASSUME NEW S \in SUBSET Nodes, Up(S) PROVE Parent[m] \in S
    <3>1. m \in S
      BY <1>1, <2>2
    <3> QED BY <2>2, <3>1 DEF HoldsParents
  <2> QED BY <1>0, <2>1, <2>2
<1>3. ASSUME n # Root PROVE Parent[n] \in Above[n]
  <2>1. Parent[n] \in Nodes
    BY <1>3, Parents
  <2> QED BY <1>0, <1>3, <2>1
<1>4. ASSUME n # Root PROVE Root \in Above[n]
  <2> SUFFICES ASSUME Root \notin Above[n] PROVE FALSE
    OBVIOUS
  <2>1. Above[n] # {} /\ \A m \in Above[n] : Parent[m] \in Above[n] /\ m \in Children[Parent[m]]
    BY <1>1, <1>2, <1>3, <1>4, Parents DEF HoldsParents
  <2>2. \E x \in Above[n] : \A m \in Above[n] : x \notin Children[m]
    BY <1>1, <2>1, Founded
  <2> QED BY <2>1, <2>2
<1>5. ASSUME n = Root PROVE Above[n] = {}
  <2>1. Up({})
    BY <1>5 DEF HoldsParents
  <2> QED BY <1>1, <2>1
<1> QED BY <1>1, <1>2, <1>3, <1>4, <1>5

\* The ancestors of an ancestor are ancestors, but none is one of its own.
LEMMA Chain ==
    ASSUME NEW n \in Nodes, NEW a \in Above[n]
    PROVE  Above[a] \subseteq Above[n] /\ a \notin Above[a]
<1>0. a \in Nodes
  BY Ancestors
<1>1. ASSUME NEW m \in Nodes, NEW b \in Above[m] PROVE Above[b] \subseteq Above[m]
  <2>1. b \in Nodes /\ Above[m] \in SUBSET Nodes /\ HoldsParents(Above[m])
    BY <1>1, Ancestors
  <2>2. b # Root => Parent[b] \in Above[m]
    BY <1>1, <2>1 DEF HoldsParents
  <2>3. ASSUME NEW c \in Above[b] PROVE c \in Above[m]
    BY <2>1, <2>2, <2>3 DEF Above
  <2> QED BY <2>3
<1>2. a \notin Above[a]
  <2> SUFFICES ASSUME a \in Above[a] PROVE FALSE
    OBVIOUS
  <2> DEFINE C == {m \in Nodes : a \in Above[m] /\ m \in Above[a]}
  <2>1. a \in C
    BY <1>0
  <2>2. ASSUME NEW m \in C PROVE Parent[m] \in C /\ m \in Children[Parent[m]]
    <3>1. m # Root
      BY <2>2, Ancestors
    <3>2. Parent[m] \in Nodes /\ m \in Children[Parent[m]]
      BY <2>2, <3>1, Parents
    <3>3. Parent[m] \in Above[a]
      BY <1>0, <2>2, <3>1, Ancestors DEF HoldsParents
    <3>4. a \in Above[Parent[m]]
      <4> DEFINE S == Above[Parent[m]] \cup {Parent[m]}
      <4>1. S \in SUBSET Nodes /\ Parent[m] \in S /\ HoldsParents(S)
        BY <3>2, Ancestors DEF HoldsParents
      <4>2. a \in S
        BY <2>2, <4>1 DEF Above
      <4>3. CASE a = Parent[m]
        BY <4>3
      <4> QED BY <4>2, <4>3
    <3> QED BY <3>2, <3>3, <3>4
  <2>3. C \in SUBSET Nodes
    OBVIOUS
  <2> HIDE DEF C
  <2>4. \E x \in C : \A m \in C : x \notin Children[m]
    BY <2>1, <2>3, Founded
  <2> QED BY <2>2, <2>4
<1> QED BY <1>0, <1>1, <1>2

\* From an ancestor a child leads down to the node.
LEMMA Descends ==
    ASSUME NEW n \in Nodes, NEW a \in Above[n]
    PROVE  \E k \in Children[a] : k = n \/ k \in Above[n]
<1>1. a \in Nodes /\ Above[n] \in SUBSET Nodes /\ HoldsParents(Above[n]) /\ n # Root
      /\ Parent[n] \in Above[n]
  BY Ancestors
<1> SUFFICES ASSUME \A k \in Children[a] : k # n /\ k \notin Above[n] PROVE FALSE
  OBVIOUS
<1> DEFINE S == Above[n] \ {a}
<1>2. Parent[n] \in S
  BY <1>1, Parents
<1>3. HoldsParents(S)
  BY <1>1, Parents DEF HoldsParents
<1>4. S \in SUBSET Nodes
  BY <1>1
<1>5. a \in S
  <2> HIDE DEF S
  <2> QED BY <1>2, <1>3, <1>4 DEF Above
<1> QED BY <1>5

-----------------------------------------------------------------------------
\* Types, and what a phase has done by the step it is at

\* What starting, moving and returning do to the types of the tasks.
TaskTypes ==
    /\ st \in [Nodes -> {"off", "run", "returned", "done", "dropped"}]
    /\ at \in [Nodes -> {"enter", "dispatch", "drain", "daemons", "permit", "pass", "running",
                         "stopping", "failing", "completed", "failed", "dwell"}]
    /\ pos \in [Nodes -> Nat \ {0}] /\ runs \in [Nodes -> 0..MaxRuns] /\ bad \in [Nodes -> BOOLEAN]

RestTypes ==
    /\ reached \subseteq Phases /\ noted \subseteq reached
    /\ children_failed \in Nat /\ children_done \in Nat
    /\ {walk_stop, session_stop, graceful_stop, fault_stop} \subseteq BOOLEAN
    /\ why \subseteq {"recorded", "unrecorded"}

\* The type invariant in these two halves, before and after a step.
LEMMA Halves == (TypeOK <=> TaskTypes /\ RestTypes) /\ (TypeOK' <=> TaskTypes' /\ RestTypes')
BY DEF TypeOK, TaskTypes, RestTypes

\* The bounds and the constants the steps use.
LEMMA Constants ==
    /\ MaxRuns \in Nat \ {0} /\ Root \in Nodes /\ Kind[Root] = "body"
    /\ StopAfter \in Nat /\ StopEffect \in {"stop", "fail"}
    /\ Daemons \in SUBSET Phases /\ Repeated \in SUBSET Phases
    /\ \A n \in Nodes : Kind[n] \in {"phase", "body", "sweep", "loop"} /\ Limit[n] \in Nat
BY WalkAssumption DEF WalkAssumption, Phases

\* A step into which a node moves by itself.
Steps == {"enter", "dispatch", "drain", "daemons", "permit", "pass", "running",
          "stopping", "failing", "completed", "failed", "dwell"}

\* Starting tasks keeps the types.
LEMMA TypeStart ==
    ASSUME TaskTypes, NEW n \in Nodes, NEW K, NEW s \in Steps, NEW p \in Nat \ {0}, NEW r \in 0..MaxRuns,
           Start(n, K, s, p, r)
    PROVE  TaskTypes'
<1> DEFINE fresh == K \cup UNION {Children[k] : k \in K}
<1>1. /\ st' = [m \in Nodes |-> IF m \in K THEN "run" ELSE IF m \in fresh THEN "off" ELSE st[m]]
      /\ at' = [m \in Nodes |-> IF m = n THEN s ELSE IF m \in fresh THEN "enter" ELSE at[m]]
      /\ pos' = [m \in Nodes |-> IF m = n THEN p ELSE IF m \in fresh THEN 1 ELSE pos[m]]
      /\ runs' = [m \in Nodes |-> IF m = n THEN r ELSE IF m \in fresh THEN 0 ELSE runs[m]]
      /\ bad' = [m \in Nodes |-> IF m \in fresh THEN FALSE ELSE bad[m]]
  BY DEF Start
<1>2. MaxRuns \in Nat \ {0}
  BY Constants
<1> HIDE DEF fresh
<1>3. st' \in [Nodes -> {"off", "run", "returned", "done", "dropped"}]
  BY <1>1 DEF TaskTypes
<1>4. at' \in [Nodes -> Steps]
  BY <1>1 DEF TaskTypes, Steps
<1>5. pos' \in [Nodes -> Nat \ {0}] /\ runs' \in [Nodes -> 0..MaxRuns]
  BY <1>1, <1>2 DEF TaskTypes
<1>6. bad' \in [Nodes -> BOOLEAN]
  BY <1>1, Zenon DEF TaskTypes
<1> QED BY <1>3, <1>4, <1>5, <1>6 DEF TaskTypes, Steps

\* So do moving on,
LEMMA TypeGoto ==
    ASSUME TaskTypes, NEW n \in Nodes, NEW s \in Steps, Goto(n, s)
    PROVE  TaskTypes'
BY DEF TaskTypes, Steps, Goto

\* and returning.
LEMMA TypeReturn ==
    ASSUME TaskTypes, NEW n \in Nodes, NEW b \in BOOLEAN, Return(n, b), UNCHANGED <<at, pos, runs>>
    PROVE  TaskTypes'
<1>1. bad' \in [Nodes -> BOOLEAN]
  BY Zenon DEF TaskTypes, Return
<1>2. st' \in [Nodes -> {"off", "run", "returned", "done", "dropped"}]
  BY DEF TaskTypes, Return
<1> QED BY <1>1, <1>2 DEF TaskTypes

\* The steps of bodies, sweeps and loops.
LEMMA TypeInner ==
    ASSUME TypeOK, NEW n \in Nodes, BodyStep(n) \/ SweepStep(n) \/ LoopStep(n)
    PROVE  TypeOK'
<1>0. TaskTypes /\ RestTypes
  BY Halves
<1> USE DEF Steps
<1>1. MaxRuns \in Nat \ {0} /\ 1 \in Nat \ {0} /\ 0 \in 0..MaxRuns
  BY Constants
<1>2. \A m \in Nodes : runs[m] \in 0..MaxRuns /\ pos[m] \in Nat \ {0}
  BY <1>0 DEF TaskTypes
<1>3. CASE BodyStep(n)
  <2>1. RestTypes'
    BY <1>0, <1>3 DEF BodyStep, BodyStopped, BodyEnter, Dispatch, HaltDispatch, ForegroundDone,
                      BodyReturns, RestTypes, shell_vars, flag_vars
  <2>2. CASE BodyStopped(n) \/ BodyReturns(n)
    BY <1>0, <2>1, <2>2, TypeReturn, Halves DEF BodyStopped, BodyReturns, Failing
  <2>3. CASE BodyEnter(n)
    BY <1>0, <1>1, <2>1, <2>3, TypeStart, Halves DEF BodyEnter
  <2>4. CASE Dispatch(n)
    <3>1. PICK i \in Left(n) : Start(n, {Kids[n][i]}, "dispatch", i + 1, 0)
      BY <2>4 DEF Dispatch
    <3>2. i + 1 \in Nat \ {0}
      BY Lists DEF Left
    <3> QED BY <1>0, <1>1, <2>1, <3>1, <3>2, TypeStart, Halves
  <2>5. CASE HaltDispatch(n) \/ ForegroundDone(n)
    BY <1>0, <2>1, <2>5, TypeGoto, Halves DEF HaltDispatch, ForegroundDone
  <2> QED BY <1>3, <2>2, <2>3, <2>4, <2>5 DEF BodyStep
<1>4. CASE SweepStep(n)
  <2>1. RestTypes'
    <3>1. CASE GateHalts(n)
      <4>1. {walk_stop', session_stop', graceful_stop', fault_stop'} \subseteq BOOLEAN
        BY <1>0, <3>1, Zenon DEF GateHalts, RestTypes
      <4> QED BY <1>0, <3>1, <4>1 DEF GateHalts, RestTypes
    <3>2. CASE ~GateHalts(n)
      BY <1>0, <1>4, <3>2 DEF SweepStep, GateHolds, GateFails, SweepDispatch, SweepHalted,
                         SweepReturns, RestTypes, shell_vars, flag_vars
    <3> QED BY <3>1, <3>2
  <2>2. CASE GateHolds(n) \/ GateHalts(n) \/ SweepHalted(n)
    BY <1>0, <2>1, <2>2, TypeGoto, Halves DEF GateHolds, GateHalts, SweepHalted
  <2>3. CASE GateFails(n) \/ SweepReturns(n)
    BY <1>0, <2>1, <2>3, TypeReturn, Halves DEF GateFails, SweepReturns, Failing
  <2>4. CASE SweepDispatch(n)
    <3>1. pos[n] + 1 \in Nat \ {0}
      BY <1>2
    <3> QED BY <1>0, <1>1, <2>1, <2>4, <3>1, TypeStart, Halves DEF SweepDispatch
  <2> QED BY <1>4, <2>2, <2>3, <2>4 DEF SweepStep
<1>5. CASE LoopStep(n)
  <2>1. RestTypes'
    BY <1>0, <1>5 DEF LoopStep, LoopPass, LoopEnds, LoopFails, LoopBack, LoopBroken,
                      RestTypes, shell_vars, flag_vars
  <2>2. CASE LoopPass(n)
    <3>1. runs[n] + 1 \in 0..MaxRuns
      BY <1>1, <1>2, <2>2 DEF LoopPass
    <3> QED BY <1>0, <1>1, <2>1, <2>2, <3>1, TypeStart, Halves DEF LoopPass
  <2>3. CASE LoopEnds(n) \/ LoopFails(n) \/ LoopBroken(n)
    BY <1>0, <2>1, <2>3, TypeReturn, Halves DEF LoopEnds, LoopFails, LoopBroken
  <2>4. CASE LoopBack(n)
    BY <1>0, <2>1, <2>4, TypeGoto, Halves DEF LoopBack
  <2> QED BY <1>5, <2>2, <2>3, <2>4 DEF LoopStep
<1> QED BY <1>3, <1>4, <1>5

\* What the walk records only grows.
Grows ==
    /\ reached \subseteq reached' /\ why \subseteq why'
    /\ children_failed > 0 => children_failed' > 0
    /\ walk_stop => walk_stop'

\* A step keeps the pace that moves at most one node on.
LEMMA PacedStep ==
    ASSUME Paced, Grows, NEW n \in Nodes,
           \A m \in Nodes : m = n \/ at'[m] = "enter" \/ (at'[m] = at[m] /\ runs'[m] = runs[m]),
           \/ at'[n] \notin Began
           \/ at'[n] = at[n] /\ runs'[n] = runs[n]
           \/ /\ n \in reached'
              /\ at'[n] = "dwell" => runs'[n] + 1 < MaxRuns
              /\ at'[n] = "failed" => children_failed' > 0 /\ why' # {}
    PROVE  Paced'
<1> SUFFICES ASSUME NEW m \in Nodes
             PROVE  /\ at'[m] \in Began => m \in reached'
                    /\ at'[m] = "dwell" => runs'[m] + 1 < MaxRuns
                    /\ at'[m] = "failed" => children_failed' > 0 /\ why' # {}
  BY DEF Paced
<1>1. why # {} => why' # {}
  BY DEF Grows
<1>2. CASE at'[m] = at[m] /\ runs'[m] = runs[m]
  BY <1>1, <1>2 DEF Paced, Grows
<1>3. CASE at'[m] \notin Began
  BY <1>3 DEF Began
<1> QED BY <1>2, <1>3 DEF Began

\* The steps of phases.
LEMMA TypePhase ==
    ASSUME TypeOK, Paced, NEW n \in Nodes,
           PhaseBegins(n) \/ ConditionTrips(n) \/ PhaseEnds(n) \/ PhaseReturns(n)
    PROVE  TypeOK' /\ Paced' /\ Grows
<1>0. TaskTypes /\ RestTypes
  BY Halves
<1> USE DEF Steps
<1>1. MaxRuns \in Nat \ {0} /\ runs[n] \in 0..MaxRuns /\ children_failed \in Nat /\ children_done \in Nat
  BY <1>0, Constants DEF TaskTypes, RestTypes
<1>2. n \in Phases
  BY DEF Phases, Running, PhaseBegins, PhaseSkips, EarlyFails, EarlyFailsAgain, PhaseStarts,
         ConditionTrips, PhaseEnds, PhaseCompletes, PhaseFails, Panics, PhaseReturns,
         FailureEvaluated, CompletionFails, CompletionEvaluated, RunAgain, DwellCut
<1>3. at[n] \in Began => n \in reached
  BY DEF Paced
<1>4. ASSUME NEW s \in Steps, Goto(n, s)
      PROVE  /\ at'[n] = s /\ runs' = runs
             /\ \A m \in Nodes : m = n \/ (at'[m] = at[m] /\ runs'[m] = runs[m])
  BY <1>0, <1>4 DEF Goto, TaskTypes
<1>5. ASSUME Succeed(n)
      PROVE  /\ TaskTypes'
             /\ \A m \in Nodes : m = n \/ (at'[m] = at[m] /\ runs'[m] = runs[m])
             /\ (at'[n] = at[n] /\ runs'[n] = runs[n])
                \/ (at'[n] = "dwell" /\ runs'[n] + 1 < MaxRuns)
  <2>1. CASE Again(n) /\ Goto(n, "dwell")
    BY <1>0, <1>4, <2>1, TypeGoto DEF Again
  <2>2. CASE Return(n, FALSE) /\ UNCHANGED <<at, pos, runs>>
    BY <1>0, <2>2, TypeReturn
  <2> QED BY <1>5, <2>1, <2>2 DEF Succeed
<1>6. CASE PhaseSkips(n)
  <2>1. Succeed(n) /\ reached' = reached \cup {n}
        /\ UNCHANGED <<noted, children_failed, children_done, walk_stop, session_stop, graceful_stop,
                       fault_stop, why>>
    BY <1>6 DEF PhaseSkips, shell_vars, flag_vars
  <2>2. RestTypes' /\ Grows
    BY <1>0, <1>2, <2>1 DEF RestTypes, Grows
  <2>3. Paced'
    BY <1>5, <2>1, <2>2, PacedStep DEF Began
  <2> QED BY <1>5, <2>1, <2>2, <2>3, Halves
<1>7. CASE EarlyFails(n)
  <2>1. /\ Goto(n, "failed") /\ reached' = reached \cup {n} /\ noted' = noted \cup {n}
        /\ children_failed' = children_failed + 1 /\ why' = why \cup {"recorded"}
        /\ UNCHANGED <<children_done, walk_stop, session_stop, graceful_stop, fault_stop>>
    BY <1>7 DEF EarlyFails, flag_vars
  <2>2. RestTypes' /\ Grows
    BY <1>0, <1>1, <1>2, <2>1 DEF RestTypes, Grows
  <2>3. children_failed' > 0 /\ why' # {}
    BY <1>1, <2>1
  <2>4. Paced'
    BY <1>4, <2>1, <2>2, <2>3, PacedStep
  <2> QED BY <1>0, <2>1, <2>2, <2>4, TypeGoto, Halves
<1>8. CASE EarlyFailsAgain(n)
  <2>1. /\ Return(n, TRUE) /\ UNCHANGED <<at, pos, runs>> /\ why' = why \cup {"unrecorded"}
        /\ UNCHANGED <<reached, noted, children_failed, children_done, walk_stop, session_stop,
                       graceful_stop, fault_stop>>
    BY <1>8 DEF EarlyFailsAgain, shell_vars, flag_vars
  <2>2. RestTypes' /\ Grows
    BY <1>0, <2>1 DEF RestTypes, Grows
  <2>3. Paced'
    BY <2>1, <2>2, PacedStep
  <2> QED BY <1>0, <2>1, <2>2, <2>3, TypeReturn, Halves
<1>9. CASE PhaseStarts(n)
  <2>1. /\ Goto(n, "running") /\ reached' = reached \cup {n}
        /\ UNCHANGED <<noted, children_failed, children_done, walk_stop, session_stop,
                       graceful_stop, fault_stop, why>>
    BY <1>9 DEF PhaseStarts, shell_vars, flag_vars
  <2>2. RestTypes' /\ Grows
    BY <1>0, <1>2, <2>1 DEF RestTypes, Grows
  <2>3. Paced'
    BY <1>4, <2>1, <2>2, PacedStep
  <2> QED BY <1>0, <2>1, <2>2, <2>3, TypeGoto, Halves
<1>10. CASE ConditionTrips(n)
  <2>1. PICK s \in {"stopping", "failing"} : Goto(n, s)
    BY <1>10 DEF ConditionTrips
  <2>2. /\ at[n] = "running" /\ walk_stop' = (walk_stop \/ StopScope # "phase")
        /\ session_stop' = (session_stop \/ StopScope = "workload")
        /\ UNCHANGED <<reached, noted, children_failed, children_done, graceful_stop, fault_stop, why>>
    BY <1>10 DEF ConditionTrips, Running
  <2>3. {walk_stop', session_stop', graceful_stop', fault_stop'} \subseteq BOOLEAN
    BY <1>0, <2>2, Zenon DEF RestTypes
  <2>4. RestTypes' /\ Grows
    BY <1>0, <2>2, <2>3 DEF RestTypes, Grows
  <2>5. Paced'
    BY <1>3, <1>4, <2>1, <2>2, <2>4, PacedStep DEF Began
  <2> QED BY <1>0, <2>1, <2>4, <2>5, TypeGoto, Halves
<1>11. CASE PhaseCompletes(n)
  <2>1. /\ at[n] \in Began /\ Goto(n, "completed") /\ noted' = noted \cup {n}
        /\ children_done' = children_done + 1
        /\ UNCHANGED <<reached, children_failed, walk_stop, session_stop, graceful_stop, fault_stop, why>>
    BY <1>11 DEF PhaseCompletes, Running, Began, flag_vars
  <2>2. RestTypes' /\ Grows
    BY <1>0, <1>1, <1>3, <2>1 DEF RestTypes, Grows
  <2>3. Paced'
    BY <1>3, <1>4, <2>1, <2>2, PacedStep
  <2> QED BY <1>0, <2>1, <2>2, <2>3, TypeGoto, Halves
<1>12. CASE PhaseFails(n)
  <2>1. /\ at[n] \in Began /\ Goto(n, "failed") /\ noted' = noted \cup {n}
        /\ children_failed' = children_failed + 1 /\ why' = why \cup {"recorded"}
        /\ UNCHANGED <<reached, children_done, walk_stop, session_stop, graceful_stop, fault_stop>>
    BY <1>12 DEF PhaseFails, Running, Began, flag_vars
  <2>2. RestTypes' /\ Grows
    BY <1>0, <1>1, <1>3, <2>1 DEF RestTypes, Grows
  <2>3. children_failed' > 0 /\ why' # {}
    BY <1>1, <2>1
  <2>4. Paced'
    BY <1>3, <1>4, <2>1, <2>2, <2>3, PacedStep
  <2> QED BY <1>0, <2>1, <2>2, <2>4, TypeGoto, Halves
<1>13. CASE Panics(n)
  <2>1. /\ st' = [st EXCEPT ![n] = "returned"] /\ bad' = [bad EXCEPT ![n] = TRUE]
        /\ why' = why \cup {"unrecorded"}
        /\ UNCHANGED <<at, pos, runs, reached, noted, children_failed, children_done, walk_stop,
                       session_stop, graceful_stop, fault_stop>>
    BY <1>13 DEF Panics, Return, shell_vars, flag_vars
  <2>2. RestTypes' /\ Grows
    BY <1>0, <2>1 DEF RestTypes, Grows
  <2>3. Paced'
    BY <2>1, <2>2, PacedStep
  <2>4. bad' \in [Nodes -> BOOLEAN]
    BY <1>0, <2>1, Zenon DEF TaskTypes
  <2>5. TaskTypes'
    BY <1>0, <2>1, <2>4 DEF TaskTypes
  <2> QED BY <2>2, <2>3, <2>5, Halves
<1>14. CASE FailureEvaluated(n) \/ CompletionFails(n)
  <2>1. /\ Return(n, TRUE) /\ walk_stop' \in BOOLEAN /\ fault_stop' \in BOOLEAN
        /\ graceful_stop' \in BOOLEAN /\ (walk_stop => walk_stop')
        /\ why' \in {why, why \cup {"recorded"}}
        /\ UNCHANGED <<at, pos, runs, reached, noted, children_failed, children_done, session_stop>>
    BY <1>0, <1>14, Zenon DEF FailureEvaluated, CompletionFails, flag_vars, RestTypes
  <2>2. RestTypes' /\ Grows
    BY <1>0, <2>1 DEF RestTypes, Grows
  <2>3. Paced'
    BY <2>1, <2>2, PacedStep
  <2> QED BY <1>0, <2>1, <2>2, <2>3, TypeReturn, Halves
<1>15. CASE CompletionEvaluated(n)
  <2>1. /\ Succeed(n) /\ walk_stop' = (walk_stop \/ Trip = "stop")
        /\ graceful_stop' = (graceful_stop \/ Trip = "stop")
        /\ UNCHANGED <<reached, noted, children_failed, children_done, session_stop, fault_stop, why>>
    BY <1>15 DEF CompletionEvaluated
  <2>2. {walk_stop', session_stop', graceful_stop', fault_stop'} \subseteq BOOLEAN
    BY <1>0, <2>1, Zenon DEF RestTypes
  <2>3. RestTypes' /\ Grows
    BY <1>0, <2>1, <2>2 DEF RestTypes, Grows
  <2>4. n \in reached'
    BY <1>3, <1>15, <2>1 DEF CompletionEvaluated, Running, Began
  <2>5. Paced'
    BY <1>5, <2>1, <2>3, <2>4, PacedStep
  <2> QED BY <1>5, <2>1, <2>3, <2>5, Halves
<1>16. CASE RunAgain(n)
  <2>1. /\ at[n] = "dwell" /\ at' = [at EXCEPT ![n] = "enter"] /\ runs' = [runs EXCEPT ![n] = @ + 1]
        /\ UNCHANGED <<st, pos, bad, reached, noted, children_failed, children_done, walk_stop,
                       session_stop, graceful_stop, fault_stop, why>>
    BY <1>16 DEF RunAgain, Running, shell_vars, flag_vars
  <2>2. runs[n] + 1 < MaxRuns
    BY <2>1 DEF Paced
  <2>3. TaskTypes'
    BY <1>0, <1>1, <2>1, <2>2 DEF TaskTypes
  <2>4. RestTypes' /\ Grows
    BY <1>0, <2>1 DEF RestTypes, Grows
  <2>5. at'[n] = "enter" /\ \A m \in Nodes : m = n \/ (at'[m] = at[m] /\ runs'[m] = runs[m])
    BY <1>0, <2>1 DEF TaskTypes
  <2>6. Paced'
    BY <2>4, <2>5, PacedStep DEF Began
  <2> QED BY <2>3, <2>4, <2>6, Halves
<1>17. CASE DwellCut(n)
  <2>1. /\ Return(n, FALSE) /\ UNCHANGED <<at, pos, runs>>
        /\ UNCHANGED <<reached, noted, children_failed, children_done, walk_stop, session_stop,
                       graceful_stop, fault_stop, why>>
    BY <1>17 DEF DwellCut, shell_vars, flag_vars
  <2>2. RestTypes' /\ Grows
    BY <1>0, <2>1 DEF RestTypes, Grows
  <2>3. Paced'
    BY <2>1, <2>2, PacedStep
  <2> QED BY <1>0, <2>1, <2>2, <2>3, TypeReturn, Halves
<1> QED BY <1>6, <1>7, <1>8, <1>9, <1>10, <1>11, <1>12, <1>13, <1>14, <1>15, <1>16, <1>17
        DEF PhaseBegins, PhaseEnds, PhaseReturns

\* The steps of bodies, sweeps and loops touch no phase but those they start.
LEMMA PacedInner ==
    ASSUME TypeOK, Paced, NEW n \in Nodes, BodyStep(n) \/ SweepStep(n) \/ LoopStep(n)
    PROVE  Paced' /\ Grows
<1>0. TaskTypes /\ RestTypes
  BY Halves
<1>1. Grows
  <2>1. CASE GateHalts(n)
    BY <2>1 DEF GateHalts, Grows
  <2>2. CASE ~GateHalts(n)
    <3>1. CASE BodyStep(n)
      <4>1. UNCHANGED <<reached, shell_vars, why>>
        BY <3>1 DEF BodyStep, BodyStopped, BodyEnter, Dispatch, HaltDispatch, ForegroundDone,
                    BodyReturns
      <4> QED BY <4>1 DEF Grows, shell_vars
    <3>2. CASE SweepStep(n)
      <4>1. UNCHANGED <<reached, shell_vars>> /\ why' \in {why, why \cup {"unrecorded"}}
        BY <2>2, <3>2 DEF SweepStep, GateHolds, GateFails, SweepDispatch, SweepHalted, SweepReturns
      <4> QED BY <4>1 DEF Grows, shell_vars
    <3>3. CASE LoopStep(n)
      <4>1. UNCHANGED <<reached, shell_vars>> /\ why' \in {why, why \cup {"unrecorded"}}
        BY <3>3 DEF LoopStep, LoopPass, LoopEnds, LoopFails, LoopBack, LoopBroken
      <4> QED BY <4>1 DEF Grows, shell_vars
    <3> QED BY <3>1, <3>2, <3>3
  <2> QED BY <2>1, <2>2
<1>2. ASSUME NEW s \in {"drain", "daemons", "permit", "enter"}, Goto(n, s) PROVE Paced'
  <2>1. at'[n] = s /\ \A m \in Nodes : m = n \/ (at'[m] = at[m] /\ runs'[m] = runs[m])
    BY <1>0, <1>2 DEF Goto, TaskTypes
  <2> QED BY <1>1, <2>1, PacedStep DEF Began
<1>3. ASSUME UNCHANGED <<at, pos, runs>> PROVE Paced'
  BY <1>1, <1>3, PacedStep
<1>4. ASSUME NEW K, NEW s \in {"dispatch", "enter", "pass"}, NEW p, NEW r, Start(n, K, s, p, r)
      PROVE  Paced'
  <2> DEFINE fresh == K \cup UNION {Children[k] : k \in K}
  <2>1. /\ at' = [m \in Nodes |-> IF m = n THEN s ELSE IF m \in fresh THEN "enter" ELSE at[m]]
        /\ runs' = [m \in Nodes |-> IF m = n THEN r ELSE IF m \in fresh THEN 0 ELSE runs[m]]
    BY <1>4 DEF Start
  <2> HIDE DEF fresh
  <2>2. /\ at'[n] = s
        /\ \A m \in Nodes : m = n \/ at'[m] = "enter" \/ (at'[m] = at[m] /\ runs'[m] = runs[m])
    BY <2>1
  <2> QED BY <1>1, <2>2, PacedStep DEF Began
<1>5. CASE BodyStep(n)
  <2>1. CASE BodyStopped(n) \/ BodyReturns(n)
    BY <1>1, <1>3, <2>1 DEF BodyStopped, BodyReturns
  <2>2. CASE BodyEnter(n) \/ Dispatch(n)
    BY <1>1, <1>4, <2>2 DEF BodyEnter, Dispatch
  <2>3. CASE HaltDispatch(n) \/ ForegroundDone(n)
    BY <1>1, <1>2, <2>3 DEF HaltDispatch, ForegroundDone
  <2> QED BY <1>5, <2>1, <2>2, <2>3 DEF BodyStep
<1>6. CASE SweepStep(n)
  <2>1. CASE GateFails(n) \/ SweepReturns(n)
    BY <1>1, <1>3, <2>1 DEF GateFails, SweepReturns
  <2>2. CASE SweepDispatch(n)
    BY <1>1, <1>4, <2>2 DEF SweepDispatch
  <2>3. CASE GateHolds(n) \/ GateHalts(n) \/ SweepHalted(n)
    BY <1>1, <1>2, <2>3 DEF GateHolds, GateHalts, SweepHalted
  <2> QED BY <1>6, <2>1, <2>2, <2>3 DEF SweepStep
<1>7. CASE LoopStep(n)
  <2>1. CASE LoopEnds(n) \/ LoopFails(n) \/ LoopBroken(n)
    BY <1>1, <1>3, <2>1 DEF LoopEnds, LoopFails, LoopBroken
  <2>2. CASE LoopPass(n)
    BY <1>1, <1>4, <2>2 DEF LoopPass
  <2>3. CASE LoopBack(n)
    BY <1>1, <1>2, <2>3 DEF LoopBack
  <2> QED BY <1>7, <2>1, <2>2, <2>3 DEF LoopStep
<1> QED BY <1>5, <1>6, <1>7

\* Every step keeps the types and the pace, and only adds to what is recorded.
LEMMA TypeStep == TypeOK /\ Paced /\ [Next]_vars => TypeOK' /\ Paced' /\ Grows
<1> SUFFICES ASSUME TypeOK, Paced, [Next]_vars PROVE TypeOK' /\ Paced' /\ Grows
  OBVIOUS
<1>0. TaskTypes /\ RestTypes
  BY Halves
<1>1. ASSUME NEW n \in Nodes, Joinable(n) \/ Dropped(n) PROVE TypeOK' /\ Paced' /\ Grows
  <2>1. /\ st' = [st EXCEPT ![n] = "done"] \/ st' = [st EXCEPT ![n] = "dropped"]
        /\ UNCHANGED <<at, pos, runs, bad, reached, noted, children_failed, children_done, walk_stop,
                       session_stop, graceful_stop, fault_stop, why>>
    BY <1>1 DEF Joinable, Dropped, shell_vars, flag_vars
  <2>2. TaskTypes'
    BY <1>0, <2>1 DEF TaskTypes
  <2>3. RestTypes' /\ Grows
    BY <1>0, <2>1 DEF RestTypes, Grows
  <2>4. Paced'
    BY <2>1 DEF Paced
  <2> QED BY <2>2, <2>3, <2>4, Halves
<1>2. CASE SessionStop
  <2>1. /\ session_stop' = TRUE
        /\ UNCHANGED <<st, at, pos, runs, bad, reached, noted, children_failed, children_done,
                       walk_stop, graceful_stop, fault_stop, why>>
    BY <1>2 DEF SessionStop, task_vars, shell_vars
  <2>2. {walk_stop', session_stop', graceful_stop', fault_stop'} \subseteq BOOLEAN
    BY <1>0, <2>1, Zenon DEF RestTypes
  <2>3. RestTypes' /\ Grows
    BY <1>0, <2>1, <2>2 DEF RestTypes, Grows
  <2>4. TaskTypes' /\ Paced'
    BY <1>0, <2>1 DEF TaskTypes, Paced
  <2> QED BY <2>3, <2>4, Halves
<1>3. CASE UNCHANGED vars
  BY <1>3 DEF vars, task_vars, shell_vars, flag_vars, TypeOK, Paced, Grows
<1> QED BY <1>1, <1>2, <1>3, TypeInner, PacedInner, TypePhase DEF Next, Ended

-----------------------------------------------------------------------------
\* Nodes a step does not move

\* What a node has ahead is left alone with its children's rest.
LEMMA AheadSame ==
    ASSUME NEW m \in Nodes, AheadOf(m), at'[m] = at[m], pos'[m] = pos[m],
           \A k \in Children[m] : /\ st[k] = "off" => st'[k] = "off"
                                  /\ Rest(m, k) => Rest(m, k)'
    PROVE  AheadOf(m)'
<1>1. Left(m)' = Left(m)
  BY DEF Left
<1>2. \A i \in 1..Len(Kids[m]) : st[Kids[m][i]] = "off" => st'[Kids[m][i]] = "off"
  BY Lists
<1>3. \A i \in Left(m) : i \in 1..Len(Kids[m])
  BY DEF Left
<1> HIDE DEF Rest
<1> QED BY <1>1, <1>2, <1>3 DEF AheadOf

\* So is what it has done with the children it has started.
LEMMA SofarSame ==
    ASSUME NEW m \in Nodes, Sofar(m), at'[m] = at[m], pos'[m] = pos[m], runs'[m] = runs[m],
           \A k \in Children[m] : /\ st[k] # "off" => st'[k] # "off"
                                  /\ Kind[m] = "loop" /\ st[k] = "returned" => st'[k] = "returned"
    PROVE  Sofar(m)'
<1>1. Left(m)' = Left(m)
  BY DEF Left
<1>2. \A i \in 1..Len(Kids[m]) : st[Kids[m][i]] # "off" => st'[Kids[m][i]] # "off"
  BY Lists
<1> QED BY <1>1, <1>2 DEF Sofar

\* The order of children that run one at a time is kept when none is started and
\* only running ones fail.
LEMMA SerialSame ==
    ASSUME NEW m \in Nodes, SerialAt(m), why \subseteq why',
           \A k \in Children[m] : /\ st[k] = "off" => st'[k] = "off"
                                  /\ st'[k] = "run" => st[k] = "run"
                                  /\ bad'[k] => bad[k] \/ st[k] = "run"
    PROVE  SerialAt(m)'
<1> SUFFICES ASSUME NEW i \in 1..Len(Kids[m]), NEW j \in 1..Len(Kids[m]), i < j,
                    {Kids[m][i], Kids[m][j]} \cap Daemons = {}, st'[Kids[m][j]] # "off"
             PROVE  /\ st'[Kids[m][i]] # "run"
                    /\ "unrecorded" \notin why' => ~bad'[Kids[m][i]]
  BY DEF SerialAt
<1>1. Kids[m][i] \in Children[m] /\ Kids[m][j] \in Children[m]
  BY Lists
<1>2. st[Kids[m][j]] # "off"
  BY <1>1
<1>3. st[Kids[m][i]] # "run" /\ ("unrecorded" \notin why => ~bad[Kids[m][i]])
  BY <1>2 DEF SerialAt
<1> QED BY <1>1, <1>3

\* Before anything has failed, a running node runs under running ones only.
LEMMA Unbroken ==
    ASSUME TaskTypes, Calm, Nested, why = {}, NEW n \in Nodes, st[n] = "run"
    PROVE  \A a \in Above[n] : a \in Nodes /\ a # n /\ st[a] = "run"
<1> DEFINE R == {m \in Nodes : st[m] = "run"}
<1>1. HoldsParents(R)
  <2> SUFFICES ASSUME NEW m \in Nodes, st[m] = "run", m # Root PROVE Parent[m] \in R
    BY DEF HoldsParents
  <2>1. Parent[m] \in Nodes /\ m \in Children[Parent[m]]
    BY Parents
  <2>2. st[Parent[m]] # "dropped" /\ st[Parent[m]] \notin {"returned", "done"}
    BY <2>1 DEF Nested, Joins, ChildOver
  <2>3. st[Parent[m]] # "off"
    BY <2>1 DEF Calm, Quiet, Rest
  <2> QED BY <2>1, <2>2, <2>3 DEF TaskTypes
<1>2. n \in R /\ R \in SUBSET Nodes
  OBVIOUS
<1>3. n # Root => Parent[n] \in R
  BY <1>1, <1>2 DEF HoldsParents
<1>4. Above[n] \subseteq R
  <2> HIDE DEF R
  <2> QED BY <1>1, <1>2, <1>3 DEF Above
<1>5. n \notin Above[n]
  <2>1. n \in Above[n] => n \notin Above[n]
    BY Chain
  <2> QED BY <2>1
<1> QED BY <1>4, <1>5

-----------------------------------------------------------------------------
\* The shapes of a step

\* A running node ends with outcome b: it is at rest if it did not fail, it has
\* waited for its children unless its gate failed, a failure has its
\* reason and has been acted on, and what is left out may be.
LEMMA Finished ==
    ASSUME Inv, TypeOK', Grows, NEW n \in Nodes, NEW b \in BOOLEAN,
           st[n] = "run", st' = [st EXCEPT ![n] = "returned"], bad' = [bad EXCEPT ![n] = b],
           at' = at, pos' = pos, runs' = runs,
           ~b => \A k \in Children[n] : Rest(n, k),
           (GaveUp(n) /\ "unrecorded" \in why') \/ (~GaveUp(n) /\ \A k \in Children[n] : ChildOver(n, k)),
           b => why' # {} /\ ("unrecorded" \in why' \/ walk_stop'),
           why' = {} /\ ~walk_stop' =>
               /\ n \in Phases => n \in reached'
               /\ Excused(n) \/ \A k \in Children[n] : st[k] \in {"returned", "done"},
           children_failed' > 0 /\ ~walk_stop' => children_failed > 0 /\ ~Evaluating(n),
           at[n] = "failed" \/ why' # why => b
    PROVE  Core'
<1>0. TaskTypes /\ Calm /\ Ahead /\ Nested /\ Halting /\ Blamed /\ Serial /\ Visited /\ Carried
  BY Halves DEF Inv, Core
<1>1. /\ st'[n] = "returned" /\ bad'[n] = b
      /\ \A m \in Nodes : m # n => st'[m] = st[m] /\ bad'[m] = bad[m]
  BY <1>0 DEF TaskTypes
<1>2. \A m \in Nodes : \A k \in Children[m] : k \in Nodes
  BY Parents
<1>3. \A k \in Children[n] : k # n /\ k \in Nodes
  BY NoCycle, Parents
<1>4. \A m \in Nodes : ~Rest(m, n)
  BY DEF Rest
<1>5. \A m \in Nodes : \A k \in Nodes : k # n /\ Rest(m, k) => Rest(m, k)'
  BY <1>1 DEF Rest
<1>6. /\ "unrecorded" \notin why' => "unrecorded" \notin why
      /\ why' = {} => why = {}
      /\ ~walk_stop' => ~walk_stop
  BY DEF Grows
<1>7. Calm'
  <2> SUFFICES ASSUME NEW m \in Nodes, Quiet(m)', NEW k \in Children[m] PROVE Rest(m, k)'
    BY DEF Calm
  <2>1. CASE m = n
    <3>1. ~b
      BY <1>1, <2>1 DEF Quiet
    <3> QED BY <1>3, <1>5, <2>1, <3>1
  <2>2. CASE m # n
    <3>1. Quiet(m)
      BY <1>1, <2>2 DEF Quiet
    <3>2. Rest(m, k)
      BY <1>0, <3>1 DEF Calm
    <3> QED BY <1>2, <1>4, <1>5, <3>2
  <2> QED BY <2>1, <2>2
<1>8. Ahead'
  <2> SUFFICES ASSUME NEW m \in Nodes, st'[m] = "run" PROVE AheadOf(m)'
    BY DEF Ahead
  <2>1. m # n /\ AheadOf(m)
    BY <1>0, <1>1 DEF Ahead
  <2>2. \A k \in Children[m] : /\ st[k] = "off" => st'[k] = "off"
                               /\ Rest(m, k) => Rest(m, k)'
    BY <1>1, <1>2, <1>4, <1>5
  <2> QED BY <2>1, <2>2, AheadSame
<1>9. Nested'
  <2>1. \A m \in Nodes : GaveUp(m)' <=> GaveUp(m)
    BY DEF GaveUp, MoreSteps
  <2>2. \A m \in Nodes : \A k \in Children[m] : ChildOver(m, k) => ChildOver(m, k)'
    BY <1>1, <1>2 DEF ChildOver
  <2>3. \A m \in Nodes : Joins(m) => Joins(m)'
    BY <2>1, <2>2 DEF Joins
  <2>4. Joins(n) /\ (GaveUp(n) => "unrecorded" \in why')
    BY DEF Joins
  <2> QED BY <1>0, <1>1, <1>6, <2>1, <2>3, <2>4 DEF Nested
<1>10. Halting'
  <2> SUFFICES ASSUME children_failed' > 0, ~walk_stop' PROVE \E e \in Nodes : Evaluating(e)'
    BY DEF Halting
  <2>1. PICK e \in Nodes : Evaluating(e)
    BY <1>0, <1>6 DEF Halting
  <2> QED BY <1>1, <2>1 DEF Evaluating
<1>11. Blamed'
  <2> SUFFICES ASSUME NEW m \in Nodes, bad'[m]
               PROVE  why' # {} /\ ("unrecorded" \in why' \/ walk_stop')
    BY DEF Blamed
  <2>1. CASE m = n
    BY <1>1, <2>1
  <2>2. CASE m # n
    BY <1>0, <1>1, <1>6, <2>2 DEF Blamed
  <2> QED BY <2>1, <2>2
<1>12. Serial'
  <2> SUFFICES ASSUME NEW m \in Nodes, Kind[m] = "body", Limit[m] = 1 PROVE SerialAt(m)'
    BY DEF Serial
  <2>1. SerialAt(m)
    BY <1>0 DEF Serial
  <2>2. \A k \in Children[m] : /\ st[k] = "off" => st'[k] = "off"
                               /\ st'[k] = "run" => st[k] = "run"
                               /\ bad'[k] => bad[k] \/ st[k] = "run"
    BY <1>1, <1>2
  <2> QED BY <2>1, <2>2, SerialSame DEF Grows
<1>13. Visited'
  <2> SUFFICES ASSUME why' = {}, ~walk_stop', NEW m \in Nodes
               PROVE  /\ st'[m] = "run" => Sofar(m)'
                      /\ st'[m] \in {"returned", "done"} => Through(m)'
    BY DEF Visited
  <2>1. /\ st[m] = "run" => Sofar(m)
        /\ st[m] \in {"returned", "done"} => Through(m)
    BY <1>0, <1>6 DEF Visited
  <2>2. ASSUME st'[m] = "run" PROVE Sofar(m)'
    <3>1. m # n /\ Sofar(m)
      BY <1>1, <2>1, <2>2
    <3>2. \A k \in Children[m] : /\ st[k] # "off" => st'[k] # "off"
                                 /\ Kind[m] = "loop" /\ st[k] = "returned" => st'[k] = "returned"
      BY <1>1, <1>2
    <3> QED BY <3>1, <3>2, SofarSame
  <2>3. ASSUME st'[m] \in {"returned", "done"} PROVE Through(m)'
    <3>1. Excused(m)' <=> Excused(m)
      BY DEF Excused
    <3>2. CASE m = n
      BY <1>1, <1>3, <3>1, <3>2 DEF Through
    <3>3. CASE m # n
      <4>1. Through(m)
        BY <1>1, <2>1, <2>3, <3>3
      <4>2. \A k \in Children[m] : st[k] \in {"returned", "done"} => st'[k] \in {"returned", "done"}
        BY <1>1, <1>2
      <4> QED BY <3>1, <4>1, <4>2 DEF Through, Grows
    <3> QED BY <3>2, <3>3
  <2> QED BY <2>2, <2>3
<1>14. Carried'
  <2> SUFFICES ASSUME why' # {}
               PROVE  \E c \in Nodes : Holds(c)' /\ \A a \in Above[c] : st'[a] = "run"
    BY DEF Carried
  <2>1. CASE why = {}
    <3>1. b /\ Holds(n)'
      BY <1>1, <2>1 DEF Holds
    <3>2. \A a \in Above[n] : a \in Nodes /\ a # n /\ st[a] = "run"
      BY <1>0, <2>1, Unbroken
    <3> QED BY <1>1, <3>1, <3>2
  <2>2. CASE why # {}
    <3>1. PICK c \in Nodes : Holds(c) /\ \A a \in Above[c] : st[a] = "run"
      BY <1>0, <2>2 DEF Carried
    <3>2. Above[c] \in SUBSET Nodes
      BY Ancestors
    <3>3. CASE n \in Above[c]
      <4>1. Above[n] \subseteq Above[c] /\ n \notin Above[n]
        BY <3>3, Chain
      <4>2. PICK k \in Children[n] : k = c \/ k \in Above[c]
        BY <3>3, Descends
      <4>3. ~Rest(n, k)
        BY <3>1, <4>2 DEF Rest, Holds
      <4>4. Holds(n)'
        BY <1>1, <4>2, <4>3 DEF Holds
      <4> QED BY <1>1, <3>1, <3>2, <4>1, <4>4
    <3>4. CASE n \notin Above[c]
      <4>1. \A a \in Above[c] : st'[a] = "run"
        BY <1>1, <3>1, <3>2, <3>4
      <4>2. Holds(c)'
        <5>1. CASE c = n
          BY <1>1, <3>1, <5>1 DEF Holds
        <5>2. CASE c # n
          BY <1>1, <3>1, <5>2 DEF Holds
        <5> QED BY <5>1, <5>2
      <4> QED BY <4>1, <4>2
    <3> QED BY <3>3, <3>4
  <2> QED BY <2>1, <2>2
<1> QED BY <1>7, <1>8, <1>9, <1>10, <1>11, <1>12, <1>13, <1>14 DEF Core

\* A running node moves on to step s.
LEMMA Moved ==
    ASSUME Inv, TypeOK', Grows, NEW n \in Nodes, NEW s,
           st[n] = "run", at[n] # "failed", at' = [at EXCEPT ![n] = s],
           st' = st, bad' = bad, pos' = pos, \A m \in Nodes : m # n => runs'[m] = runs[m],
           AheadOf(n)', why' = {} /\ ~walk_stop' => Sofar(n)',
           why' # why => s = "failed",
           children_failed' > 0 /\ ~walk_stop' =>
               (children_failed > 0 /\ ~Evaluating(n)) \/ Evaluating(n)'
    PROVE  Core'
<1>0. TaskTypes /\ Calm /\ Ahead /\ Nested /\ Halting /\ Blamed /\ Serial /\ Visited /\ Carried
  BY Halves DEF Inv, Core
<1>1. at'[n] = s /\ \A m \in Nodes : m # n => at'[m] = at[m] /\ runs'[m] = runs[m]
  BY <1>0 DEF TaskTypes
<1>2. (why' = {} => why = {}) /\ (~walk_stop' => ~walk_stop)
  BY DEF Grows
<1>3. \A m \in Nodes : \A k \in Children[m] : Rest(m, k) <=> Rest(m, k)'
  BY DEF Rest
<1>4. Calm'
  <2>1. \A m \in Nodes : Quiet(m)' => Quiet(m)
    BY DEF Quiet
  <2> QED BY <1>0, <1>3, <2>1 DEF Calm
<1>5. Ahead'
  <2> SUFFICES ASSUME NEW m \in Nodes, st'[m] = "run", m # n PROVE AheadOf(m)'
    BY DEF Ahead
  <2>1. AheadOf(m) /\ at'[m] = at[m] /\ pos'[m] = pos[m]
    BY <1>0, <1>1 DEF Ahead
  <2> QED BY <1>3, <2>1, AheadSame
<1>6. Nested'
  <2>1. \A m \in Nodes : m # n => (GaveUp(m)' <=> GaveUp(m))
    BY <1>1 DEF GaveUp, MoreSteps
  <2>2. \A m \in Nodes : m # n /\ Joins(m) => Joins(m)'
    BY <2>1 DEF Joins, ChildOver
  <2>3. "unrecorded" \notin why' => "unrecorded" \notin why
    BY DEF Grows
  <2> QED BY <1>0, <2>1, <2>2, <2>3 DEF Nested
<1>7. Halting'
  <2> SUFFICES ASSUME children_failed' > 0, ~walk_stop' PROVE \E e \in Nodes : Evaluating(e)'
    BY DEF Halting
  <2>1. CASE Evaluating(n)'
    BY <2>1
  <2>2. CASE children_failed > 0 /\ ~Evaluating(n)
    <3>1. PICK e \in Nodes : Evaluating(e)
      BY <1>0, <1>2, <2>2 DEF Halting
    <3> QED BY <1>1, <2>2, <3>1 DEF Evaluating
  <2> QED BY <2>1, <2>2
<1>8. Blamed'
  BY <1>0, <1>2 DEF Blamed, Grows
<1>9. Serial'
  <2> SUFFICES ASSUME NEW m \in Nodes, Kind[m] = "body", Limit[m] = 1 PROVE SerialAt(m)'
    BY DEF Serial
  <2>1. SerialAt(m)
    BY <1>0 DEF Serial
  <2> QED BY <2>1, SerialSame DEF Grows
<1>10. Visited'
  <2> SUFFICES ASSUME why' = {}, ~walk_stop', NEW m \in Nodes
               PROVE  /\ st'[m] = "run" => Sofar(m)'
                      /\ st'[m] \in {"returned", "done"} => Through(m)'
    BY DEF Visited
  <2>1. CASE m = n
    BY <2>1
  <2>2. CASE m # n
    <3>1. /\ st[m] = "run" => Sofar(m)
          /\ st[m] \in {"returned", "done"} => Through(m)
      BY <1>0, <1>2 DEF Visited
    <3>2. at'[m] = at[m] /\ runs'[m] = runs[m] /\ pos'[m] = pos[m]
      BY <1>1, <2>2
    <3>3. Sofar(m) => Sofar(m)'
      BY <3>2, SofarSame
    <3>4. Through(m) => Through(m)'
      BY <3>2 DEF Through, Excused, Grows
    <3> QED BY <3>1, <3>3, <3>4
  <2> QED BY <2>1, <2>2
<1>11. Carried'
  <2> SUFFICES ASSUME why' # {}
               PROVE  \E c \in Nodes : Holds(c)' /\ \A a \in Above[c] : st'[a] = "run"
    BY DEF Carried
  <2>1. CASE why = {}
    <3>1. Holds(n)'
      BY <1>1, <2>1 DEF Holds
    <3>2. \A a \in Above[n] : st[a] = "run"
      BY <1>0, <2>1, Unbroken
    <3> QED BY <3>1, <3>2
  <2>2. CASE why # {}
    <3>1. PICK c \in Nodes : Holds(c) /\ \A a \in Above[c] : st[a] = "run"
      BY <1>0, <2>2 DEF Carried
    <3>2. Holds(c)'
      BY <1>1, <3>1 DEF Holds
    <3> QED BY <3>1, <3>2
  <2> QED BY <2>1, <2>2
<1> QED BY <1>4, <1>5, <1>6, <1>7, <1>8, <1>9, <1>10, <1>11 DEF Core

\* A child is put down, joined by its parent or dropped after it, without a
\* change of its outcome; what relies on it lets it.
LEMMA PutDown ==
    ASSUME Inv, NEW n \in Nodes, NEW x \in {"done", "dropped"}, n # Root,
           st[n] \in {"run", "returned"}, st' = [st EXCEPT ![n] = x], ~Evaluating(n),
           UNCHANGED <<at, pos, runs, bad, reached, children_failed, walk_stop, why>>,
           x = "done" => st[n] = "returned" /\ Kind[Parent[n]] # "loop",
           x = "dropped" =>
               /\ st[Parent[n]] # "run" /\ ~Quiet(Parent[n])
               /\ "unrecorded" \in why
               /\ Kind[Parent[n]] = "loop" => st[Parent[n]] = "dropped"
    PROVE  Core'
<1>0. TaskTypes /\ Calm /\ Ahead /\ Nested /\ Halting /\ Blamed /\ Serial /\ Visited /\ Carried
  BY Halves DEF Inv, Core
<1>1. st'[n] = x /\ \A m \in Nodes : m # n => st'[m] = st[m]
  BY <1>0 DEF TaskTypes
<1>2. \A m \in Nodes : \A k \in Children[m] : k \in Nodes /\ (k = n => m = Parent[n])
  BY Parents
<1>3. \A m \in Nodes : \A k \in Children[m] : k # n /\ Rest(m, k) => Rest(m, k)'
  BY <1>1, <1>2 DEF Rest
<1>4. x = "done" => ~Rest(Parent[n], n)
  BY DEF Rest
<1>5. Calm'
  <2> SUFFICES ASSUME NEW m \in Nodes, Quiet(m)', NEW k \in Children[m] PROVE Rest(m, k)'
    BY DEF Calm
  <2>1. Quiet(m)
    BY <1>1 DEF Quiet
  <2>2. Rest(m, k)
    BY <1>0, <2>1 DEF Calm
  <2> QED BY <1>2, <1>3, <1>4, <2>1, <2>2
<1>6. Ahead'
  <2> SUFFICES ASSUME NEW m \in Nodes, st'[m] = "run" PROVE AheadOf(m)'
    BY DEF Ahead
  <2>1. st[m] = "run" /\ AheadOf(m)
    BY <1>0, <1>1 DEF Ahead
  <2>2. \A k \in Children[m] : /\ st[k] = "off" => st'[k] = "off"
                               /\ Rest(m, k) => Rest(m, k)'
    BY <1>1, <1>2, <1>3, <1>4, <2>1
  <2> QED BY <2>1, <2>2, AheadSame
<1>7. Nested'
  <2>1. \A m \in Nodes : GaveUp(m)' <=> GaveUp(m)
    BY DEF GaveUp, MoreSteps
  <2>2. ASSUME NEW m \in Nodes, st[m] \in {"returned", "done"}, Joins(m) PROVE Joins(m)'
    <3> SUFFICES ASSUME NEW k \in Children[m], ChildOver(m, k) PROVE ChildOver(m, k)'
      BY <2>1, <2>2 DEF Joins
    <3>1. CASE k # n
      BY <1>1, <1>2, <3>1 DEF ChildOver
    <3>2. CASE k = n
      <4>1. m = Parent[n] /\ Kind[m] = "loop"
        BY <1>2, <3>2 DEF ChildOver
      <4> QED BY <2>2, <4>1
    <3> QED BY <3>1, <3>2
  <2>3. Nested => \A m \in Nodes : st[m] \in {"returned", "done"} => Joins(m)'
    BY <2>2 DEF Nested
  <2>4. \A m \in Nodes : st'[m] \in {"returned", "done"} => st[m] \in {"returned", "done"}
    BY <1>1
  <2>5. \A m \in Nodes : st'[m] = "dropped" => "unrecorded" \in why'
    BY <1>0, <1>1 DEF Nested
  <2> QED BY <1>0, <2>1, <2>3, <2>4, <2>5 DEF Nested
<1>8. Halting'
  BY <1>0, <1>1 DEF Halting, Evaluating
<1>9. Blamed'
  BY <1>0 DEF Blamed
<1>10. Serial'
  <2> SUFFICES ASSUME NEW m \in Nodes, Kind[m] = "body", Limit[m] = 1 PROVE SerialAt(m)'
    BY DEF Serial
  <2>1. SerialAt(m)
    BY <1>0 DEF Serial
  <2>2. \A k \in Children[m] : /\ st[k] = "off" => st'[k] = "off"
                               /\ st'[k] = "run" => st[k] = "run"
                               /\ bad'[k] => bad[k] \/ st[k] = "run"
    BY <1>1, <1>2
  <2> QED BY <2>1, <2>2, SerialSame
<1>11. Visited'
  <2> SUFFICES ASSUME why = {}, ~walk_stop, NEW m \in Nodes
               PROVE  /\ st'[m] = "run" => Sofar(m)'
                      /\ st'[m] \in {"returned", "done"} => Through(m)'
    BY DEF Visited
  <2>0. x = "done"
    OBVIOUS
  <2>1. /\ st[m] = "run" => Sofar(m)
        /\ st[m] \in {"returned", "done"} => Through(m)
    BY <1>0 DEF Visited
  <2>2. ASSUME st'[m] = "run" PROVE Sofar(m)'
    <3>1. Sofar(m)
      BY <1>1, <2>1, <2>2
    <3>2. \A k \in Children[m] : /\ st[k] # "off" => st'[k] # "off"
                                 /\ Kind[m] = "loop" /\ st[k] = "returned" => st'[k] = "returned"
      BY <1>1, <1>2, <2>0
    <3> QED BY <3>1, <3>2, SofarSame
  <2>3. ASSUME st'[m] \in {"returned", "done"} PROVE Through(m)'
    <3>1. Excused(m)' <=> Excused(m)
      BY DEF Excused
    <3>2. Through(m)
      BY <1>1, <2>0, <2>1, <2>3
    <3>3. \A k \in Children[m] : st[k] \in {"returned", "done"} => st'[k] \in {"returned", "done"}
      BY <1>1, <1>2, <2>0
    <3> QED BY <3>1, <3>2, <3>3 DEF Through
  <2> QED BY <2>2, <2>3
<1>12. Carried'
  <2> SUFFICES ASSUME why # {}
               PROVE  \E c \in Nodes : Holds(c)' /\ \A a \in Above[c] : st'[a] = "run"
    BY DEF Carried
  <2>1. PICK c \in Nodes : Holds(c) /\ \A a \in Above[c] : st[a] = "run"
    BY <1>0 DEF Carried
  <2>2. Above[c] \in SUBSET Nodes /\ HoldsParents(Above[c]) /\ (c # Root => Parent[c] \in Above[c])
    BY Ancestors
  <2>3. n \notin Above[c]
    <3> SUFFICES ASSUME n \in Above[c] PROVE FALSE
      OBVIOUS
    <3>1. st[n] = "run" /\ st[Parent[n]] = "run"
      BY <2>1, <2>2 DEF HoldsParents
    <3> QED BY <3>1
  <2>4. Holds(c)'
    <3>1. CASE c = n
      <4>1. x = "done" /\ st[n] = "returned"
        BY <2>1, <2>2, <3>1
      <4> QED BY <1>1, <2>1, <3>1, <4>1 DEF Holds
    <3>2. CASE c # n
      BY <1>1, <2>1, <3>2 DEF Holds
    <3> QED BY <3>1, <3>2
  <2> QED BY <1>1, <2>1, <2>2, <2>3, <2>4
<1> QED BY <1>5, <1>6, <1>7, <1>8, <1>9, <1>10, <1>11, <1>12 DEF Core

\* What is below the tasks that are started.
Under(K) == UNION {Children[k] : k \in K}

\* A node starts children at rest: they and theirs were quiet and are as at
\* first, and nobody else is touched.
LEMMA Fresh ==
    ASSUME TaskTypes, Calm, NEW n \in Nodes, NEW K \in SUBSET Children[n], \A k \in K : Rest(n, k),
           NEW s, NEW p, NEW r, Start(n, K, s, p, r)
    PROVE  /\ \A m \in K : /\ m \in Nodes /\ m # n /\ Quiet(m) /\ st'[m] = "run" /\ ~bad'[m]
                           /\ at'[m] = "enter" /\ pos'[m] = 1 /\ runs'[m] = 0
           /\ \A m \in Under(K) : /\ m \in Nodes /\ m # n /\ m \notin K /\ Quiet(m)
                                  /\ st'[m] = "off" /\ ~bad'[m]
           /\ \A m \in Nodes : m \notin K /\ m \notin Under(K) =>
                 /\ st'[m] = st[m] /\ bad'[m] = bad[m]
                 /\ m # n => at'[m] = at[m] /\ pos'[m] = pos[m] /\ runs'[m] = runs[m]
           /\ n \notin K /\ n \notin Under(K) /\ at'[n] = s /\ pos'[n] = p /\ runs'[n] = r
           /\ \A m \in Nodes : \A c \in Children[m] : (c \in K => m = n) /\ (c \in Under(K) <=> m \in K)
<1>1. \A k \in K : k \in Nodes /\ k # n /\ Parent[k] = n /\ n \notin Children[k]
  BY NoCycle, Parents
<1>2. \A m \in Under(K) : \E k \in K : m \in Children[k]
  BY DEF Under
<1>3. ASSUME NEW m \in Under(K)
      PROVE  m \in Nodes /\ m # n /\ m \notin K /\ Quiet(m)
  <2>1. PICK k \in K : m \in Children[k]
    BY <1>2
  <2>2. m \in Nodes /\ Parent[m] = k
    BY <1>1, <2>1, Parents
  <2>3. Quiet(k)
    BY DEF Rest, Quiet
  <2>4. Rest(k, m)
    BY <1>1, <2>1, <2>3 DEF Calm
  <2> QED BY <1>1, <2>1, <2>2, <2>4 DEF Rest, Quiet
<1>4. ASSUME NEW m \in Nodes, NEW c \in Children[m]
      PROVE  (c \in K => m = n) /\ (c \in Under(K) <=> m \in K)
  <2>1. Parent[c] = m
    BY Parents
  <2>2. c \in K => m = n
    BY <1>1, <2>1
  <2>3. c \in Under(K) => m \in K
    BY <1>1, <1>2, <2>1, Parents
  <2>4. m \in K => c \in Under(K)
    BY DEF Under
  <2> QED BY <2>2, <2>3, <2>4
<1> DEFINE fresh == K \cup UNION {Children[k] : k \in K}
<1>5. /\ st' = [m \in Nodes |-> IF m \in K THEN "run" ELSE IF m \in fresh THEN "off" ELSE st[m]]
      /\ at' = [m \in Nodes |-> IF m = n THEN s ELSE IF m \in fresh THEN "enter" ELSE at[m]]
      /\ pos' = [m \in Nodes |-> IF m = n THEN p ELSE IF m \in fresh THEN 1 ELSE pos[m]]
      /\ runs' = [m \in Nodes |-> IF m = n THEN r ELSE IF m \in fresh THEN 0 ELSE runs[m]]
      /\ bad' = [m \in Nodes |-> IF m \in fresh THEN FALSE ELSE bad[m]]
  BY DEF Start
<1>6. \A m : m \in fresh <=> m \in K \/ m \in Under(K)
  BY DEF Under
<1> HIDE DEF fresh
<1>7. \A m \in K : Quiet(m)
  BY DEF Rest, Quiet
<1>8. \A m \in K : /\ st'[m] = "run" /\ ~bad'[m]
                   /\ at'[m] = "enter" /\ pos'[m] = 1 /\ runs'[m] = 0
  BY <1>1, <1>5, <1>6
<1>9. \A m \in Under(K) : st'[m] = "off" /\ ~bad'[m]
  BY <1>3, <1>5, <1>6
<1>10. \A m \in Nodes : m \notin K /\ m \notin Under(K) =>
          /\ st'[m] = st[m] /\ bad'[m] = bad[m]
          /\ m # n => at'[m] = at[m] /\ pos'[m] = pos[m] /\ runs'[m] = runs[m]
  BY <1>5, <1>6
<1>11. n \notin K /\ n \notin Under(K) /\ at'[n] = s /\ pos'[n] = p /\ runs'[n] = r
  BY <1>1, <1>3, <1>5
<1> QED BY <1>1, <1>3, <1>4, <1>7, <1>8, <1>9, <1>10, <1>11

\* A running node that is no phase starts children at rest.
LEMMA Launched ==
    ASSUME Inv, TypeOK', NEW n \in Nodes, st[n] = "run", n \notin Phases,
           NEW K \in SUBSET Children[n], \A k \in K : Rest(n, k),
           NEW s, NEW p, NEW r, Start(n, K, s, p, r),
           UNCHANGED <<reached, noted, shell_vars, flag_vars, why>>,
           AheadOf(n)', Kind[n] = "body" /\ Limit[n] = 1 => SerialAt(n)',
           why = {} /\ ~walk_stop => Sofar(n)'
    PROVE  Core'
<1>0. TypeOK /\ Paced /\ TaskTypes /\ Calm /\ Ahead /\ Nested /\ Halting /\ Blamed /\ Serial
      /\ Visited /\ Carried
  BY Halves DEF Inv, Core
<1>1. UNCHANGED <<reached, children_failed, walk_stop, why>>
  BY DEF shell_vars
<1>2. /\ \A m \in K : /\ m \in Nodes /\ m # n /\ Quiet(m) /\ st'[m] = "run" /\ ~bad'[m]
                      /\ at'[m] = "enter" /\ pos'[m] = 1 /\ runs'[m] = 0
      /\ \A m \in Under(K) : m \in Nodes /\ m # n /\ m \notin K /\ Quiet(m) /\ st'[m] = "off" /\ ~bad'[m]
  <2>1. \A m \in K : /\ m \in Nodes /\ m # n /\ Quiet(m) /\ st'[m] = "run" /\ ~bad'[m]
                     /\ at'[m] = "enter" /\ pos'[m] = 1 /\ runs'[m] = 0
    BY <1>0, Fresh
  <2>2. \A m \in Under(K) : m \in Nodes /\ m # n /\ m \notin K /\ Quiet(m) /\ st'[m] = "off" /\ ~bad'[m]
    BY <1>0, Fresh
  <2> QED BY <2>1, <2>2
<1>3. \A m \in Nodes : m \notin K /\ m \notin Under(K) =>
         /\ st'[m] = st[m] /\ bad'[m] = bad[m]
         /\ m # n => at'[m] = at[m] /\ pos'[m] = pos[m] /\ runs'[m] = runs[m]
  BY <1>0, Fresh
<1>4. n \notin K /\ n \notin Under(K) /\ st'[n] = "run"
  BY <1>0, <1>3, Fresh
<1>5. \A m \in Nodes : \A c \in Children[m] :
         c \in Nodes /\ (c \in K => m = n) /\ (c \in Under(K) <=> m \in K)
  BY <1>0, Fresh, Parents
<1>6. \A m \in Nodes : m # n /\ m \notin K =>
         \A c \in Children[m] : st'[c] = st[c] /\ bad'[c] = bad[c]
  BY <1>3, <1>5
<1>7. \A m \in Nodes : m # n /\ m \notin K => \A c \in Children[m] : Rest(m, c) => Rest(m, c)'
  BY <1>6 DEF Rest
<1>8. \A m \in K : \A c \in Children[m] : st'[c] = "off" /\ Rest(m, c)'
  BY <1>2, <1>5 DEF Rest
<1>9. \A m \in Nodes : ~Quiet(m) => m \notin K /\ m \notin Under(K) /\ st'[m] = st[m] /\ bad'[m] = bad[m]
  BY <1>2, <1>3
<1>10. Calm'
  <2> SUFFICES ASSUME NEW m \in Nodes, Quiet(m)', NEW c \in Children[m] PROVE Rest(m, c)'
    BY DEF Calm
  <2>1. m # n /\ m \notin K
    BY <1>2, <1>4 DEF Quiet
  <2>2. Quiet(m)
    <3>1. CASE m \in Under(K)
      BY <1>2, <3>1
    <3>2. CASE m \notin Under(K)
      BY <1>3, <2>1, <3>2 DEF Quiet
    <3> QED BY <3>1, <3>2
  <2> QED BY <1>0, <1>7, <2>1, <2>2 DEF Calm
<1>11. Ahead'
  <2> SUFFICES ASSUME NEW m \in Nodes, st'[m] = "run" PROVE AheadOf(m)'
    BY DEF Ahead
  <2>1. CASE m = n
    BY <2>1
  <2>2. CASE m \in K
    <3>1. \A i \in 1..Len(Kids[m]) : st'[Kids[m][i]] = "off"
      BY <1>8, <2>2, Lists
    <3> QED BY <1>2, <1>8, <2>2, <3>1 DEF AheadOf
  <2>3. CASE m # n /\ m \notin K
    <3>1. m \notin Under(K) /\ st[m] = "run" /\ at'[m] = at[m] /\ pos'[m] = pos[m]
      BY <1>2, <1>3, <2>3
    <3>2. AheadOf(m)
      BY <1>0, <3>1 DEF Ahead
    <3> QED BY <1>6, <1>7, <2>3, <3>1, <3>2, AheadSame
  <2> QED BY <2>1, <2>2, <2>3
<1>12. Nested'
  <2>1. ASSUME NEW m \in Nodes, st'[m] \in {"returned", "done"}
        PROVE  st[m] \in {"returned", "done"} /\ (GaveUp(m)' <=> GaveUp(m)) /\ (Joins(m) => Joins(m)')
    <3>1. m # n /\ m \notin K /\ m \notin Under(K)
      BY <1>2, <1>4, <2>1 DEF TaskTypes, Quiet
    <3>2. st'[m] = st[m] /\ at'[m] = at[m] /\ pos'[m] = pos[m]
      BY <1>3, <3>1
    <3>3. GaveUp(m)' <=> GaveUp(m)
      BY <3>2 DEF GaveUp, MoreSteps
    <3>4. \A k \in Children[m] : ChildOver(m, k) => ChildOver(m, k)'
      BY <1>6, <3>1 DEF ChildOver
    <3> QED BY <2>1, <3>2, <3>3, <3>4 DEF Joins
  <2>2. \A m \in Nodes : st'[m] = "dropped" => st[m] = "dropped"
    <3> SUFFICES ASSUME NEW m \in Nodes, st'[m] = "dropped" PROVE st[m] = "dropped"
      OBVIOUS
    <3>1. m \notin K /\ m \notin Under(K)
      BY <1>2
    <3> QED BY <1>3, <3>1
  <2> QED BY <1>0, <1>1, <2>1, <2>2 DEF Nested
<1>13. Halting'
  <2> SUFFICES ASSUME children_failed > 0, ~walk_stop PROVE \E e \in Nodes : Evaluating(e)'
    BY <1>1 DEF Halting
  <2>1. PICK e \in Nodes : Evaluating(e)
    BY <1>0 DEF Halting
  <2>2. ~Quiet(e) /\ e # n
    BY <2>1 DEF Evaluating, Quiet
  <2> QED BY <1>3, <1>9, <2>1, <2>2 DEF Evaluating
<1>14. Blamed'
  <2> SUFFICES ASSUME NEW m \in Nodes, bad'[m] PROVE why # {} /\ ("unrecorded" \in why \/ walk_stop)
    BY <1>1 DEF Blamed
  <2>1. bad[m]
    BY <1>2, <1>3
  <2> QED BY <1>0, <2>1 DEF Blamed
<1>15. Serial'
  <2> SUFFICES ASSUME NEW m \in Nodes, Kind[m] = "body", Limit[m] = 1 PROVE SerialAt(m)'
    BY DEF Serial
  <2>1. CASE m = n
    BY <2>1
  <2>2. CASE m \in K
    <3>1. \A i \in 1..Len(Kids[m]) : st'[Kids[m][i]] = "off"
      BY <1>8, <2>2, Lists
    <3> QED BY <3>1 DEF SerialAt
  <2>3. CASE m # n /\ m \notin K
    <3>1. SerialAt(m)
      BY <1>0 DEF Serial
    <3> QED BY <1>1, <1>6, <2>3, <3>1, SerialSame
  <2> QED BY <2>1, <2>2, <2>3
<1>16. Visited'
  <2> SUFFICES ASSUME why = {}, ~walk_stop, NEW m \in Nodes
               PROVE  /\ st'[m] = "run" => Sofar(m)'
                      /\ st'[m] \in {"returned", "done"} => Through(m)'
    BY <1>1 DEF Visited
  <2>1. CASE m = n
    BY <1>4, <2>1
  <2>2. CASE m \in K
    <3>1. \A i \in 1..Len(Kids[m]) : ~(i < 1)
      BY Lists
    <3>2. Sofar(m)'
      BY <1>2, <2>2, <3>1 DEF Sofar
    <3> QED BY <1>2, <2>2, <3>2
  <2>3. CASE m \in Under(K)
    BY <1>2, <2>3
  <2>4. CASE m # n /\ m \notin K /\ m \notin Under(K)
    <3>1. st'[m] = st[m] /\ at'[m] = at[m] /\ pos'[m] = pos[m] /\ runs'[m] = runs[m]
      BY <1>3, <2>4
    <3>2. /\ st[m] = "run" => Sofar(m)
          /\ st[m] \in {"returned", "done"} => Through(m)
      BY <1>0 DEF Visited
    <3>3. Sofar(m) => Sofar(m)'
      BY <1>6, <2>4, <3>1, SofarSame
    <3>4. Through(m) => Through(m)'
      BY <1>1, <1>6, <2>4, <3>1 DEF Through, Excused
    <3> QED BY <3>1, <3>2, <3>3, <3>4
  <2> QED BY <2>1, <2>2, <2>3, <2>4
<1>17. Carried'
  <2> SUFFICES ASSUME why # {}
               PROVE  \E c \in Nodes : Holds(c)' /\ \A a \in Above[c] : st'[a] = "run"
    BY <1>1 DEF Carried
  <2>1. PICK c \in Nodes : Holds(c) /\ \A a \in Above[c] : st[a] = "run"
    BY <1>0 DEF Carried
  <2>2. Above[c] \in SUBSET Nodes
    BY Ancestors
  <2>3. \A a \in Above[c] : st'[a] = "run"
    BY <1>9, <2>1, <2>2 DEF Quiet
  <2>4. at[n] # "failed"
    BY <1>0 DEF Paced, Began, TypeOK
  <2>5. ~Quiet(c) /\ c # n
    BY <2>1, <2>4 DEF Holds, Quiet
  <2>6. Holds(c)'
    BY <1>3, <1>9, <2>1, <2>5 DEF Holds
  <2> QED BY <2>3, <2>6
<1> QED BY <1>10, <1>11, <1>12, <1>13, <1>14, <1>15, <1>16, <1>17 DEF Core

-----------------------------------------------------------------------------
\* The actions, by their shape

\* A body's steps.
LEMMA BodyKeeps ==
    ASSUME Inv, TypeOK', Grows, NEW n \in Nodes, BodyStep(n)
    PROVE  Core'
<1>0. TaskTypes /\ Calm /\ Ahead /\ Nested /\ Halting /\ Blamed /\ Serial /\ Visited /\ Carried
  BY Halves DEF Inv, Core
<1>1. /\ Kind[n] = "body" /\ st[n] = "run" /\ n \notin Phases
      /\ at[n] \in {"enter", "dispatch", "drain", "daemons"}
      /\ UNCHANGED <<reached, noted, shell_vars, flag_vars, why>>
  BY DEF BodyStep, BodyStopped, BodyEnter, Dispatch, MayDispatch, HaltDispatch, ForegroundDone,
         BodyReturns, Running, Phases
<1>2. UNCHANGED <<reached, children_failed, walk_stop, why>>
  BY <1>1 DEF shell_vars
<1>3. AheadOf(n) /\ (why = {} /\ ~walk_stop => Sofar(n))
  BY <1>0, <1>1 DEF Ahead, Visited
<1>4. ~Evaluating(n) /\ ~Evaluating(n)'
  BY <1>1 DEF Evaluating
<1>5. /\ Children[n] \in SUBSET Nodes /\ Len(Kids[n]) \in Nat
      /\ \A i \in 1..Len(Kids[n]) : Kids[n][i] \in Children[n] /\ Kids[n][i] \in Nodes
      /\ \A k \in Children[n] : \E i \in 1..Len(Kids[n]) : k = Kids[n][i]
      /\ \A i, j \in 1..Len(Kids[n]) : Kids[n][i] = Kids[n][j] => i = j
  BY Lists
<1>6. ASSUME Failing(Children[n]) \/ Failing(Children[n] \ Daemons)
      PROVE  why # {} /\ ("unrecorded" \in why \/ walk_stop)
  BY <1>0, <1>5, <1>6 DEF Failing, Blamed
<1>7. CASE BodyStopped(n)
  <2>1. at[n] = "enter" /\ walk_stop /\ Return(n, FALSE) /\ UNCHANGED <<at, pos, runs>>
    BY <1>7 DEF BodyStopped, Running
  <2>2. ~GaveUp(n) /\ \A k \in Children[n] : Rest(n, k) /\ ChildOver(n, k)
    BY <1>1, <1>3, <2>1 DEF AheadOf, Rest, ChildOver, GaveUp
  <2>3. st' = [st EXCEPT ![n] = "returned"] /\ bad' = [bad EXCEPT ![n] = FALSE]
    BY <2>1 DEF Return
  <2> QED BY <1>1, <1>2, <1>4, <2>1, <2>2, <2>3, Finished
<1>8. CASE BodyReturns(n)
  <2> DEFINE b == Failing(Children[n])
  <2>1. at[n] = "daemons" /\ Joined(Children[n]) /\ Return(n, b) /\ UNCHANGED <<at, pos, runs>>
    BY <1>8 DEF BodyReturns, Running
  <2>2. st' = [st EXCEPT ![n] = "returned"] /\ bad' = [bad EXCEPT ![n] = b]
    BY <2>1 DEF Return
  <2>3. b \in BOOLEAN
    BY DEF Failing
  <2>4. ~b => \A k \in Children[n] : Rest(n, k)
    BY <2>1 DEF Joined, Failing, Rest
  <2>5. ~GaveUp(n) /\ \A k \in Children[n] : ChildOver(n, k)
    BY <1>1, <2>1 DEF Joined, ChildOver, GaveUp
  <2>6. why = {} /\ ~walk_stop => \A k \in Children[n] : st[k] \in {"returned", "done"}
    BY <1>1, <1>3, <2>1 DEF Sofar, Joined
  <2>7. b => why # {} /\ ("unrecorded" \in why \/ walk_stop)
    BY <1>6
  <2> HIDE DEF b
  <2> QED BY <1>1, <1>2, <1>4, <2>1, <2>2, <2>3, <2>4, <2>5, <2>6, <2>7, Finished
<1>9. CASE BodyEnter(n)
  <2> DEFINE K == Children[n] \cap Daemons
  <2>1. at[n] = "enter" /\ Start(n, K, "dispatch", 1, 0)
    BY <1>9 DEF BodyEnter, Running
  <2>2. \A k \in Children[n] : st[k] = "off" /\ Rest(n, k)
    BY <1>1, <1>3, <2>1 DEF AheadOf, Rest
  <2>3. K \in SUBSET Children[n] /\ \A k \in K : Rest(n, k)
    BY <2>2
  <2>4. \A k : k \in K <=> k \in Children[n] /\ k \in Daemons
    OBVIOUS
  <2> HIDE DEF K
  <2>5. /\ \A m \in K : st'[m] = "run"
        /\ \A m \in Nodes : m \notin K /\ m \notin Under(K) => st'[m] = st[m]
    BY <1>0, <2>1, <2>3, Fresh
  <2>6. /\ n \notin K /\ at'[n] = "dispatch" /\ pos'[n] = 1
        /\ \A c \in Children[n] : c \in Under(K) <=> n \in K
    <3>1. n \notin K /\ at'[n] = "dispatch" /\ pos'[n] = 1
      <4>1. n \notin K
        BY <1>0, <2>1, <2>3, Fresh
      <4>2. at'[n] = "dispatch" /\ pos'[n] = 1
        BY <2>1 DEF Start
      <4> QED BY <4>1, <4>2
    <3>2. \A c \in Children[n] : c \in Under(K) <=> n \in K
      BY <1>0, <2>1, <2>3, Fresh
    <3> QED BY <3>1, <3>2
  <2>7. \A k \in Children[n] : k \notin Daemons => st'[k] = "off"
    BY <1>5, <2>2, <2>4, <2>5, <2>6
  <2>8. Left(n)' = {i \in 1..Len(Kids[n]) : Kids[n][i] \notin Daemons}
    BY <1>5, <2>6 DEF Left
  <2>9. AheadOf(n)'
    BY <1>1, <1>5, <2>6, <2>7, <2>8 DEF AheadOf
  <2>10. SerialAt(n)'
    <3>1. \A j \in 1..Len(Kids[n]) : Kids[n][j] \notin Daemons => st'[Kids[n][j]] = "off"
      BY <1>5, <2>7
    <3> QED BY <3>1 DEF SerialAt
  <2>11. Sofar(n)'
    <3>1. \A k \in Children[n] : k \in Daemons => st'[k] = "run"
      BY <2>4, <2>5
    <3>2. \A i \in (1..Len(Kids[n])) \ Left(n)' : st'[Kids[n][i]] # "off"
      BY <1>5, <2>8, <3>1
    <3> QED BY <1>1, <2>6, <3>1, <3>2 DEF Sofar
  <2> QED BY <1>1, <2>1, <2>3, <2>9, <2>10, <2>11, Launched
<1>10. CASE Dispatch(n)
  <2>1. at[n] = "dispatch" /\ Permit(n, Children[n] \ Daemons) /\ ~walk_stop
    BY <1>10 DEF Dispatch, MayDispatch, DispatchHalted, Running
  <2>2. PICK i \in Left(n) : (\A j \in Left(n) : i <= j) /\ Start(n, {Kids[n][i]}, "dispatch", i + 1, 0)
    BY <1>10 DEF Dispatch
  <2> DEFINE K == {Kids[n][i]}
  <2>3. /\ i \in 1..Len(Kids[n]) /\ i >= pos[n] /\ Kids[n][i] \notin Daemons /\ pos[n] \in Nat
        /\ \A j \in Left(n) : j \in 1..Len(Kids[n]) /\ j >= pos[n] /\ Kids[n][j] \notin Daemons
        /\ \A j \in 1..Len(Kids[n]) : j >= pos[n] /\ Kids[n][j] \notin Daemons => j \in Left(n)
    BY <1>0 DEF Left, TaskTypes
  <2>4. \A j \in Left(n) : st[Kids[n][j]] = "off"
    BY <1>1, <1>3, <2>1 DEF AheadOf
  <2>5. K \in SUBSET Children[n] /\ Start(n, K, "dispatch", i + 1, 0) /\ \A k \in K : Rest(n, k)
    BY <1>5, <2>2, <2>3, <2>4 DEF Rest
  <2>6. \A k : k \in K <=> k = Kids[n][i]
    OBVIOUS
  <2> HIDE DEF K
  <2>7. /\ \A m \in K : st'[m] = "run"
        /\ \A m \in Nodes : m \notin K /\ m \notin Under(K) => st'[m] = st[m] /\ bad'[m] = bad[m]
    BY <1>0, <2>5, Fresh
  <2>8. /\ n \notin K /\ at'[n] = "dispatch" /\ pos'[n] = i + 1
        /\ \A c \in Children[n] : c \in Under(K) <=> n \in K
    BY <1>0, <2>5, Fresh
  <2>9. /\ st'[Kids[n][i]] = "run"
        /\ \A j \in 1..Len(Kids[n]) : j # i =>
              st'[Kids[n][j]] = st[Kids[n][j]] /\ bad'[Kids[n][j]] = bad[Kids[n][j]]
    BY <1>5, <2>3, <2>6, <2>7, <2>8
  <2>10. \A j \in Left(n)' : j \in Left(n) /\ j # i
    <3>1. Left(n)' = {j \in 1..Len(Kids[n]) : j >= i + 1 /\ Kids[n][j] \notin Daemons}
      BY <2>8 DEF Left
    <3> QED BY <1>5, <2>3, <3>1
  <2>11. AheadOf(n)'
    <3>1. \A j \in Left(n)' : st'[Kids[n][j]] = "off"
      BY <2>3, <2>4, <2>9, <2>10
    <3> QED BY <1>1, <2>8, <3>1 DEF AheadOf
  <2>12. ASSUME Limit[n] = 1 PROVE SerialAt(n)'
    <3>1. \A j \in 1..Len(Kids[n]) : Kids[n][j] \notin Daemons => st[Kids[n][j]] # "run"
      <4> DEFINE B == {k \in Children[n] \ Daemons : st[k] = "run"}
      <4>1. Cardinality(B) < 1
        BY <2>1, <2>12 DEF Permit
      <4>2. IsFiniteSet(Nodes) /\ B \in SUBSET Nodes
        BY <1>5, TreeAssumption DEF TreeAssumption
      <4>3. IsFiniteSet(B)
        BY <4>2, FS_Subset
      <4> HIDE DEF B
      <4>4. Cardinality(B) \in Nat
        BY <4>3, FS_CardinalityType
      <4>5. B = {}
        BY <4>1, <4>3, <4>4, FS_EmptySet
      <4> QED BY <1>5, <4>5 DEF B
    <3>2. \A j \in 1..Len(Kids[n]) : "unrecorded" \notin why => ~bad[Kids[n][j]]
      BY <1>0, <1>5, <2>1 DEF Blamed
    <3>3. SerialAt(n)
      BY <1>0, <1>1, <2>12 DEF Serial
    <3> SUFFICES ASSUME NEW h \in 1..Len(Kids[n]), NEW j \in 1..Len(Kids[n]), h < j,
                        {Kids[n][h], Kids[n][j]} \cap Daemons = {}, st'[Kids[n][j]] # "off"
                 PROVE  /\ st'[Kids[n][h]] # "run"
                        /\ "unrecorded" \notin why' => ~bad'[Kids[n][h]]
      BY DEF SerialAt
    <3>4. Kids[n][h] \notin Daemons /\ Kids[n][j] \notin Daemons
      OBVIOUS
    <3>5. h # i
      <4> SUFFICES ASSUME h = i PROVE FALSE
        OBVIOUS
      <4>1. j \in Left(n) /\ j # i
        BY <1>5, <2>3, <3>4
      <4> QED BY <2>3, <2>4, <2>9, <4>1
    <3> QED BY <1>2, <2>9, <3>1, <3>2, <3>4, <3>5
  <2>13. ASSUME why = {} PROVE Sofar(n)'
    <3>1. Sofar(n)
      BY <1>3, <2>1, <2>13
    <3>2. \A j \in 1..Len(Kids[n]) : st[Kids[n][j]] # "off" => st'[Kids[n][j]] # "off"
      BY <2>9
    <3>3. \A k \in Children[n] \cap Daemons : st'[k] # "off"
      <4>1. \A k \in Children[n] \cap Daemons : st[k] # "off"
        BY <1>1, <2>1, <3>1 DEF Sofar
      <4> QED BY <1>5, <3>2, <4>1
    <3>4. \A j \in (1..Len(Kids[n])) \ Left(n)' : st'[Kids[n][j]] # "off"
      <4> SUFFICES ASSUME NEW j \in 1..Len(Kids[n]), j \notin Left(n)', j # i
                   PROVE  st[Kids[n][j]] # "off"
        BY <2>9
      <4>1. j \notin Left(n)
        <5> SUFFICES ASSUME j \in Left(n) PROVE FALSE
          OBVIOUS
        <5>1. j \in Nat /\ i \in Nat /\ i <= j /\ Kids[n][j] \notin Daemons
          BY <1>5, <2>2, <2>3
        <5>2. j >= i + 1
          BY <5>1
        <5> QED BY <2>8, <5>1, <5>2 DEF Left
      <4> QED BY <1>1, <2>1, <3>1, <4>1 DEF Sofar
    <3> QED BY <1>1, <2>8, <3>3, <3>4 DEF Sofar
  <2> QED BY <1>1, <2>5, <2>11, <2>12, <2>13, Launched
<1>11. CASE HaltDispatch(n)
  <2>1. at[n] = "dispatch" /\ Goto(n, "drain") /\ (walk_stop \/ Failing(Children[n] \ Daemons))
    BY <1>11 DEF HaltDispatch, MayDispatch, DispatchHalted, Running
  <2>2. at' = [at EXCEPT ![n] = "drain"] /\ UNCHANGED <<st, pos, runs, bad>> /\ at'[n] = "drain"
    BY <1>0, <2>1 DEF Goto, TaskTypes
  <2>3. AheadOf(n)'
    BY <1>1, <2>2 DEF AheadOf
  <2>4. ~(why = {} /\ ~walk_stop)
    BY <1>6, <2>1
  <2> QED BY <1>1, <1>2, <1>4, <2>1, <2>2, <2>3, <2>4, Moved
<1>12. CASE ForegroundDone(n)
  <2>1. Goto(n, "daemons") /\ (at[n] = "drain" \/ (at[n] = "dispatch" /\ Left(n) = {}))
    BY <1>12 DEF ForegroundDone, Running
  <2>2. at' = [at EXCEPT ![n] = "daemons"] /\ UNCHANGED <<st, pos, runs, bad>> /\ at'[n] = "daemons"
    BY <1>0, <2>1 DEF Goto, TaskTypes
  <2>3. AheadOf(n)'
    BY <1>1, <2>2 DEF AheadOf
  <2>4. ASSUME why = {}, ~walk_stop PROVE Sofar(n)'
    <3>1. at[n] = "dispatch" /\ Left(n) = {}
      BY <1>1, <1>3, <2>1, <2>4 DEF Sofar
    <3>2. \A i \in 1..Len(Kids[n]) : st[Kids[n][i]] # "off"
      BY <1>1, <1>3, <2>4, <3>1 DEF Sofar
    <3>3. \A k \in Children[n] : st'[k] # "off"
      BY <1>5, <2>2, <3>2
    <3> QED BY <1>1, <2>2, <3>3 DEF Sofar
  <2> QED BY <1>1, <1>2, <1>4, <2>1, <2>2, <2>3, <2>4, Moved
<1> QED BY <1>7, <1>8, <1>9, <1>10, <1>11, <1>12 DEF BodyStep

\* A sweep's steps.
LEMMA SweepKeeps ==
    ASSUME Inv, TypeOK', Grows, NEW n \in Nodes, SweepStep(n)
    PROVE  Core'
<1>0. TaskTypes /\ Calm /\ Ahead /\ Nested /\ Halting /\ Blamed /\ Serial /\ Visited /\ Carried
  BY Halves DEF Inv, Core
<1>1. /\ Kind[n] = "sweep" /\ st[n] = "run" /\ n \notin Phases
      /\ at[n] \in {"enter", "permit", "drain"}
      /\ UNCHANGED <<reached, children_failed>>
  BY DEF SweepStep, GateHolds, GateHalts, GateFails, SweepDispatch, SweepHalted, SweepReturns,
         Running, Phases, shell_vars
<1>2. AheadOf(n) /\ (why = {} /\ ~walk_stop => Sofar(n))
  BY <1>0, <1>1 DEF Ahead, Visited
<1>3. ~Evaluating(n) /\ ~Evaluating(n)'
  BY <1>1 DEF Evaluating
<1>4. /\ Children[n] \in SUBSET Nodes /\ Len(Kids[n]) \in Nat
      /\ \A i \in 1..Len(Kids[n]) : Kids[n][i] \in Children[n] /\ Kids[n][i] \in Nodes
      /\ \A k \in Children[n] : \E i \in 1..Len(Kids[n]) : k = Kids[n][i]
      /\ \A i, j \in 1..Len(Kids[n]) : Kids[n][i] = Kids[n][j] => i = j
  BY Lists
<1>5. CASE GateHolds(n)
  <2>1. at[n] = "enter" /\ Goto(n, "permit") /\ UNCHANGED <<walk_stop, why>>
    BY <1>5 DEF GateHolds, Running, shell_vars
  <2>2. at' = [at EXCEPT ![n] = "permit"] /\ UNCHANGED <<st, pos, runs, bad>> /\ at'[n] = "permit"
    BY <1>0, <2>1 DEF Goto, TaskTypes
  <2>3. AheadOf(n)'
    BY <1>1, <1>2, <2>1, <2>2 DEF AheadOf
  <2>4. Sofar(n) => Sofar(n)'
    BY <1>1, <2>1, <2>2 DEF Sofar
  <2> QED BY <1>1, <1>2, <1>3, <2>1, <2>2, <2>3, <2>4, Moved
<1>6. CASE GateHalts(n) \/ SweepHalted(n)
  <2>1. at[n] # "failed" /\ Goto(n, "drain") /\ why' = why
    BY <1>1, <1>6 DEF GateHalts, SweepHalted
  <2>2. at' = [at EXCEPT ![n] = "drain"] /\ UNCHANGED <<st, pos, runs, bad>> /\ at'[n] = "drain"
    BY <1>0, <2>1 DEF Goto, TaskTypes
  <2>3. AheadOf(n)' /\ Sofar(n)'
    BY <1>1, <2>2 DEF AheadOf, Sofar
  <2> QED BY <1>1, <1>3, <2>1, <2>2, <2>3, Moved
<1>7. CASE GateFails(n)
  <2>1. at[n] = "enter" /\ Return(n, TRUE) /\ why' = why \cup {"unrecorded"} /\ UNCHANGED <<at, pos, runs>>
    BY <1>7 DEF GateFails, Running
  <2>2. st' = [st EXCEPT ![n] = "returned"] /\ bad' = [bad EXCEPT ![n] = TRUE]
    BY <2>1 DEF Return
  <2>3. "unrecorded" \in why' /\ why' # {} /\ GaveUp(n)
    BY <1>1, <1>7, <2>1 DEF GateFails, GaveUp
  <2> QED BY <1>1, <1>3, <2>1, <2>2, <2>3, Finished
<1>8. CASE SweepDispatch(n)
  <2>0. PICK i : i = pos[n]
    OBVIOUS
  <2> DEFINE K == {Kids[n][i]}
  <2>1. /\ at[n] \in {"enter", "permit"} /\ i <= Len(Kids[n]) /\ Start(n, K, "enter", i + 1, 0)
        /\ UNCHANGED <<reached, noted, shell_vars, flag_vars, why>>
    BY <1>8, <2>0 DEF SweepDispatch, Running, MoreSteps
  <2>2. i \in Nat \ {0} /\ i \in 1..Len(Kids[n])
    BY <1>0, <1>4, <2>0, <2>1 DEF TaskTypes
  <2>3. \A j \in 1..Len(Kids[n]) : j >= i => st[Kids[n][j]] = "off"
    BY <1>1, <1>2, <2>0, <2>1 DEF AheadOf
  <2>4. K \in SUBSET Children[n] /\ \A k \in K : Rest(n, k)
    BY <1>4, <2>2, <2>3 DEF Rest
  <2>5. \A k : k \in K <=> k = Kids[n][i]
    OBVIOUS
  <2> HIDE DEF K
  <2>6. /\ \A m \in K : st'[m] = "run"
        /\ \A m \in Nodes : m \notin K /\ m \notin Under(K) => st'[m] = st[m]
    BY <1>0, <2>1, <2>4, Fresh
  <2>7. /\ n \notin K /\ at'[n] = "enter" /\ pos'[n] = i + 1
        /\ \A c \in Children[n] : c \in Under(K) <=> n \in K
    <3>1. n \notin K
      BY <2>4, NoCycle
    <3>2. \A c \in Children[n] : c \in Under(K) <=> n \in K
      BY <1>0, <2>1, <2>4, Fresh
    <3>3. at'[n] = "enter" /\ pos'[n] = i + 1
      BY <2>1 DEF Start
    <3> QED BY <3>1, <3>2, <3>3
  <2>8. /\ st'[Kids[n][i]] = "run"
        /\ \A j \in 1..Len(Kids[n]) : j # i => st'[Kids[n][j]] = st[Kids[n][j]]
    BY <1>4, <2>2, <2>5, <2>6, <2>7
  <2>9. AheadOf(n)'
    <3>1. \A j \in 1..Len(Kids[n]) : j >= i + 1 => st'[Kids[n][j]] = "off"
      <4> SUFFICES ASSUME NEW j \in 1..Len(Kids[n]), j >= i + 1 PROVE st'[Kids[n][j]] = "off"
        OBVIOUS
      <4>1. j >= i /\ j # i
        BY <1>4, <2>2
      <4> QED BY <2>3, <2>8, <4>1
    <3> QED BY <1>1, <2>7, <3>1 DEF AheadOf
  <2>10. ASSUME why = {}, ~walk_stop PROVE Sofar(n)'
    <3>1. \A j \in 1..Len(Kids[n]) : j < i => st[Kids[n][j]] # "off"
      BY <1>1, <1>2, <2>0, <2>1, <2>10 DEF Sofar
    <3>2. \A j \in 1..Len(Kids[n]) : j < i + 1 => st'[Kids[n][j]] # "off"
      <4> SUFFICES ASSUME NEW j \in 1..Len(Kids[n]), j < i + 1 PROVE st'[Kids[n][j]] # "off"
        OBVIOUS
      <4>1. j < i \/ j = i
        BY <1>4, <2>2
      <4> QED BY <2>8, <3>1, <4>1
    <3> QED BY <1>1, <2>7, <3>2 DEF Sofar
  <2> QED BY <1>1, <2>1, <2>4, <2>9, <2>10, Launched
<1>9. CASE SweepReturns(n)
  <2> DEFINE b == Failing(Children[n])
  <2>1. /\ Joined(Children[n]) /\ Return(n, b) /\ UNCHANGED <<at, pos, runs, walk_stop, why>>
        /\ at[n] = "drain" \/ (at[n] = "enter" /\ pos[n] > Len(Kids[n]))
    <3>1. pos[n] \in Nat
      BY <1>0 DEF TaskTypes
    <3> QED BY <1>4, <1>9, <3>1 DEF SweepReturns, Running, MoreSteps, shell_vars
  <2>2. st' = [st EXCEPT ![n] = "returned"] /\ bad' = [bad EXCEPT ![n] = b]
    BY <2>1 DEF Return
  <2>3. b \in BOOLEAN
    BY DEF Failing
  <2>4. ~b => \A k \in Children[n] : Rest(n, k)
    BY <2>1 DEF Joined, Failing, Rest
  <2>5. ~GaveUp(n) /\ \A k \in Children[n] : ChildOver(n, k)
    <3>1. pos[n] \in Nat
      BY <1>0 DEF TaskTypes
    <3> QED BY <1>4, <2>1, <3>1 DEF Joined, ChildOver, GaveUp, MoreSteps
  <2>6. why = {} /\ ~walk_stop =>
            Excused(n) \/ \A k \in Children[n] : st[k] \in {"returned", "done"}
    <3> SUFFICES ASSUME why = {}, ~walk_stop, at[n] = "enter", pos[n] > Len(Kids[n])
                 PROVE  \A k \in Children[n] : st[k] \in {"returned", "done"}
      BY <1>1, <2>1 DEF Excused
    <3>1. \A i \in 1..Len(Kids[n]) : i < pos[n]
      <4>1. pos[n] \in Nat
        BY <1>0 DEF TaskTypes
      <4> QED BY <1>4, <4>1
    <3>2. \A i \in 1..Len(Kids[n]) : st[Kids[n][i]] # "off"
      BY <1>1, <1>2, <3>1 DEF Sofar
    <3> QED BY <1>4, <2>1, <3>2 DEF Joined
  <2>7. b => why # {} /\ ("unrecorded" \in why \/ walk_stop)
    BY <1>0, <1>4 DEF Failing, Blamed
  <2> HIDE DEF b
  <2> QED BY <1>1, <1>3, <2>1, <2>2, <2>3, <2>4, <2>5, <2>6, <2>7, Finished
<1> QED BY <1>5, <1>6, <1>7, <1>8, <1>9 DEF SweepStep

\* A loop's steps.
LEMMA LoopKeeps ==
    ASSUME Inv, TypeOK', Grows, NEW n \in Nodes, LoopStep(n)
    PROVE  Core'
<1>0. TaskTypes /\ Calm /\ Ahead /\ Nested /\ Halting /\ Blamed /\ Serial /\ Visited /\ Carried
  BY Halves DEF Inv, Core
<1>1. /\ Kind[n] = "loop" /\ st[n] = "run" /\ n \notin Phases /\ at[n] \in {"enter", "pass"}
      /\ UNCHANGED <<reached, children_failed, walk_stop>>
  BY DEF LoopStep, LoopPass, LoopEnds, LoopFails, LoopBack, LoopBroken, Running, Phases, shell_vars
<1>2. AheadOf(n) /\ (why = {} /\ ~walk_stop => Sofar(n))
  BY <1>0, <1>1 DEF Ahead, Visited
<1>3. ~Evaluating(n) /\ ~Evaluating(n)'
  BY <1>1 DEF Evaluating
<1>4. Children[n] = {Kids[n][1]} /\ Kids[n][1] \in Nodes
  BY <1>1, Bodies, Parents
<1>5. CASE LoopPass(n)
  <2>1. /\ at[n] = "enter" /\ Start(n, Children[n], "pass", 1, runs[n] + 1)
        /\ UNCHANGED <<reached, noted, shell_vars, flag_vars, why>>
    BY <1>5 DEF LoopPass, Running
  <2>2. \A k \in Children[n] : Rest(n, k)
    BY <1>1, <1>2, <2>1 DEF AheadOf
  <2>3. at'[n] = "pass"
    BY <2>1 DEF Start
  <2>4. AheadOf(n)' /\ Sofar(n)'
    BY <1>1, <2>3 DEF AheadOf, Sofar
  <2>5. Children[n] \in SUBSET Children[n]
    OBVIOUS
  <2> QED BY <1>1, <2>1, <2>2, <2>4, <2>5, Launched
<1>6. CASE LoopEnds(n)
  <2>1. at[n] = "enter" /\ Return(n, FALSE) /\ UNCHANGED <<at, pos, runs, why>>
    BY <1>6 DEF LoopEnds, Running
  <2>2. st' = [st EXCEPT ![n] = "returned"] /\ bad' = [bad EXCEPT ![n] = FALSE]
    BY <2>1 DEF Return
  <2>3. \A k \in Children[n] : Rest(n, k)
    BY <1>1, <1>2, <2>1 DEF AheadOf
  <2>4. ~GaveUp(n) /\ \A k \in Children[n] : ChildOver(n, k)
    BY <1>1, <2>3 DEF Rest, ChildOver, GaveUp
  <2>5. why = {} /\ ~walk_stop =>
            Excused(n) \/ \A k \in Children[n] : st[k] \in {"returned", "done"}
    <3>1. runs[n] \in Nat
      BY <1>0, Constants DEF TaskTypes
    <3> QED BY <1>1, <1>2, <2>1, <3>1 DEF Sofar, Excused
  <2> QED BY <1>1, <1>3, <2>1, <2>2, <2>3, <2>4, <2>5, Finished
<1>7. CASE LoopFails(n)
  <2>1. at[n] = "enter" /\ Return(n, TRUE) /\ why' = why \cup {"unrecorded"} /\ UNCHANGED <<at, pos, runs>>
    BY <1>7 DEF LoopFails, Running
  <2>2. st' = [st EXCEPT ![n] = "returned"] /\ bad' = [bad EXCEPT ![n] = TRUE]
    BY <2>1 DEF Return
  <2>3. "unrecorded" \in why' /\ why' # {}
    BY <2>1
  <2>4. ~GaveUp(n) /\ \A k \in Children[n] : ChildOver(n, k)
    BY <1>1, <1>2, <2>1 DEF AheadOf, Rest, ChildOver, GaveUp
  <2> QED BY <1>1, <1>3, <2>1, <2>2, <2>3, <2>4, Finished
<1>8. CASE LoopBack(n)
  <2>1. /\ at[n] = "pass" /\ Goto(n, "enter") /\ st[Kids[n][1]] = "returned" /\ ~bad[Kids[n][1]]
        /\ why' = why
    BY <1>8 DEF LoopBack, Running
  <2>2. at' = [at EXCEPT ![n] = "enter"] /\ UNCHANGED <<st, pos, runs, bad>> /\ at'[n] = "enter"
    BY <1>0, <2>1 DEF Goto, TaskTypes
  <2>3. AheadOf(n)'
    BY <1>1, <1>4, <2>1, <2>2 DEF AheadOf, Rest
  <2>4. Sofar(n)'
    BY <1>1, <1>4, <2>1, <2>2 DEF Sofar
  <2> QED BY <1>1, <1>3, <2>1, <2>2, <2>3, <2>4, Moved
<1>9. CASE LoopBroken(n)
  <2>1. /\ at[n] = "pass" /\ Return(n, TRUE) /\ st[Kids[n][1]] = "returned" /\ bad[Kids[n][1]]
        /\ UNCHANGED <<at, pos, runs, why>>
    BY <1>9 DEF LoopBroken, Running
  <2>2. st' = [st EXCEPT ![n] = "returned"] /\ bad' = [bad EXCEPT ![n] = TRUE]
    BY <2>1 DEF Return
  <2>3. ~GaveUp(n) /\ \A k \in Children[n] : ChildOver(n, k)
    BY <1>1, <1>4, <2>1 DEF ChildOver, GaveUp
  <2>4. why # {} /\ ("unrecorded" \in why \/ walk_stop)
    BY <1>0, <1>4, <2>1 DEF Blamed
  <2> QED BY <1>1, <1>3, <2>1, <2>2, <2>3, <2>4, Finished
<1> QED BY <1>5, <1>6, <1>7, <1>8, <1>9 DEF LoopStep

\* The steps a phase begins with, and the trip of its stop condition.
LEMMA PhaseBeginKeeps ==
    ASSUME Inv, TypeOK', Grows, NEW n \in Nodes, PhaseBegins(n) \/ ConditionTrips(n)
    PROVE  Core'
<1>0. TaskTypes
  BY Halves DEF Inv
<1>1. Kind[n] = "phase" /\ st[n] = "run" /\ at[n] \in {"enter", "running"}
  BY DEF PhaseBegins, PhaseSkips, EarlyFails, EarlyFailsAgain, PhaseStarts, ConditionTrips, Running
<1>2. n \in Phases /\ Children[n] = {} /\ ~GaveUp(n)
  BY <1>1, Leaves DEF Phases, GaveUp
<1>3. AheadOf(n)' /\ Sofar(n)' /\ ~Evaluating(n)
  BY <1>1 DEF AheadOf, Sofar, Evaluating
<1>4. CASE PhaseSkips(n)
  <2>1. n \in reached' /\ Succeed(n) /\ UNCHANGED <<children_failed, walk_stop, why>>
    BY <1>4 DEF PhaseSkips, shell_vars
  <2>2. CASE Goto(n, "dwell")
    <3>1. at' = [at EXCEPT ![n] = "dwell"] /\ UNCHANGED <<st, pos, runs, bad>>
      BY <2>2 DEF Goto
    <3> QED BY <1>1, <1>3, <2>1, <3>1, Moved
  <2>3. CASE Return(n, FALSE) /\ UNCHANGED <<at, pos, runs>>
    <3>1. st' = [st EXCEPT ![n] = "returned"] /\ bad' = [bad EXCEPT ![n] = FALSE]
      BY <2>3 DEF Return
    <3> QED BY <1>1, <1>2, <1>3, <2>1, <2>3, <3>1, Finished
  <2> QED BY <2>1, <2>2, <2>3 DEF Succeed
<1>5. CASE EarlyFails(n)
  <2>1. Goto(n, "failed")
    BY <1>5 DEF EarlyFails
  <2>2. at' = [at EXCEPT ![n] = "failed"] /\ UNCHANGED <<st, pos, runs, bad>> /\ at'[n] = "failed"
    BY <1>0, <2>1 DEF Goto, TaskTypes
  <2>3. Evaluating(n)'
    BY <1>1, <1>2, <2>2 DEF Evaluating
  <2> QED BY <1>1, <1>3, <2>2, <2>3, Moved
<1>6. CASE EarlyFailsAgain(n)
  <2>1. Return(n, TRUE) /\ UNCHANGED <<at, pos, runs, children_failed>> /\ why' = why \cup {"unrecorded"}
    BY <1>6 DEF EarlyFailsAgain, shell_vars
  <2>2. st' = [st EXCEPT ![n] = "returned"] /\ bad' = [bad EXCEPT ![n] = TRUE]
    BY <2>1 DEF Return
  <2>3. "unrecorded" \in why' /\ why' # {}
    BY <2>1
  <2> QED BY <1>1, <1>2, <1>3, <2>1, <2>2, <2>3, Finished
<1>7. CASE PhaseStarts(n)
  <2>1. Goto(n, "running") /\ UNCHANGED <<children_failed, why>>
    BY <1>7 DEF PhaseStarts, shell_vars
  <2>2. at' = [at EXCEPT ![n] = "running"] /\ UNCHANGED <<st, pos, runs, bad>>
    BY <2>1 DEF Goto
  <2> QED BY <1>1, <1>3, <2>1, <2>2, Moved
<1>8. CASE ConditionTrips(n)
  <2>1. PICK s \in {"stopping", "failing"} : Goto(n, s)
    BY <1>8 DEF ConditionTrips
  <2>2. UNCHANGED <<children_failed, why>>
    BY <1>8 DEF ConditionTrips
  <2>3. at' = [at EXCEPT ![n] = s] /\ UNCHANGED <<st, pos, runs, bad>>
    BY <2>1 DEF Goto
  <2> QED BY <1>1, <1>3, <2>2, <2>3, Moved
<1> QED BY <1>4, <1>5, <1>6, <1>7, <1>8 DEF PhaseBegins

\* The steps a phase ends with.
LEMMA PhaseEndKeeps ==
    ASSUME Inv, TypeOK', Grows, NEW n \in Nodes, PhaseEnds(n) \/ PhaseReturns(n)
    PROVE  Core'
<1>0. TaskTypes /\ RestTypes /\ Paced
  BY Halves DEF Inv
<1>1. Kind[n] = "phase" /\ st[n] = "run" /\ at[n] \in Began
  BY DEF PhaseEnds, PhaseCompletes, PhaseFails, Panics, PhaseReturns, FailureEvaluated,
         CompletionFails, CompletionEvaluated, RunAgain, DwellCut, Running, Began
<1>2. n \in Phases /\ Children[n] = {} /\ ~GaveUp(n)
  BY <1>1, Leaves DEF Phases, GaveUp
<1>3. AheadOf(n)' /\ Sofar(n)'
  BY <1>1 DEF AheadOf, Sofar
<1>4. n \in reached /\ n \in reached'
  BY <1>0, <1>1 DEF Paced, Grows
<1>5. at[n] \notin {"failed", "completed"} => ~Evaluating(n)
  BY DEF Evaluating
<1>6. CASE PhaseCompletes(n) \/ PhaseFails(n)
  <2>1. PICK s \in {"completed", "failed"} : Goto(n, s) /\ (s = "completed" => why' = why)
    BY <1>6 DEF PhaseCompletes, PhaseFails
  <2>2. at[n] \in {"running", "stopping", "failing"}
    BY <1>6 DEF PhaseCompletes, PhaseFails, Running
  <2>3. at' = [at EXCEPT ![n] = s] /\ UNCHANGED <<st, pos, runs, bad>> /\ at'[n] = s
    BY <1>0, <2>1 DEF Goto, TaskTypes
  <2>4. Evaluating(n)'
    BY <1>1, <1>2, <2>3 DEF Evaluating
  <2> QED BY <1>1, <1>3, <2>1, <2>2, <2>3, <2>4, Moved
<1>7. CASE Panics(n)
  <2>1. /\ st' = [st EXCEPT ![n] = "returned"] /\ bad' = [bad EXCEPT ![n] = TRUE] /\ at[n] = "running"
        /\ why' = why \cup {"unrecorded"} /\ UNCHANGED <<at, pos, runs, children_failed>>
    BY <1>7 DEF Panics, Return, Running, shell_vars
  <2>2. "unrecorded" \in why' /\ why' # {}
    BY <2>1
  <2> QED BY <1>1, <1>2, <1>5, <2>1, <2>2, Finished
<1>8. CASE FailureEvaluated(n) \/ CompletionFails(n)
  <2>1. Return(n, TRUE) /\ UNCHANGED <<at, pos, runs, children_failed>>
    BY <1>8 DEF FailureEvaluated, CompletionFails
  <2>2. st' = [st EXCEPT ![n] = "returned"] /\ bad' = [bad EXCEPT ![n] = TRUE]
    BY <2>1 DEF Return
  <2>3. why' # {} /\ walk_stop'
    <3>1. CASE FailureEvaluated(n)
      <4>1. children_failed > 0 /\ why # {} /\ why' = why
        BY <1>0, <3>1 DEF FailureEvaluated, Running, Paced
      <4>2. walk_stop \/ Trip # "none"
        BY <4>1 DEF Trip
      <4> QED BY <3>1, <4>1, <4>2 DEF FailureEvaluated
    <3>2. CASE CompletionFails(n)
      BY <3>2 DEF CompletionFails
    <3> QED BY <1>8, <3>1, <3>2
  <2> QED BY <1>1, <1>2, <2>1, <2>2, <2>3, Finished
<1>9. CASE CompletionEvaluated(n)
  <2>1. /\ at[n] = "completed" /\ Trip # "fail" /\ Succeed(n) /\ UNCHANGED <<children_failed, why>>
        /\ walk_stop => walk_stop'
    BY <1>9 DEF CompletionEvaluated, Running
  <2>2. ~(children_failed' > 0 /\ ~walk_stop')
    BY <2>1 DEF Trip
  <2>3. CASE Goto(n, "dwell")
    <3>1. at' = [at EXCEPT ![n] = "dwell"] /\ UNCHANGED <<st, pos, runs, bad>>
      BY <2>3 DEF Goto
    <3> QED BY <1>1, <1>3, <2>1, <2>2, <3>1, Moved
  <2>4. CASE Return(n, FALSE) /\ UNCHANGED <<at, pos, runs>>
    <3>1. st' = [st EXCEPT ![n] = "returned"] /\ bad' = [bad EXCEPT ![n] = FALSE]
      BY <2>4 DEF Return
    <3> QED BY <1>1, <1>2, <1>4, <2>1, <2>2, <2>4, <3>1, Finished
  <2> QED BY <2>1, <2>3, <2>4 DEF Succeed
<1>10. CASE RunAgain(n)
  <2>1. /\ at[n] = "dwell" /\ at' = [at EXCEPT ![n] = "enter"] /\ runs' = [runs EXCEPT ![n] = @ + 1]
        /\ UNCHANGED <<st, pos, bad, children_failed, why>>
    BY <1>10 DEF RunAgain, Running, shell_vars
  <2>2. \A m \in Nodes : m # n => runs'[m] = runs[m]
    BY <1>0, <2>1 DEF TaskTypes
  <2> QED BY <1>1, <1>3, <1>5, <2>1, <2>2, Moved
<1>11. CASE DwellCut(n)
  <2>1. at[n] = "dwell" /\ Return(n, FALSE) /\ UNCHANGED <<at, pos, runs, children_failed, why>>
    BY <1>11 DEF DwellCut, Running, shell_vars
  <2>2. st' = [st EXCEPT ![n] = "returned"] /\ bad' = [bad EXCEPT ![n] = FALSE]
    BY <2>1 DEF Return
  <2> QED BY <1>1, <1>2, <1>4, <1>5, <2>1, <2>2, Finished
<1> QED BY <1>6, <1>7, <1>8, <1>9, <1>10, <1>11 DEF PhaseEnds, PhaseReturns

\* A result is joined, or its task dropped.
LEMMA TaskKeeps ==
    ASSUME Inv, NEW n \in Nodes, Joinable(n) \/ Dropped(n)
    PROVE  Core'
<1>0. TaskTypes /\ Calm /\ Nested
  BY Halves DEF Inv, Core
<1>1. CASE Joinable(n)
  <2>1. /\ st[n] = "returned" /\ n # Root /\ Kind[Parent[n]] # "loop" /\ st' = [st EXCEPT ![n] = "done"]
        /\ UNCHANGED <<at, pos, runs, bad, reached, children_failed, walk_stop, why>>
    BY <1>1 DEF Joinable, shell_vars
  <2>2. ~Evaluating(n)
    BY <2>1 DEF Evaluating
  <2> QED BY <2>1, <2>2, PutDown
<1>2. CASE Dropped(n)
  <2>1. /\ st[n] \in {"run", "returned"} /\ n # Root /\ at[n] \notin {"failed", "completed"}
        /\ st' = [st EXCEPT ![n] = "dropped"]
        /\ UNCHANGED <<at, pos, runs, bad, reached, children_failed, walk_stop, why>>
    BY <1>2 DEF Dropped, shell_vars
  <2>2. /\ Kind[Parent[n]] # "loop" => st[Parent[n]] # "run"
        /\ Kind[Parent[n]] = "loop" => st[Parent[n]] = "dropped"
    BY <1>2 DEF Dropped
  <2>3. Parent[n] \in Nodes /\ n \in Children[Parent[n]]
    BY <2>1, Parents
  <2>4. ~Quiet(Parent[n])
    <3> SUFFICES ASSUME Quiet(Parent[n]) PROVE FALSE
      OBVIOUS
    <3>1. Rest(Parent[n], n)
      BY <1>0, <2>3 DEF Calm
    <3>2. Kind[Parent[n]] = "loop"
      BY <2>1, <3>1 DEF Rest
    <3> QED BY <2>2, <3>2 DEF Quiet
  <2>5. "unrecorded" \in why
    <3> SUFFICES ASSUME "unrecorded" \notin why PROVE FALSE
      OBVIOUS
    <3>1. st[Parent[n]] # "dropped"
      BY <1>0, <2>3 DEF Nested
    <3>2. Kind[Parent[n]] # "loop" /\ st[Parent[n]] \in {"returned", "done"}
      BY <1>0, <2>2, <2>3, <2>4, <3>1 DEF Quiet, TaskTypes
    <3>3. ChildOver(Parent[n], n)
      BY <1>0, <2>3, <3>2 DEF Nested, Joins
    <3> QED BY <2>1, <3>2, <3>3 DEF ChildOver
  <2>6. ~Evaluating(n) /\ st[Parent[n]] # "run"
    BY <2>1, <2>2 DEF Evaluating
  <2> QED BY <2>1, <2>2, <2>4, <2>5, <2>6, PutDown
<1> QED BY <1>1, <1>2

\* A step that changes neither the tasks, the shell nor the failures keeps Core.
LEMMA IdleKeeps ==
    ASSUME Core,
           UNCHANGED <<st, at, pos, runs, bad, reached, children_failed, walk_stop, why>>
    PROVE  Core'
<1>0. Calm /\ Ahead /\ Nested /\ Halting /\ Blamed /\ Serial /\ Visited /\ Carried
  BY DEF Core
<1>1. Calm' /\ Nested' /\ Blamed'
  BY <1>0 DEF Calm, Quiet, Rest, Nested, Joins, GaveUp, MoreSteps, ChildOver, Blamed
<1>2. \A n \in Nodes : AheadOf(n)' = AheadOf(n) /\ Sofar(n)' = Sofar(n) /\ SerialAt(n)' = SerialAt(n)
  BY DEF AheadOf, Sofar, SerialAt, Left, Rest
<1>3. Ahead' /\ Serial'
  BY <1>0, <1>2 DEF Ahead, Serial
<1>4. \A n \in Nodes : Through(n)' = Through(n)
  BY DEF Through, Excused
<1>5. Visited'
  BY <1>0, <1>2, <1>4 DEF Visited
<1>6. Halting' /\ Carried'
  BY <1>0 DEF Halting, Evaluating, Carried, Holds
<1> QED BY <1>1, <1>3, <1>5, <1>6 DEF Core

-----------------------------------------------------------------------------
\* The invariant

\* It holds before the root's first step.
LEMMA InvInit == Init => Inv
<1> SUFFICES ASSUME Init PROVE Inv
  OBVIOUS
<1>1. /\ \A n \in Nodes : /\ n # Root => st[n] = "off"
                          /\ at[n] = "enter" /\ pos[n] = 1 /\ runs[n] = 0 /\ bad[n] = FALSE
      /\ st[Root] = "run" /\ why = {} /\ children_failed = 0
  BY Constants DEF Init
<1>2. \A n \in Nodes : \A k \in Children[n] : k \in Nodes /\ k # Root /\ st[k] = "off"
  BY <1>1, Parents
<1>3. \A n \in Nodes : \A i \in 1..Len(Kids[n]) : Kids[n][i] \in Children[n]
  BY Lists
<1>4. TypeOK
  <2>1. TaskTypes
    BY Constants DEF Init, TaskTypes
  <2>2. RestTypes
    BY DEF Init, RestTypes
  <2> QED BY <2>1, <2>2, Halves
<1>5. Paced
  BY <1>1 DEF Paced, Began
<1>6. Calm /\ Nested /\ Halting /\ Blamed /\ Carried
  BY <1>1, <1>2 DEF Calm, Rest, Nested, ChildOver, Halting, Blamed, Carried
<1>7. Ahead
  BY <1>1, <1>2, <1>3 DEF Ahead, AheadOf, Rest
<1>8. Serial
  BY <1>2, <1>3 DEF Serial, SerialAt
<1>9. Visited
  BY <1>1, Constants DEF Visited, Sofar
<1> QED BY <1>4, <1>5, <1>6, <1>7, <1>8, <1>9 DEF Inv, Core

\* Every step of the walk keeps it.
LEMMA InvStep == Inv /\ [Next]_vars => Inv'
<1> SUFFICES ASSUME Inv, [Next]_vars PROVE Inv'
  OBVIOUS
<1>1. TypeOK' /\ Paced' /\ Grows
  BY TypeStep DEF Inv
<1>2. Core'
  <2>1. ASSUME NEW n \in Nodes, BodyStep(n) PROVE Core'
    BY <1>1, <2>1, BodyKeeps
  <2>2. ASSUME NEW n \in Nodes, SweepStep(n) PROVE Core'
    BY <1>1, <2>2, SweepKeeps
  <2>3. ASSUME NEW n \in Nodes, LoopStep(n) PROVE Core'
    BY <1>1, <2>3, LoopKeeps
  <2>4. ASSUME NEW n \in Nodes, PhaseBegins(n) \/ ConditionTrips(n) PROVE Core'
    BY <1>1, <2>4, PhaseBeginKeeps
  <2>5. ASSUME NEW n \in Nodes, PhaseEnds(n) \/ PhaseReturns(n) PROVE Core'
    BY <1>1, <2>5, PhaseEndKeeps
  <2>6. ASSUME NEW n \in Nodes, Joinable(n) \/ Dropped(n) PROVE Core'
    BY <2>6, TaskKeeps
  <2>7. CASE SessionStop \/ Ended \/ UNCHANGED vars
    <3>1. UNCHANGED <<st, at, pos, runs, bad, reached, children_failed, walk_stop, why>>
      BY <2>7 DEF SessionStop, Ended, vars, task_vars, shell_vars
    <3> QED BY <3>1, IdleKeeps DEF Inv
  <2> QED BY <2>1, <2>2, <2>3, <2>4, <2>5, <2>6, <2>7 DEF Next
<1> QED BY <1>1, <1>2 DEF Inv

\* So it always holds.
LEMMA InvAlways == Spec => []Inv
BY InvInit, InvStep, PTL DEF Spec

-----------------------------------------------------------------------------
\* What it says

\* The variables of the walk keep their types.
THEOREM TypeCorrect == Spec => []TypeOK
<1>1. Inv => TypeOK
  BY DEF Inv
<1> QED BY <1>1, InvAlways, PTL

\* The run fails exactly if some unit of it failed, whatever the tree: a failure
\* is carried by a node below which nothing can hide it, up to the root.
THEOREM FailuresSurface == Spec => []FailureSurfaces
<1>1. Inv => FailureSurfaces
  <2> SUFFICES ASSUME Inv, Over PROVE bad[Root] <=> why # {}
    BY DEF FailureSurfaces
  <2>1. Root \in Nodes
    BY Constants
  <2>2. bad[Root] => why # {}
    BY <2>1 DEF Inv, Core, Blamed
  <2>3. ASSUME why # {} PROVE bad[Root]
    <3>1. PICK n \in Nodes : Holds(n) /\ \A a \in Above[n] : st[a] = "run"
      BY <2>3 DEF Inv, Core, Carried
    <3>2. n = Root
      BY <3>1, Ancestors DEF Over
    <3> QED BY <3>1, <3>2 DEF Holds, Over
  <2> QED BY <2>2, <2>3
<1> QED BY <1>1, InvAlways, PTL

\* In a body that runs its children one at a time none is started after one that
\* failed, unless a unit failed that no shell recorded.
THEOREM CascadeIsSerial == Spec => []SerialCascade
<1>1. Inv => SerialCascade
  BY DEF Inv, Core, Serial, SerialAt, SerialCascade
<1> QED BY <1>1, InvAlways, PTL

\* Once no phase is between the count of its outcome and the evaluation of it, a
\* counted failure has stopped the walk.
THEOREM FailuresHalt == Spec => []FailureHalts
<1>1. Inv => FailureHalts
  BY DEF Inv, Core, Halting, Evaluating, FailureHalts
<1> QED BY <1>1, InvAlways, PTL

\* No task outlives its parent, whatever failed or panicked, but for the children
\* of a sweep whose gate could not be evaluated.
THEOREM TasksNest == Spec => []TasksAreNested
<1>1. Inv => TasksAreNested
  BY DEF Inv, Core, Nested, Joins, ChildOver, TasksAreNested
<1> QED BY <1>1, InvAlways, PTL

\* Without a stop and a failure every phase is reached but for those under a gate
\* that no longer held or a loop that never ran: going up from a phase that was
\* not reached, one meets a first node that is over, and it left its child out.
THEOREM NothingIsStranded == Spec => []NothingStranded
<1>1. Inv => NothingStranded
  <2> SUFFICES ASSUME Inv, Over, ~walk_stop, why = {}, NEW p \in Phases \ reached,
                      \A a \in Above[p] : ~Excused(a)
               PROVE  FALSE
    BY DEF NothingStranded, Excused
  <2>1. \A n \in Nodes : st[n] \in {"returned", "done"} => Through(n)
    BY DEF Inv, Core, Visited
  <2>2. p \in Nodes /\ p # Root
    BY Leaves
  <2>3. Above[p] \in SUBSET Nodes /\ HoldsParents(Above[p]) /\ Parent[p] \in Above[p]
    BY <2>2, Ancestors
  <2> DEFINE U == {m \in {p} \cup Above[p] : st[m] \notin {"returned", "done"}}
  <2>4. p \in U
    BY <2>1, <2>2 DEF Through
  <2>5. U \in SUBSET Nodes /\ U # {}
    BY <2>2, <2>3, <2>4
  <2>6. PICK x \in U : \A m \in U : x \notin Children[m]
    <3> HIDE DEF U
    <3> QED BY <2>5, Founded
  <2>7. x \in Nodes \ {Root}
    BY <2>5, <2>6 DEF Over
  <2>8. Parent[x] \in Above[p]
    BY <2>3, <2>6, <2>7 DEF HoldsParents
  <2>9. Parent[x] \in Nodes /\ x \in Children[Parent[x]]
    BY <2>7, Parents
  <2>10. st[Parent[x]] \in {"returned", "done"}
    BY <2>6, <2>8, <2>9
  <2>11. Through(Parent[x]) /\ ~Excused(Parent[x])
    BY <2>1, <2>8, <2>9, <2>10
  <2> QED BY <2>6, <2>9, <2>11 DEF Through
<1> QED BY <1>1, InvAlways, PTL
=============================================================================
