-------------------------- MODULE CheckpointProofs --------------------------
(***************************************************************************)
(* Proofs about Checkpoint, for any tree of phases, any workloads and any  *)
(* number of invocations, crashes and refused appends.                     *)
(*                                                                         *)
(* The invariant is one statement per phase, since an event concerns one   *)
(* phase and the log is folded phase by phase: what an action does to the  *)
(* phase it is about is shown action by action, and every other phase is   *)
(* covered by one frame lemma.                                             *)
(***************************************************************************)
EXTENDS Checkpoint, TLAPS

\* What has run in this invocation has an outcome on its scene node, what is
\* skipped is never compiled, and what is declared has an entry in the mirror.
Progress(p) ==
    /\ stage = "off" => pc[p] = "idle"
    /\ stage = "locked" => pc[p] = "undeclared"
    /\ pc[p] \notin {"undeclared", "idle"} => stage = "up"
    /\ pc[p] = "done" => recorded[p]
    /\ recorded[p] => plan[p] # "skip" /\ stage = "up"
    /\ pc[p] \in {"compiling", "hashed", "running", "done", "failed"} => plan[p] # "skip"
    /\ pc[p] = "skipped" => plan[p] = "skip"
    /\ stage = "up" /\ pc[p] # "undeclared" => mirror[p].status # "absent"

\* A phase that runs is logged as running, at the version that runs; one whose
\* ops last completed is logged so, or as failed since before it was compiled.
Logged(p) ==
    /\ pc[p] = "running" /\ ~unsure[p] =>
          /\ disk[p].status = "running"
          /\ last[p] = [version |-> disk[p].hash, end |-> "partial"]
    /\ last[p].end = "complete" /\ ~unsure[p] /\ pc[p] # "hashed" =>
          /\ disk[p].status \in {"completed", "failed"}
          /\ disk[p].hash = last[p].version
    /\ disk[p].status = "completed" /\ ~unsure[p] /\ pc[p] # "hashed" =>
          last[p] = [version |-> disk[p].hash, end |-> "complete"]

\* Until a phase is hashed, the plan is the one the log still calls for, and the
\* mirror has the log's entry if there is one.
Planned(p) ==
    stage # "off" /\ ~stale =>
        /\ hurt[p] \/ mirror[p] = disk[p]
        /\ ~recorded[p] /\ pc[p] \in {"undeclared", "idle", "skipped", "compiling"} =>
              /\ plan[p] = classify(disk[p], version[p], idempotent[p])
              /\ disk[p].status = "absent" \/ mirror[p] = disk[p]

PhaseInv(p) == Progress(p) /\ Logged(p) /\ Planned(p)

Inv == TypeOK /\ \A p \in Phases : PhaseInv(p)

-----------------------------------------------------------------------------
\* A declaration creates an entry where there is none.
LEMMA FoldDeclared ==
    ASSUME NEW n \in Entry, NEW p \in Phases, NEW b \in BOOLEAN
    PROVE  apply_entry(n, Declared(p, b)) =
              IF n.status = "absent"
              THEN [status |-> "pending", hash |-> NoHash, skip_eligible |-> b] ELSE n
BY DEF apply_entry, Declared

\* An entry with another hash, and with another status.
WithHash(n, v) == [n EXCEPT !.hash = v]
WithStatus(n, s) == [n EXCEPT !.status = s]

\* The event of a change of status.
Mark(p, s) == [kind |-> s, phase |-> p, arg |-> FALSE]

\* A hash is recorded in an entry that is there, and nothing else changes.
LEMMA FoldHashed ==
    ASSUME NEW n \in Entry, NEW p \in Phases, NEW v \in Versions \cup {NoHash}
    PROVE  /\ apply_entry(n, Hashed(p, v)) = IF n.status = "absent" THEN n ELSE WithHash(n, v)
           /\ WithHash(n, v) \in Entry
           /\ WithHash(n, v).hash = v
           /\ WithHash(n, v).status = n.status
<1>1. apply_entry(n, Hashed(p, v)) = IF n.status = "absent" THEN n ELSE [n EXCEPT !.hash = v]
  BY DEF apply_entry, Hashed
<1> QED BY <1>1 DEF Entry, WithHash

\* So is a change of status.
LEMMA FoldStatus ==
    ASSUME NEW n \in Entry, NEW p \in Phases, NEW s \in {"running", "completed", "failed"}
    PROVE  /\ apply_entry(n, Mark(p, s)) = IF n.status = "absent" THEN n ELSE WithStatus(n, s)
           /\ WithStatus(n, s) \in Entry
           /\ WithStatus(n, s).status = s
           /\ WithStatus(n, s).hash = n.hash
<1>1. apply_entry(n, Mark(p, s)) = IF n.status = "absent" THEN n ELSE [n EXCEPT !.status = s]
  BY DEF apply_entry, Mark
<1> QED BY <1>1 DEF Entry, WithStatus

\* append_event: the event is folded into its phase's entry, or it is lost and
\* the phase is hurt.  The types hold, and no other phase is concerned.
LEMMA AppendEffect ==
    ASSUME TypeOK, NEW p \in Phases, NEW e, e.phase = p,
           apply_entry(disk[p], e) \in Entry, append_event(e)
    PROVE  /\ disk' \in [Phases -> Entry] /\ head' \in {"none", "start", "bad"}
           /\ torn' \in BOOLEAN /\ faults' \in Nat /\ hurt' \in [Phases -> BOOLEAN]
           /\ head' = "none" => disk' = Blank
           /\ head = "start" => head' = "start"
           /\ \A q \in Phases \ {p} : disk'[q] = disk[q] /\ hurt'[q] = hurt[q]
           /\ \/ disk'[p] = disk[p] /\ hurt'[p] = TRUE
              \/ disk'[p] = apply_entry(disk[p], e) /\ hurt'[p] = hurt[p]
<1> USE DEF TypeOK
<1> DEFINE a == apply_entry(disk[p], e)
<1> HIDE DEF a
<1>0. /\ a \in Entry
      /\ apply_event(disk, e) = [disk EXCEPT ![p] = a]
  BY DEF apply_event, a
<1>a. CASE Lands(e) /\ hurt' = [hurt EXCEPT ![p] = hurt[p] \/ torn]
  <2>1. head' # "none" /\ head' \in {"none", "start", "bad"} /\ (head = "start" => head' = "start")
    BY <1>a DEF Lands
  <2>2. torn' = FALSE /\ faults' = faults
    BY <1>a DEF Lands
  <2>3. CASE torn
    <3>1. disk' = disk /\ hurt' = [hurt EXCEPT ![p] = TRUE]
      BY <1>a, <2>3 DEF Lands
    <3> QED BY <2>1, <2>2, <3>1
  <2>4. CASE ~torn
    <3>1. disk' = [disk EXCEPT ![p] = a]
      BY <1>a, <1>0, <2>4 DEF Lands
    <3>2. hurt' = hurt
      BY <1>a, <2>4
    <3> QED BY <2>1, <2>2, <3>1, <3>2, <1>0 DEF a
  <2> QED BY <2>3, <2>4
<1>b. CASE Refused /\ hurt' = [hurt EXCEPT ![p] = TRUE]
  <2>1. disk' = disk /\ head' = head
    BY <1>b DEF Refused
  <2>2. faults' \in Nat
    BY <1>b DEF Refused
  <2>3. torn' \in BOOLEAN
    BY <1>b, Zenon DEF Refused
  <2> QED BY <1>b, <2>1, <2>2, <2>3
<1> QED BY <1>a, <1>b DEF append_event

\* A phase of which an action changes nothing keeps its invariant.
LEMMA Frame ==
    ASSUME NEW q \in Phases, PhaseInv(q),
           stage' = stage, stale' = stale, pc'[q] = pc[q], disk'[q] = disk[q],
           mirror'[q] = mirror[q], version' = version, idempotent' = idempotent, plan' = plan,
           recorded'[q] = recorded[q], last'[q] = last[q], hurt'[q] = hurt[q],
           unsure'[q] = unsure[q]
    PROVE  PhaseInv(q)'
<1>1. Progress(q)'
  BY DEF PhaseInv, Progress
<1>2. Logged(q)'
  BY DEF PhaseInv, Logged
<1>3. Planned(q)'
  BY DEF PhaseInv, Planned, classify
<1> QED BY <1>1, <1>2, <1>3 DEF PhaseInv

-----------------------------------------------------------------------------
\* The session directory before its first invocation.
LEMMA InvInit == Init => Inv
<1> SUFFICES ASSUME Init PROVE Inv
  OBVIOUS
<1> USE DEF Init, Blank, No, Absent
<1>0. Absent \in Entry /\ Blank \in [Phases -> Entry]
  BY DEF Entry
<1>1. TypeOK
  <2>1. /\ disk \in [Phases -> Entry] /\ mirror \in [Phases -> Entry]
        /\ reader \in [on : BOOLEAN, doc : [Phases -> Entry]]
        /\ head = "none" => disk = Blank
    BY <1>0
  <2>2. /\ head \in {"none", "start", "bad"} /\ stage \in {"off", "locked", "up"}
        /\ version \in [Phases -> Versions \cup {NoHash}]
        /\ plan \in [Phases -> {"skip", "rerun"}] /\ pc \in [Phases -> Steps]
        /\ boots \in Nat /\ faults \in Nat
    BY DEF Steps
  <2>3. /\ torn \in BOOLEAN /\ stale \in BOOLEAN
        /\ idempotent \in [Phases -> BOOLEAN] /\ recorded \in [Phases -> BOOLEAN]
        /\ hurt \in [Phases -> BOOLEAN] /\ unsure \in [Phases -> BOOLEAN]
    OBVIOUS
  <2>4. last \in [Phases -> Attempt]
    BY DEF Attempt
  <2> QED BY <2>1, <2>2, <2>3, <2>4 DEF TypeOK
<1>2. ASSUME NEW p \in Phases PROVE PhaseInv(p)
  BY DEF PhaseInv, Progress, Logged, Planned
<1> QED BY <1>1, <1>2 DEF Inv

\* The end of a process, by the end of its session or by a crash, forgets what
\* it knew; the log and what the phases did stay.
LEMMA ForgetInv ==
    ASSUME Inv, Forget, disk' = disk, head' = head, last' = last, reader' = reader,
           boots' = boots, faults' = faults, torn' \in BOOLEAN,
           unsure' = [p \in Phases |-> unsure[p] \/ pc[p] = "hashed"]
    PROVE  Inv'
<1> USE DEF Inv
<1>0. Absent \in Entry /\ Blank \in [Phases -> Entry]
  BY DEF Blank, Absent, Entry
<1>1. TypeOK'
  <2>1. /\ disk' \in [Phases -> Entry] /\ mirror' \in [Phases -> Entry]
        /\ reader' \in [on : BOOLEAN, doc : [Phases -> Entry]]
        /\ head' = "none" => disk' = Blank
    BY <1>0 DEF TypeOK, Forget
  <2>2. /\ head' \in {"none", "start", "bad"} /\ stage' \in {"off", "locked", "up"}
        /\ version' \in [Phases -> Versions \cup {NoHash}]
        /\ plan' \in [Phases -> {"skip", "rerun"}] /\ pc' \in [Phases -> Steps]
        /\ boots' \in Nat /\ faults' \in Nat /\ last' \in [Phases -> Attempt]
    BY DEF Steps, TypeOK, Forget
  <2>3. /\ torn' \in BOOLEAN /\ stale' \in BOOLEAN
        /\ idempotent' \in [Phases -> BOOLEAN] /\ recorded' \in [Phases -> BOOLEAN]
        /\ hurt' \in [Phases -> BOOLEAN] /\ unsure' \in [Phases -> BOOLEAN]
    BY DEF TypeOK, Forget, No
  <2> QED BY <2>1, <2>2, <2>3 DEF TypeOK
<1>2. ASSUME NEW p \in Phases PROVE PhaseInv(p)'
  <2>1. Progress(p)' /\ Planned(p)'
    BY DEF PhaseInv, Progress, Planned, Forget, No
  <2>2. pc'[p] = "idle" /\ (~unsure'[p] => ~unsure[p] /\ pc[p] # "hashed")
    BY DEF Forget
  <2>3. Logged(p)'
    BY <2>2 DEF PhaseInv, Logged
  <2> QED BY <2>1, <2>3 DEF PhaseInv
<1> QED BY <1>1, <1>2

\* The start of an invocation: it reads the log, is refused the lock or takes
\* it, plans, and writes its session_start.
LEMMA StartInv ==
    ASSUME Inv, ReadLog \/ LockRefused \/ TakeLock \/ SessionStart
    PROVE  Inv'
<1> USE CheckpointAssumption DEF CheckpointAssumption
<1>0. TypeOK /\ Blank \in [Phases -> Entry]
  BY DEF Inv, Blank, Absent, Entry
<1>1. CASE ReadLog
  <2>1. TypeOK'
    BY <1>0, <1>1 DEF TypeOK, ReadLog, file, history
  <2>2. ASSUME NEW q \in Phases PROVE PhaseInv(q)'
    BY <1>1, Frame DEF Inv, ReadLog, file, history
  <2> QED BY <2>1, <2>2 DEF Inv
<1>2. CASE LockRefused
  <2>1. TypeOK'
    BY <1>0, <1>2 DEF TypeOK, LockRefused, file, history
  <2>2. ASSUME NEW q \in Phases PROVE PhaseInv(q)'
    BY <1>2, Frame DEF Inv, LockRefused, file, history
  <2> QED BY <2>1, <2>2 DEF Inv
<1>3. CASE TakeLock
  <2>1. PICK w \in Workloads :
           /\ version' = w.version
           /\ idempotent' = w.idempotent
           /\ plan' = [p \in Phases |-> classify(reader.doc[p], w.version[p], w.idempotent[p])]
    BY <1>3 DEF TakeLock
  <2>2. w.version \in [Phases -> Versions] /\ w.idempotent \in [Phases -> BOOLEAN]
    OBVIOUS
  <2>3. /\ reader' = [reader EXCEPT !.on = FALSE, !.doc = Blank]
        /\ stage = "off" /\ stage' = "locked" /\ mirror' = reader.doc
        /\ stale' = (reader.doc # disk)
        /\ pc' = [p \in Phases |-> "undeclared"]
        /\ UNCHANGED <<disk, head, torn, recorded, boots, faults, last, hurt, unsure>>
    BY <1>3 DEF TakeLock, file, history
  <2>4. TypeOK'
    <3>1. reader' \in [on : BOOLEAN, doc : [Phases -> Entry]] /\ mirror' \in [Phases -> Entry]
      BY <1>0, <2>3 DEF TypeOK
    <3>2. version' \in [Phases -> Versions \cup {NoHash}] /\ idempotent' \in [Phases -> BOOLEAN]
      BY <2>1, <2>2
    <3>3. plan' \in [Phases -> {"skip", "rerun"}]
      BY <2>1 DEF classify
    <3>4. pc' \in [Phases -> Steps] /\ stage' \in {"off", "locked", "up"} /\ stale' \in BOOLEAN
      BY <2>3 DEF Steps
    <3> QED BY <1>0, <2>3, <3>1, <3>2, <3>3, <3>4 DEF TypeOK
  <2>5. ASSUME NEW q \in Phases PROVE PhaseInv(q)'
    <3>0. PhaseInv(q) /\ pc[q] = "idle"
      BY <2>3 DEF Inv, PhaseInv, Progress
    <3>1. Progress(q)'
      BY <2>3, <3>0 DEF PhaseInv, Progress
    <3>2. Logged(q)'
      BY <2>3, <3>0 DEF PhaseInv, Logged
    <3>3. Planned(q)'
      BY <2>1, <2>3 DEF Planned
    <3> QED BY <3>1, <3>2, <3>3 DEF PhaseInv
  <2> QED BY <2>4, <2>5 DEF Inv
<1>4. CASE SessionStart
  <2>1. /\ stage = "locked" /\ stage' = "up"
        /\ UNCHANGED <<disk, reader, mirror, version, idempotent, plan, pc, recorded, boots, stale,
                       last, hurt, unsure>>
    BY <1>4 DEF SessionStart, Refused, history
  <2>2. head' \in {"none", "start", "bad"} /\ (head' = "none" => head = "none")
    <3>1. head \in {"none", "start", "bad"}
      BY <1>0 DEF TypeOK
    <3> QED BY <1>4, <3>1 DEF SessionStart, Refused
  <2>6. faults' \in Nat
    <3>1. faults \in Nat /\ (faults' = faults \/ faults' = faults + 1)
      BY <1>4, <1>0 DEF SessionStart, Refused, TypeOK
    <3> QED BY <3>1
  <2>3. torn' \in BOOLEAN
    BY <1>4, <1>0, Zenon DEF SessionStart, Refused, TypeOK
  <2>4. TypeOK'
    BY <1>0, <2>1, <2>2, <2>3, <2>6 DEF TypeOK
  <2>5. ASSUME NEW q \in Phases PROVE PhaseInv(q)'
    <3>0. PhaseInv(q)
      BY DEF Inv
    <3>1. Progress(q)'
      BY <2>1, <3>0, <1>0 DEF PhaseInv, Progress, TypeOK, Steps
    <3>2. Logged(q)'
      BY <2>1, <3>0 DEF PhaseInv, Logged
    <3>3. Planned(q)'
      BY <2>1, <3>0 DEF PhaseInv, Planned
    <3> QED BY <3>1, <3>2, <3>3 DEF PhaseInv
  <2> QED BY <2>4, <2>5 DEF Inv
<1> QED BY <1>1, <1>2, <1>3, <1>4

\* The steps that write nothing: a phase is skipped, is compiled, or goes round
\* again.
LEMMA MoveInv ==
    ASSUME Inv, NEW p \in Phases, SkipPhase(p) \/ CompilePhase(p) \/ RunAgain(p)
    PROVE  Inv'
<1>0. TypeOK
  BY DEF Inv
<1>1. /\ UNCHANGED <<disk, head, torn, reader, stage, mirror, version, idempotent, plan, boots,
                     stale, recorded, faults, last, hurt, unsure>>
      /\ stage = "up"
      /\ \/ pc[p] = "idle" /\ plan[p] = "skip" /\ pc' = [pc EXCEPT ![p] = "skipped"]
         \/ pc[p] = "idle" /\ plan[p] # "skip" /\ pc' = [pc EXCEPT ![p] = "compiling"]
         \/ pc[p] = "done" /\ pc' = [pc EXCEPT ![p] = "idle"]
  BY DEF Inv, PhaseInv, Progress, SkipPhase, CompilePhase, RunAgain, Walking, file, session, history
<1>2. TypeOK'
  BY <1>0, <1>1 DEF TypeOK, Steps
<1>3. ASSUME NEW q \in Phases PROVE PhaseInv(q)'
  <2>0. PhaseInv(q) /\ pc \in [Phases -> Steps] /\ \A r \in Phases \ {p} : pc'[r] = pc[r]
    BY <1>0, <1>1 DEF Inv, TypeOK
  <2>1. CASE q # p
    BY <2>0, <2>1, <1>1, Frame
  <2>2. CASE q = p
    <3>1. Progress(q)'
      BY <1>1, <2>0, <2>2 DEF PhaseInv, Progress
    <3>2. Logged(q)'
      BY <1>1, <2>0, <2>2 DEF PhaseInv, Logged
    <3>3. Planned(q)'
      BY <1>1, <2>0, <2>2 DEF PhaseInv, Planned, Progress
    <3> QED BY <3>1, <3>2, <3>3 DEF PhaseInv
  <2> QED BY <2>1, <2>2
<1> QED BY <1>2, <1>3 DEF Inv

\* declare_phase.
LEMMA DeclareInv ==
    ASSUME Inv, NEW p \in Phases, DeclarePhase(p)
    PROVE  Inv'
<1> DEFINE new == [status |-> "pending", hash |-> NoHash, skip_eligible |-> idempotent[p]]
<1>0. TypeOK /\ PhaseInv(p)
  BY DEF Inv
<1>1. /\ UNCHANGED <<reader, stage, version, idempotent, plan, recorded, boots, stale, last, unsure>>
      /\ stage = "up" /\ pc[p] = "undeclared" /\ pc' = [pc EXCEPT ![p] = "idle"]
  BY DEF DeclarePhase
<1>2. new \in Entry /\ disk[p] \in Entry /\ mirror[p] \in Entry
  BY <1>0 DEF TypeOK, Entry
<1>3. pc' \in [Phases -> Steps] /\ pc'[p] = "idle" /\ \A q \in Phases \ {p} : pc'[q] = pc[q]
  BY <1>0, <1>1 DEF TypeOK, Steps
<1>a. CASE mirror[p].status # "absent"
  <2>1. UNCHANGED <<disk, head, torn, mirror, faults, hurt>>
    BY <1>a DEF DeclarePhase, file
  <2>2. TypeOK'
    BY <1>0, <1>1, <1>3, <2>1 DEF TypeOK
  <2>3. ASSUME NEW q \in Phases, q # p PROVE PhaseInv(q)'
    BY <1>1, <1>3, <2>1, <2>3, Frame DEF Inv
  <2>4. PhaseInv(p)'
    <3>1. Progress(p)'
      BY <1>0, <1>a, <1>1, <1>3, <2>1 DEF PhaseInv, Progress
    <3>2. Logged(p)'
      BY <1>0, <1>1, <1>3, <2>1 DEF PhaseInv, Logged
    <3>3. Planned(p)'
      BY <1>0, <1>1, <1>3, <2>1 DEF PhaseInv, Planned
    <3> QED BY <3>1, <3>2, <3>3 DEF PhaseInv
  <2> QED BY <2>2, <2>3, <2>4 DEF Inv
<1>b. CASE mirror[p].status = "absent"
  <2>0. mirror' = [mirror EXCEPT ![p] = new] /\ append_event(Declared(p, idempotent[p]))
    BY <1>b DEF DeclarePhase
  <2>1. /\ apply_entry(disk[p], Declared(p, idempotent[p])) =
              IF disk[p].status = "absent" THEN new ELSE disk[p]
        /\ Declared(p, idempotent[p]).phase = p
    <3>1. idempotent[p] \in BOOLEAN
      BY <1>0 DEF TypeOK
    <3>2. Declared(p, idempotent[p]).phase = p
      BY DEF Declared
    <3> QED BY <1>2, <3>1, <3>2, FoldDeclared
  <2> HIDE DEF new
  <2>2. /\ disk' \in [Phases -> Entry] /\ head' \in {"none", "start", "bad"}
        /\ torn' \in BOOLEAN /\ faults' \in Nat /\ hurt' \in [Phases -> BOOLEAN]
        /\ head' = "none" => disk' = Blank
        /\ \A q \in Phases \ {p} : disk'[q] = disk[q] /\ hurt'[q] = hurt[q]
        /\ \/ disk'[p] = disk[p] /\ hurt'[p] = TRUE
           \/ disk'[p] = apply_entry(disk[p], Declared(p, idempotent[p])) /\ hurt'[p] = hurt[p]
    BY <1>0, <1>2, <2>0, <2>1, AppendEffect
  <2>3. mirror' \in [Phases -> Entry] /\ mirror'[p] = new
        /\ \A q \in Phases \ {p} : mirror'[q] = mirror[q]
    BY <1>0, <1>2, <2>0 DEF TypeOK
  <2>4. TypeOK'
    BY <1>0, <1>1, <1>3, <2>2, <2>3 DEF TypeOK
  <2>5. ASSUME NEW q \in Phases, q # p PROVE PhaseInv(q)'
    BY <1>1, <1>3, <2>2, <2>3, <2>5, Frame DEF Inv
  <2>6. PhaseInv(p)'
    <3>0. new.status = "pending" /\ new.hash = NoHash
      BY DEF new
    <3>1. Progress(p)'
      BY <1>0, <1>1, <1>3, <2>3, <3>0 DEF PhaseInv, Progress
    <3>2. Logged(p)'
      BY <1>0, <1>1, <1>3, <2>1, <2>2, <3>0 DEF PhaseInv, Logged
    <3>3. Planned(p)'
      BY <1>0, <1>1, <1>3, <1>b, <2>1, <2>2, <2>3, <3>0 DEF PhaseInv, Planned, classify
    <3> QED BY <3>1, <3>2, <3>3 DEF PhaseInv
  <2> QED BY <2>4, <2>5, <2>6 DEF Inv
<1> QED BY <1>a, <1>b

\* What a lifecycle call leaves: the types of what it writes, the other phases
\* untouched, the new status in the mirror, and in the log unless the event was
\* lost or found no entry.
Marked(p, s) ==
    /\ disk' \in [Phases -> Entry] /\ head' \in {"none", "start", "bad"}
    /\ torn' \in BOOLEAN /\ faults' \in Nat /\ hurt' \in [Phases -> BOOLEAN]
    /\ mirror' \in [Phases -> Entry]
    /\ head' = "none" => disk' = Blank
    /\ \A q \in Phases \ {p} : disk'[q] = disk[q] /\ hurt'[q] = hurt[q] /\ mirror'[q] = mirror[q]
    /\ mirror'[p] = WithStatus(mirror[p], s) /\ mirror'[p].status = s
    /\ disk'[p].hash = disk[p].hash
    /\ \/ disk'[p] = disk[p] /\ hurt'[p] = TRUE
       \/ disk[p].status = "absent" /\ disk'[p] = disk[p] /\ hurt'[p] = hurt[p]
       \/ disk'[p] = WithStatus(disk[p], s) /\ disk'[p].status = s /\ hurt'[p] = hurt[p]

\* phase_started, phase_completed and phase_failed mark their phase.
LEMMA MarkEffect ==
    ASSUME TypeOK, NEW p \in Phases, NEW s \in {"running", "completed", "failed"},
           mirror' = [mirror EXCEPT ![p].status = s], append_event(Mark(p, s))
    PROVE  Marked(p, s)
<1> DEFINE n == WithStatus(mirror[p], s)
           d == WithStatus(disk[p], s)
<1>1. /\ mirror \in [Phases -> Entry] /\ mirror[p] \in Entry
      /\ disk \in [Phases -> Entry] /\ disk[p] \in Entry
  BY DEF TypeOK
<1>2. n \in Entry /\ n.status = s /\ d \in Entry /\ d.status = s /\ d.hash = disk[p].hash
  BY <1>1, FoldStatus
<1>3. apply_entry(disk[p], Mark(p, s)) = IF disk[p].status = "absent" THEN disk[p] ELSE d
  BY <1>1, FoldStatus
<1>4. mirror' = [mirror EXCEPT ![p] = n]
  BY DEF WithStatus
<1> HIDE DEF n, d
<1>5. Mark(p, s).phase = p /\ apply_entry(disk[p], Mark(p, s)) \in Entry
  BY <1>1, <1>2, <1>3 DEF Mark
<1>6. /\ disk' \in [Phases -> Entry] /\ head' \in {"none", "start", "bad"}
      /\ torn' \in BOOLEAN /\ faults' \in Nat /\ hurt' \in [Phases -> BOOLEAN]
      /\ head' = "none" => disk' = Blank
      /\ \A q \in Phases \ {p} : disk'[q] = disk[q] /\ hurt'[q] = hurt[q]
      /\ \/ disk'[p] = disk[p] /\ hurt'[p] = TRUE
         \/ disk'[p] = apply_entry(disk[p], Mark(p, s)) /\ hurt'[p] = hurt[p]
  BY <1>5, AppendEffect
<1>7. /\ mirror' \in [Phases -> Entry] /\ mirror'[p] = n
      /\ \A q \in Phases \ {p} : mirror'[q] = mirror[q]
  BY <1>1, <1>2, <1>4
<1>8. /\ disk'[p].hash = disk[p].hash
      /\ \/ disk'[p] = disk[p] /\ hurt'[p] = TRUE
         \/ disk[p].status = "absent" /\ disk'[p] = disk[p] /\ hurt'[p] = hurt[p]
         \/ disk'[p] = d /\ disk'[p].status = s /\ hurt'[p] = hurt[p]
  BY <1>2, <1>3, <1>6
<1> QED BY <1>2, <1>6, <1>7, <1>8, Zenon DEF Marked, n, d

\* update_phase_hash: the status stays.
LEMMA HashInv ==
    ASSUME Inv, NEW p \in Phases, UpdatePhaseHash(p)
    PROVE  Inv'
<1> DEFINE v == version[p]
           n == WithHash(mirror[p], v)
           d == WithHash(disk[p], v)
<1>0. TypeOK /\ PhaseInv(p)
  BY DEF Inv
<1>1. /\ UNCHANGED <<reader, stage, version, idempotent, plan, recorded, boots, stale, last>>
      /\ pc[p] = "compiling" /\ pc' = [pc EXCEPT ![p] = "hashed"]
      /\ mirror' = [mirror EXCEPT ![p] = n]
      /\ append_event(Hashed(p, v))
      /\ unsure' = [unsure EXCEPT ![p] = unsure[p] \/ disk'[p].hash # v]
  BY DEF UpdatePhaseHash, WithHash
<1>2. /\ mirror \in [Phases -> Entry] /\ mirror[p] \in Entry
      /\ disk \in [Phases -> Entry] /\ disk[p] \in Entry
      /\ v \in Versions \cup {NoHash}
  BY <1>0 DEF TypeOK
<1>3. /\ n \in Entry /\ n.hash = v /\ n.status = mirror[p].status
      /\ d \in Entry /\ d.hash = v /\ d.status = disk[p].status
  BY <1>2, FoldHashed
<1>4. apply_entry(disk[p], Hashed(p, v)) = IF disk[p].status = "absent" THEN disk[p] ELSE d
  BY <1>2, FoldHashed
<1>5. Hashed(p, v).phase = p
  BY DEF Hashed
<1> HIDE DEF v, n, d
<1>6. /\ disk' \in [Phases -> Entry] /\ head' \in {"none", "start", "bad"}
      /\ torn' \in BOOLEAN /\ faults' \in Nat /\ hurt' \in [Phases -> BOOLEAN]
      /\ head' = "none" => disk' = Blank
      /\ \A q \in Phases \ {p} : disk'[q] = disk[q] /\ hurt'[q] = hurt[q]
      /\ \/ disk'[p] = disk[p] /\ hurt'[p] = TRUE
         \/ disk'[p] = apply_entry(disk[p], Hashed(p, v)) /\ hurt'[p] = hurt[p]
  BY <1>0, <1>1, <1>2, <1>3, <1>4, <1>5, AppendEffect
<1>7. /\ mirror' \in [Phases -> Entry] /\ mirror'[p] = n
      /\ \A q \in Phases \ {p} : mirror'[q] = mirror[q]
  BY <1>1, <1>2, <1>3
<1>8. /\ pc' \in [Phases -> Steps] /\ pc'[p] = "hashed"
      /\ \A q \in Phases \ {p} : pc'[q] = pc[q]
  BY <1>0, <1>1 DEF TypeOK, Steps
<1>9. /\ unsure' \in [Phases -> BOOLEAN]
      /\ \A q \in Phases \ {p} : unsure'[q] = unsure[q]
  BY <1>0, <1>1 DEF TypeOK
<1>10. TypeOK'
  BY <1>0, <1>1, <1>6, <1>7, <1>8, <1>9 DEF TypeOK
<1>11. ASSUME NEW q \in Phases, q # p PROVE PhaseInv(q)'
  BY <1>1, <1>6, <1>7, <1>8, <1>9, <1>11, Frame DEF Inv
<1>12. PhaseInv(p)'
  <2>1. Progress(p)'
    BY <1>0, <1>1, <1>3, <1>7, <1>8 DEF PhaseInv, Progress
  <2>2. Logged(p)'
    BY <1>8 DEF Logged
  <2>3. Planned(p)'
    <3>1. mirror[p].status # "absent"
      BY <1>0, <1>1 DEF PhaseInv, Progress
    <3>2. ASSUME stage # "off", ~stale, ~hurt'[p] PROVE n = d /\ disk'[p] = d
      BY <1>0, <1>4, <1>6, <3>1, <3>2 DEF PhaseInv, Planned, n, d
    <3> QED BY <1>1, <1>7, <1>8, <3>2 DEF Planned
  <2> QED BY <2>1, <2>2, <2>3 DEF PhaseInv
<1> QED BY <1>10, <1>11, <1>12 DEF Inv

\* What the lifecycle calls have in common: the types hold, the other phases
\* keep their invariant, and the mirror has what the log has.
LEMMA MarkFrame ==
    ASSUME Inv, NEW p \in Phases, NEW s \in {"running", "completed", "failed"}, Marked(p, s),
           NEW x \in Steps, pc' = [pc EXCEPT ![p] = x], mirror[p].status # "absent",
           UNCHANGED <<reader, stage, version, idempotent, plan, boots, stale>>,
           recorded' \in [Phases -> BOOLEAN], last' \in [Phases -> Attempt],
           unsure' \in [Phases -> BOOLEAN],
           \A q \in Phases \ {p} :
               recorded'[q] = recorded[q] /\ last'[q] = last[q] /\ unsure'[q] = unsure[q]
    PROVE  /\ TypeOK'
           /\ \A q \in Phases \ {p} : PhaseInv(q)'
           /\ pc'[p] = x
           /\ stage # "off" /\ ~stale => hurt'[p] \/ mirror'[p] = disk'[p]
<1>0. TypeOK /\ PhaseInv(p)
  BY DEF Inv
<1>1. pc' \in [Phases -> Steps] /\ pc'[p] = x /\ \A q \in Phases \ {p} : pc'[q] = pc[q]
  BY <1>0 DEF TypeOK
<1>2. TypeOK'
  BY <1>0, <1>1 DEF TypeOK, Marked
<1>3. ASSUME NEW q \in Phases \ {p} PROVE PhaseInv(q)'
  BY <1>1, Frame DEF Inv, Marked
<1>4. stage # "off" /\ ~stale => hurt'[p] \/ mirror'[p] = disk'[p]
  BY <1>0 DEF PhaseInv, Planned, Marked
<1> QED BY <1>1, <1>2, <1>3, <1>4

\* phase_started: the attempt is on record, or the phase is marked unsure.
LEMMA StartedInv ==
    ASSUME Inv, NEW p \in Phases, PhaseStarted(p)
    PROVE  Inv'
<1>0. TypeOK /\ PhaseInv(p)
  BY DEF Inv
<1>1. /\ UNCHANGED <<reader, stage, version, idempotent, plan, boots, stale, recorded>>
      /\ pc[p] = "hashed" /\ pc' = [pc EXCEPT ![p] = "running"]
      /\ mirror' = [mirror EXCEPT ![p].status = "running"]
      /\ append_event(Mark(p, "running"))
      /\ last' = [last EXCEPT ![p] = [version |-> version[p], end |-> "partial"]]
      /\ unsure' = [unsure EXCEPT ![p] = disk'[p].status # "running" \/ disk'[p].hash # version[p]]
  BY DEF PhaseStarted, Started, Mark
<1>2. Marked(p, "running")
  BY <1>0, <1>1, MarkEffect
<1>3. /\ last' \in [Phases -> Attempt]
      /\ last'[p] = [version |-> version[p], end |-> "partial"]
      /\ \A q \in Phases \ {p} : last'[q] = last[q]
  <2>1. [version |-> version[p], end |-> "partial"] \in Attempt /\ last \in [Phases -> Attempt]
    BY <1>0 DEF TypeOK, Attempt
  <2> QED BY <2>1, <1>1
<1>4. /\ unsure' \in [Phases -> BOOLEAN]
      /\ ~unsure'[p] => disk'[p].status = "running" /\ disk'[p].hash = version[p]
      /\ \A q \in Phases \ {p} : unsure'[q] = unsure[q]
  BY <1>0, <1>1 DEF TypeOK
<1>5. "running" \in Steps /\ mirror[p].status # "absent" /\ recorded' \in [Phases -> BOOLEAN]
  BY <1>0, <1>1 DEF PhaseInv, Progress, Steps, TypeOK
<1>6. /\ TypeOK' /\ \A q \in Phases \ {p} : PhaseInv(q)'
      /\ pc'[p] = "running"
      /\ stage # "off" /\ ~stale => hurt'[p] \/ mirror'[p] = disk'[p]
  BY <1>1, <1>2, <1>3, <1>4, <1>5, MarkFrame
<1>7. PhaseInv(p)'
  <2>1. Progress(p)'
    BY <1>0, <1>1, <1>2, <1>6 DEF PhaseInv, Progress, Marked
  <2>2. Logged(p)'
    BY <1>3, <1>4, <1>6 DEF Logged
  <2>3. Planned(p)'
    BY <1>1, <1>6 DEF Planned
  <2> QED BY <2>1, <2>2, <2>3 DEF PhaseInv
<1> QED BY <1>6, <1>7 DEF Inv

\* phase_completed, at the end of an attempt that is on record.
LEMMA CompletedInv ==
    ASSUME Inv, NEW p \in Phases, PhaseCompleted(p)
    PROVE  Inv'
<1>0. TypeOK /\ PhaseInv(p)
  BY DEF Inv
<1>1. /\ UNCHANGED <<reader, stage, version, idempotent, plan, boots, stale>>
      /\ pc[p] = "running" /\ pc' = [pc EXCEPT ![p] = "done"]
      /\ mirror' = [mirror EXCEPT ![p].status = "completed"]
      /\ append_event(Mark(p, "completed"))
      /\ recorded' = [recorded EXCEPT ![p] = TRUE]
      /\ last' = [last EXCEPT ![p].end = "complete"]
      /\ unsure' = [unsure EXCEPT ![p] = unsure[p] \/ disk'[p].status # "completed"]
  BY DEF PhaseCompleted, Completed, Mark
<1>2. Marked(p, "completed")
  BY <1>0, <1>1, MarkEffect
<1>3. /\ last' \in [Phases -> Attempt]
      /\ last'[p] = [version |-> last[p].version, end |-> "complete"]
      /\ \A q \in Phases \ {p} : last'[q] = last[q]
  BY <1>0, <1>1 DEF TypeOK, Attempt
<1>4. /\ unsure' \in [Phases -> BOOLEAN]
      /\ ~unsure'[p] => disk'[p].status = "completed" /\ ~unsure[p]
      /\ \A q \in Phases \ {p} : unsure'[q] = unsure[q]
  BY <1>0, <1>1 DEF TypeOK
<1>5. /\ "done" \in Steps /\ mirror[p].status # "absent"
      /\ recorded' \in [Phases -> BOOLEAN] /\ recorded'[p] = TRUE
      /\ \A q \in Phases \ {p} : recorded'[q] = recorded[q]
  BY <1>0, <1>1 DEF PhaseInv, Progress, Steps, TypeOK
<1>6. /\ TypeOK' /\ \A q \in Phases \ {p} : PhaseInv(q)'
      /\ pc'[p] = "done"
      /\ stage # "off" /\ ~stale => hurt'[p] \/ mirror'[p] = disk'[p]
  BY <1>1, <1>2, <1>3, <1>4, <1>5, MarkFrame
<1>7. PhaseInv(p)'
  <2>1. Progress(p)'
    BY <1>0, <1>1, <1>2, <1>5, <1>6 DEF PhaseInv, Progress, Marked
  <2>2. Logged(p)'
    <3>1. ~unsure[p] => last[p].version = disk[p].hash
      BY <1>0, <1>1 DEF PhaseInv, Logged
    <3>2. disk'[p].hash = disk[p].hash
      BY <1>2 DEF Marked
    <3> QED BY <1>3, <1>4, <1>6, <3>1, <3>2 DEF Logged
  <2>3. Planned(p)'
    BY <1>1, <1>5, <1>6 DEF Planned
  <2> QED BY <2>1, <2>2, <2>3 DEF PhaseInv
<1> QED BY <1>6, <1>7 DEF Inv

\* phase_failed, from the end of an activity or an error return.
LEMMA FailedInv ==
    ASSUME Inv, NEW p \in Phases, pc[p] \in {"compiling", "running"}, phase_failed(p),
           pc' = [pc EXCEPT ![p] = "failed"], recorded' = [recorded EXCEPT ![p] = TRUE],
           UNCHANGED <<reader, stage, version, idempotent, plan, boots, stale, last, unsure>>
    PROVE  Inv'
<1>0. TypeOK /\ PhaseInv(p)
  BY DEF Inv
<1>1. /\ mirror' = [mirror EXCEPT ![p].status = "failed"]
      /\ append_event(Mark(p, "failed"))
  BY DEF phase_failed, Failed, Mark
<1>2. Marked(p, "failed")
  BY <1>0, <1>1, MarkEffect
<1>3. /\ "failed" \in Steps /\ mirror[p].status # "absent"
      /\ last' \in [Phases -> Attempt] /\ unsure' \in [Phases -> BOOLEAN]
  BY <1>0 DEF PhaseInv, Progress, Steps, TypeOK
<1>4. /\ recorded' \in [Phases -> BOOLEAN] /\ recorded'[p] = TRUE
      /\ \A q \in Phases \ {p} : recorded'[q] = recorded[q]
  BY <1>0 DEF TypeOK
<1>5. /\ TypeOK' /\ \A q \in Phases \ {p} : PhaseInv(q)'
      /\ pc'[p] = "failed"
      /\ stage # "off" /\ ~stale => hurt'[p] \/ mirror'[p] = disk'[p]
  BY <1>2, <1>3, <1>4, MarkFrame
<1>6. PhaseInv(p)'
  <2>1. Progress(p)'
    BY <1>0, <1>2, <1>5 DEF PhaseInv, Progress, Marked
  <2>2. Logged(p)'
    BY <1>0, <1>2, <1>5 DEF PhaseInv, Logged, Marked
  <2>3. Planned(p)'
    BY <1>4, <1>5 DEF Planned
  <2> QED BY <2>1, <2>2, <2>3 DEF PhaseInv
<1> QED BY <1>5, <1>6 DEF Inv

\* An error return that records nothing: the scene node has an outcome, or the
\* phase has coordinates.
LEMMA SilentInv ==
    ASSUME Inv, NEW p \in Phases, pc[p] \in {"compiling", "running"},
           pc' = [pc EXCEPT ![p] = "failed"], recorded' = [recorded EXCEPT ![p] = TRUE],
           UNCHANGED <<file, mirror, faults, hurt>>,
           UNCHANGED <<reader, stage, version, idempotent, plan, boots, stale, last, unsure>>
    PROVE  Inv'
<1>0. TypeOK /\ PhaseInv(p)
  BY DEF Inv
<1>1. UNCHANGED <<disk, head, torn, mirror, faults, hurt>>
  BY DEF file
<1>2. /\ pc' \in [Phases -> Steps] /\ pc'[p] = "failed" /\ \A q \in Phases \ {p} : pc'[q] = pc[q]
      /\ recorded' \in [Phases -> BOOLEAN] /\ recorded'[p] = TRUE
      /\ \A q \in Phases \ {p} : recorded'[q] = recorded[q]
  BY <1>0 DEF TypeOK, Steps
<1>3. TypeOK'
  BY <1>0, <1>1, <1>2 DEF TypeOK
<1>4. ASSUME NEW q \in Phases \ {p} PROVE PhaseInv(q)'
  BY <1>1, <1>2, Frame DEF Inv
<1>5. PhaseInv(p)'
  <2>1. Progress(p)'
    BY <1>0, <1>1, <1>2 DEF PhaseInv, Progress
  <2>2. Logged(p)'
    BY <1>0, <1>1, <1>2 DEF PhaseInv, Logged
  <2>3. Planned(p)'
    BY <1>0, <1>1, <1>2 DEF PhaseInv, Planned
  <2> QED BY <2>1, <2>2, <2>3 DEF PhaseInv
<1> QED BY <1>3, <1>4, <1>5 DEF Inv

\* Every step of an invocation, and every crash, keeps the invariant.
LEMMA InvStep == Inv /\ [Next]_vars => Inv'
<1> SUFFICES ASSUME Inv, [Next]_vars PROVE Inv'
  OBVIOUS
<1>1. CASE ReadLog \/ LockRefused \/ TakeLock \/ SessionStart
  BY <1>1, StartInv
<1>2. CASE SessionEnd
  <2>1. /\ Forget
        /\ UNCHANGED <<disk, head, torn, reader, boots, faults, last, unsure>>
        /\ \A p \in Phases : pc[p] # "hashed"
    BY <1>2 DEF SessionEnd, file
  <2>2. torn' \in BOOLEAN /\ unsure' = [p \in Phases |-> unsure[p] \/ pc[p] = "hashed"]
    BY <2>1 DEF Inv, TypeOK
  <2> QED BY <2>1, <2>2, ForgetInv
<1>3. CASE Crash
  <2>1. torn' \in BOOLEAN
    BY <1>3, Zenon DEF Crash, Inv, TypeOK
  <2> QED BY <1>3, <2>1, ForgetInv DEF Crash
<1>4. ASSUME NEW p \in Phases, SkipPhase(p) \/ CompilePhase(p) \/ RunAgain(p) PROVE Inv'
  BY <1>4, MoveInv
<1>5. ASSUME NEW p \in Phases, DeclarePhase(p) PROVE Inv'
  BY <1>5, DeclareInv
<1>6. ASSUME NEW p \in Phases, UpdatePhaseHash(p) PROVE Inv'
  BY <1>6, HashInv
<1>7. ASSUME NEW p \in Phases, PhaseStarted(p) PROVE Inv'
  BY <1>7, StartedInv
<1>8. ASSUME NEW p \in Phases, PhaseCompleted(p) PROVE Inv'
  BY <1>8, CompletedInv
<1>9. ASSUME NEW p \in Phases, PhaseFailed(p) PROVE Inv'
  BY <1>9, FailedInv DEF PhaseFailed
<1>10. ASSUME NEW p \in Phases, EarlyFailure(p) PROVE Inv'
  <2>1. CASE recorded[p] \/ p \in Swept
    BY <1>10, <2>1, SilentInv DEF EarlyFailure
  <2>2. CASE ~(recorded[p] \/ p \in Swept)
    BY <1>10, <2>2, FailedInv DEF EarlyFailure
  <2> QED BY <2>1, <2>2
<1>11. CASE UNCHANGED vars
  <2>1. TypeOK'
    BY <1>11 DEF Inv, TypeOK, vars
  <2>2. ASSUME NEW q \in Phases PROVE PhaseInv(q)'
    BY <1>11, Frame DEF Inv, vars
  <2> QED BY <2>1, <2>2 DEF Inv
<1> QED BY <1>1, <1>2, <1>3, <1>4, <1>5, <1>6, <1>7, <1>8, <1>9, <1>10, <1>11 DEF Next

\* The invariant holds of every state of every session directory.
LEMMA InvAlways == Spec => []Inv
BY InvInit, InvStep, PTL DEF Spec

-----------------------------------------------------------------------------
\* Every variable has its type, and a log without its first line has no entry.
THEOREM TypeCorrect == Spec => []TypeOK
<1>1. Inv => TypeOK
  BY DEF Inv
<1> QED BY <1>1, InvAlways, PTL

\* The log is believed: what it calls completed did complete, at the hash it
\* gives, whatever crashes and refused appends came before, unless it misses a
\* record of the last attempt.
THEOREM LogIsTrue == Spec => []CompletedIsTrue
<1>1. Inv => CompletedIsTrue
  BY DEF Inv, PhaseInv, Logged, CompletedIsTrue
<1> QED BY <1>1, InvAlways, PTL

\* A resumed session skips only what last ran to completion at the version it
\* runs: the plan was made from the document read at the start, and for a phase
\* not yet run the log still says what it said then.
THEOREM SkipsAreSound == Spec => []SkipIsSound
<1>1. Inv => SkipIsSound
  <2> SUFFICES ASSUME Inv, NEW p \in Phases, pc[p] = "skipped", ~stale, ~unsure[p]
               PROVE  last[p] = [version |-> version[p], end |-> "complete"]
    BY DEF SkipIsSound
  <2>0. PhaseInv(p) /\ TypeOK
    BY DEF Inv
  <2>1. plan[p] = "skip" /\ stage = "up"
    BY <2>0 DEF PhaseInv, Progress
  <2>2. CASE recorded[p]
    BY <2>0, <2>1, <2>2 DEF PhaseInv, Progress
  <2>3. CASE ~recorded[p]
    <3>1. classify(disk[p], version[p], idempotent[p]) = "skip"
      BY <2>0, <2>1, <2>3 DEF PhaseInv, Planned
    <3>2. disk[p].status = "completed" /\ disk[p].hash = version[p]
      BY <3>1 DEF classify
    <3> QED BY <2>0, <3>2 DEF PhaseInv, Logged
  <2> QED BY <2>2, <2>3
<1> QED BY <1>1, InvAlways, PTL

\* A resumed session does not run again what it may skip: a phase declared
\* idempotent that last completed this very version has a reason to be compiled.
THEOREM RerunsHaveReason == Spec => []RerunHasReason
<1>1. Inv => RerunHasReason
  <2> SUFFICES ASSUME Inv, NEW p \in Phases, pc[p] = "compiling", ~recorded[p], idempotent[p],
                      last[p] = [version |-> version[p], end |-> "complete"],
                      ~stale, ~unsure[p], mirror[p].skip_eligible
               PROVE  mirror[p].status = "failed"
    BY DEF RerunHasReason
  <2>0. PhaseInv(p)
    BY DEF Inv
  <2>1. plan[p] # "skip" /\ stage = "up"
    BY <2>0 DEF PhaseInv, Progress
  <2>2. /\ disk[p].status \in {"completed", "failed"}
        /\ disk[p].hash = version[p]
    BY <2>0 DEF PhaseInv, Logged
  <2>3. /\ plan[p] = classify(disk[p], version[p], idempotent[p])
        /\ mirror[p] = disk[p]
    BY <2>0, <2>1, <2>2 DEF PhaseInv, Planned
  <2> QED BY <2>1, <2>2, <2>3 DEF classify
<1> QED BY <1>1, InvAlways, PTL

\* The writer's mirror is the fold of the log, for a phase none of whose records
\* was lost, in whatever state an earlier invocation left the end of the file.
THEOREM MirrorIsTrue == Spec => []MirrorIsFold
<1>1. Inv => MirrorIsFold
  BY DEF Inv, PhaseInv, Planned, MirrorIsFold
<1> QED BY <1>1, InvAlways, PTL

\* append_event concerns its phase alone, and leaves a good first line.
LEMMA AppendLocal ==
    ASSUME TypeOK, NEW p \in Phases, NEW e, e.phase = p, append_event(e)
    PROVE  /\ head = "start" => head' = "start"
           /\ \A q \in Phases \ {p} : disk'[q] = disk[q]
<1>1. disk' = disk \/ disk' = [disk EXCEPT ![p] = apply_entry(disk[p], e)]
  BY DEF append_event, Lands, Refused, apply_event
<1>2. head = "start" => head' = "start"
  BY DEF append_event, Lands, Refused
<1> QED BY <1>1, <1>2 DEF TypeOK

\* The append-only discipline: a log with its first record stays readable, and
\* a step changes what the log says of a phase only by taking that phase on.
THEOREM LogIsSafe == Spec => LogSurvives
<1> DEFINE Safe ==
    /\ head = "start" => head' = "start"
    /\ \A p \in Phases :
          disk'[p] # disk[p] =>
              pc[p] \in {"undeclared", "compiling", "hashed", "running"} /\ pc'[p] # pc[p]
<1>1. ASSUME TypeOK, Next PROVE Safe
  <2>0. pc \in [Phases -> Steps]
    BY <1>1 DEF TypeOK
  <2>a. ASSUME disk' = disk, head = "start" => head' = "start" PROVE Safe
    BY <2>a
  <2>b. ASSUME NEW p \in Phases, NEW e, e.phase = p, append_event(e),
               pc[p] \in {"undeclared", "compiling", "hashed", "running"}, pc'[p] # pc[p]
        PROVE  Safe
    <3>1. /\ head = "start" => head' = "start"
          /\ \A q \in Phases \ {p} : disk'[q] = disk[q]
      BY <1>1, <2>b, AppendLocal
    <3> QED BY <2>b, <3>1
  <2> HIDE DEF Safe
  <2>1. CASE ReadLog \/ LockRefused \/ TakeLock \/ SessionEnd \/ Crash
    BY <2>1, <2>a DEF ReadLog, LockRefused, TakeLock, SessionEnd, Crash, file
  <2>2. CASE SessionStart
    BY <2>2, <2>a DEF SessionStart, Refused
  <2>3. ASSUME NEW p \in Phases, SkipPhase(p) \/ CompilePhase(p) \/ RunAgain(p) PROVE Safe
    BY <2>3, <2>a DEF SkipPhase, CompilePhase, RunAgain, file
  <2>4. ASSUME NEW p \in Phases, DeclarePhase(p) PROVE Safe
    <3>1. CASE mirror[p].status = "absent"
      <4>1. /\ append_event(Declared(p, idempotent[p])) /\ Declared(p, idempotent[p]).phase = p
            /\ pc[p] = "undeclared" /\ pc'[p] = "idle"
        BY <2>0, <2>4, <3>1 DEF DeclarePhase, Declared
      <4> QED BY <4>1, <2>b
    <3>2. CASE mirror[p].status # "absent"
      BY <2>4, <3>2, <2>a DEF DeclarePhase, file
    <3> QED BY <3>1, <3>2
  <2>5. ASSUME NEW p \in Phases, UpdatePhaseHash(p) PROVE Safe
    <3>1. /\ append_event(Hashed(p, version[p])) /\ Hashed(p, version[p]).phase = p
          /\ pc[p] = "compiling" /\ pc'[p] = "hashed"
      BY <2>0, <2>5 DEF UpdatePhaseHash, Hashed
    <3> QED BY <3>1, <2>b
  <2>6. ASSUME NEW p \in Phases, PhaseStarted(p) PROVE Safe
    <3>1. /\ append_event(Started(p)) /\ Started(p).phase = p
          /\ pc[p] = "hashed" /\ pc'[p] = "running"
      BY <2>0, <2>6 DEF PhaseStarted, Started
    <3> QED BY <3>1, <2>b
  <2>7. ASSUME NEW p \in Phases, PhaseCompleted(p) PROVE Safe
    <3>1. /\ append_event(Completed(p)) /\ Completed(p).phase = p
          /\ pc[p] = "running" /\ pc'[p] = "done"
      BY <2>0, <2>7 DEF PhaseCompleted, Completed
    <3> QED BY <3>1, <2>b
  <2>8. ASSUME NEW p \in Phases, phase_failed(p), pc[p] \in {"compiling", "running"},
               pc' = [pc EXCEPT ![p] = "failed"]
        PROVE  Safe
    <3>1. append_event(Failed(p)) /\ Failed(p).phase = p /\ pc'[p] = "failed"
      BY <2>0, <2>8 DEF phase_failed, Failed
    <3> QED BY <2>8, <3>1, <2>b
  <2>9. ASSUME NEW p \in Phases, PhaseFailed(p) PROVE Safe
    BY <2>8, <2>9 DEF PhaseFailed
  <2>10. ASSUME NEW p \in Phases, EarlyFailure(p) PROVE Safe
    <3>1. CASE recorded[p] \/ p \in Swept
      BY <2>10, <3>1, <2>a DEF EarlyFailure, file
    <3>2. CASE ~(recorded[p] \/ p \in Swept)
      BY <2>10, <3>2, <2>8 DEF EarlyFailure
    <3> QED BY <3>1, <3>2
  <2> QED BY <1>1, <2>1, <2>2, <2>3, <2>4, <2>5, <2>6, <2>7, <2>9, <2>10 DEF Next
<1>2. Inv /\ [Next]_vars => [Safe]_vars
  <2> HIDE DEF Safe
  <2> QED BY <1>1 DEF Inv
<1> QED BY <1>2, InvAlways, PTL DEF Spec, LogSurvives
=============================================================================
