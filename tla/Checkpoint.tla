----------------------------- MODULE Checkpoint -----------------------------
(***************************************************************************)
(* The checkpoint of a session directory, over the life of several         *)
(* invocations that may crash: the writer that mirrors the phases in       *)
(* memory and appends one event per change, the reader that folds the log, *)
(* the planner that decides which phases a resumed invocation skips, and   *)
(* what the executor does to a phase between its records.                  *)
(*                                                                         *)
(* The log is append-only and its reader is a left fold, so the file is    *)
(* represented by what read() makes of its complete lines (disk), by its   *)
(* first line (head) and by whether its last line is terminated (torn).    *)
(*                                                                         *)
(* Source: nmbrs-runtime/src/checkpoint/, run_phase and run_phase_inner in *)
(* executor.rs, the session start in runner.rs.  Timestamps, durations, op *)
(* counts and scope events are left out: the planner does not read them.   *)
(* The cursor state is always absent, since nothing calls update_cursor.   *)
(* A version stands for a phase hash with the parameters the phase         *)
(* consumed, which update_phase_hash records together.                     *)
(***************************************************************************)
EXTENDS Naturals

CONSTANTS
    Phases,         \* phase identities of the pre-mapped tree
    Swept,          \* those with scope coordinates
    Repeating,      \* those with an interval
    Versions,       \* programs a phase may have
    Workloads,      \* what the operator may run: [version, idempotent], each per phase
    NoHash,         \* no hash recorded
    MaxBoots,       \* bound: invocations
    MaxFaults       \* bound: appends the file system refuses

ASSUME CheckpointAssumption ==
    /\ Swept \subseteq Phases /\ Repeating \subseteq Phases
    /\ NoHash \notin Versions
    /\ Workloads \subseteq [version : [Phases -> Versions], idempotent : [Phases -> BOOLEAN]]
    /\ MaxBoots \in Nat /\ MaxFaults \in Nat

VARIABLES
    disk,           \* the document read() folds from the log
    head,           \* the log's first line: none yet, a session_start, or anything else
    torn,           \* the log ends in an unterminated line
    reader,         \* what an invocation has read before it took the lock
    stage,          \* where the invocation that holds the lock is
    mirror,         \* its in-memory document
    version, idempotent,    \* the workload it runs, per phase
    plan,           \* its resume plan, per phase
    pc,             \* where each phase is in run_phase
    recorded,       \* the phase's scene node carries an outcome
    boots, faults,  \* invocations started, appends refused
    last,           \* history: what the phase's ops last did, [version, end]
    stale,          \* history: the log was written to between read and lock
    hurt,           \* history: a record of the phase was lost in this invocation
    unsure          \* history: the log misses the hash, start or end of the last attempt

file == <<disk, head, torn>>
session == <<reader, stage, mirror, version, idempotent, plan, boots, stale>>
history == <<last, hurt, unsure>>
vars == <<disk, head, torn, reader, stage, mirror, version, idempotent, plan, pc, recorded,
          boots, faults, last, stale, hurt, unsure>>

Entry == [status : {"absent", "pending", "running", "completed", "failed"},
          hash : Versions \cup {NoHash}, skip_eligible : BOOLEAN]
Absent == [status |-> "absent", hash |-> NoHash, skip_eligible |-> FALSE]
Blank == [p \in Phases |-> Absent]
No == [p \in Phases |-> FALSE]

-----------------------------------------------------------------------------
\* Events and their fold.  Only declaration creates an entry, and it changes none
\* that is there; the hash is set without touching the status.

Declared(p, eligible) == [kind |-> "declared", phase |-> p, arg |-> eligible]
Hashed(p, v) == [kind |-> "hash", phase |-> p, arg |-> v]
Started(p) == [kind |-> "running", phase |-> p, arg |-> FALSE]
Completed(p) == [kind |-> "completed", phase |-> p, arg |-> FALSE]
Failed(p) == [kind |-> "failed", phase |-> p, arg |-> FALSE]

apply_entry(entry, e) ==
    IF (e.kind = "declared") # (entry.status = "absent") THEN entry
    ELSE CASE e.kind = "declared" ->
                 [status |-> "pending", hash |-> NoHash, skip_eligible |-> e.arg]
           [] e.kind = "hash" -> [entry EXCEPT !.hash = e.arg]
           [] OTHER -> [entry EXCEPT !.status = e.kind]

apply_event(doc, e) == [doc EXCEPT ![e.phase] = apply_entry(@, e)]

\* Mutant: an unparseable line in the middle of the log is fatal.
MutLands(e) ==
    /\ torn' = FALSE
    /\ disk' = IF torn THEN disk ELSE apply_event(disk, e)
    /\ head' = IF head = "none" \/ torn THEN "bad" ELSE head
    /\ UNCHANGED faults

\* Mutant: the first line is not looked at.
MutFirstLine(e) ==
    /\ torn' = FALSE
    /\ disk' = IF torn THEN disk ELSE apply_event(disk, e)
    /\ UNCHANGED <<head, faults>>

\* append_event of event e.  A line appended to an unterminated one ends up on
\* it and parses as nothing.  The write may be refused whole or part way; the
\* writer says so and goes on.
Lands(e) ==
    /\ torn' = FALSE
    /\ disk' = IF torn THEN disk ELSE apply_event(disk, e)
    /\ head' = IF head = "none" THEN "bad" ELSE head
    /\ UNCHANGED faults

Refused ==
    /\ faults < MaxFaults
    /\ faults' = faults + 1
    /\ torn' \in {torn, TRUE}
    /\ UNCHANGED <<disk, head>>

\* The event is lost to the log if it was refused or landed on a torn line.
append_event(e) ==
    \/ Lands(e) /\ hurt' = [hurt EXCEPT ![e.phase] = @ \/ torn]
    \/ Refused /\ hurt' = [hurt EXCEPT ![e.phase] = TRUE]

Init ==
    /\ disk = Blank /\ head = "none" /\ torn = FALSE
    /\ reader = [on |-> FALSE, doc |-> Blank]
    /\ stage = "off"
    /\ mirror = Blank
    /\ version = [p \in Phases |-> NoHash]
    /\ idempotent = No
    /\ plan = [p \in Phases |-> "rerun"]
    /\ pc = [p \in Phases |-> "idle"]
    /\ recorded = No
    /\ boots = 0 /\ faults = 0
    /\ last = [p \in Phases |-> [version |-> NoHash, end |-> "none"]]
    /\ stale = FALSE
    /\ hurt = No
    /\ unsure = No

\* What a process loses when it ends.
Forget ==
    /\ stage' = "off"
    /\ mirror' = Blank
    /\ version' = [p \in Phases |-> NoHash]
    /\ idempotent' = No
    /\ plan' = [p \in Phases |-> "rerun"]
    /\ pc' = [p \in Phases |-> "idle"]
    /\ recorded' = No
    /\ stale' = FALSE
    /\ hurt' = No

-----------------------------------------------------------------------------
\* Session start.

\* The document is read before the lock is taken.  A log without one complete
\* line reads as a fresh session; one whose first line is not a session_start
\* is refused, and the invocation does not start.
ReadLog ==
    /\ ~reader.on
    /\ head # "bad"
    /\ boots < MaxBoots
    /\ boots' = boots + 1
    /\ reader' = [on |-> TRUE, doc |-> disk]
    /\ UNCHANGED <<file, stage, mirror, version, idempotent, plan, pc, recorded, faults, stale,
                   history>>

\* The lock is held by another invocation: acquire_flock panics.
LockRefused ==
    /\ reader.on /\ stage # "off"
    /\ reader' = [reader EXCEPT !.on = FALSE, !.doc = Blank]
    /\ UNCHANGED <<file, stage, mirror, version, idempotent, plan, pc, recorded, boots, faults,
                   stale, history>>

\* Mutant: the saved hash is not compared.
MutClassify(saved, v, eligible) ==
    IF eligible /\ saved.status = "completed" /\ saved.skip_eligible THEN "skip" ELSE "rerun"

\* Mutant: the candidate carries no hash, and only an unhashed entry matches it.
MutClassifyUnhashed(saved, v, eligible) ==
    IF eligible /\ saved.status = "completed" /\ saved.hash = NoHash /\ saved.skip_eligible
    THEN "skip" ELSE "rerun"

\* What the planner makes of a saved entry.  Every entry with a hash has the
\* parameters it consumed; a completed entry without them is a mismatch.
\* Mismatches, and cursor resumes, run from the start.
classify(saved, v, eligible) ==
    IF eligible /\ saved.status = "completed" /\ saved.hash = v /\ saved.skip_eligible
    THEN "skip" ELSE "rerun"

\* The writer is built on the document read, the operator having edited the
\* workload at will.
TakeLock ==
    /\ reader.on /\ stage = "off"
    /\ reader' = [reader EXCEPT !.on = FALSE, !.doc = Blank]
    /\ stage' = "locked"
    /\ mirror' = reader.doc
    /\ stale' = (reader.doc # disk)
    /\ \E w \in Workloads :
          /\ version' = w.version
          /\ idempotent' = w.idempotent
          /\ plan' = [p \in Phases |-> classify(reader.doc[p], w.version[p], w.idempotent[p])]
    /\ pc' = [p \in Phases |-> "undeclared"]
    /\ UNCHANGED <<file, recorded, boots, faults, history>>

\* The leading session_start of this invocation.
SessionStart ==
    /\ stage = "locked"
    /\ stage' = "up"
    /\ \/ /\ torn' = FALSE
          /\ head' = IF head = "none" THEN (IF torn THEN "bad" ELSE "start") ELSE head
          /\ UNCHANGED <<disk, faults>>
       \/ Refused
    /\ UNCHANGED <<reader, mirror, version, idempotent, plan, pc, recorded, boots, stale, history>>

\* declare_phase, for the next phase of the tree; the second declaration of
\* an identity is a no-op.
DeclarePhase(p) ==
    /\ stage = "up" /\ pc[p] = "undeclared"
    /\ p = CHOOSE q \in Phases : pc[q] = "undeclared"
    /\ pc' = [pc EXCEPT ![p] = "idle"]
    /\ IF mirror[p].status = "absent"
       THEN /\ mirror' = [mirror EXCEPT ![p] = [status |-> "pending", hash |-> NoHash,
                                                skip_eligible |-> idempotent[p]]]
            /\ append_event(Declared(p, idempotent[p]))
       ELSE UNCHANGED <<file, mirror, faults, hurt>>
    /\ UNCHANGED <<reader, stage, version, idempotent, plan, recorded, boots, stale, last, unsure>>

\* All phases are declared before the walk begins.
Walking == stage = "up" /\ \A p \in Phases : pc[p] # "undeclared"

-----------------------------------------------------------------------------
\* One phase.  A lifecycle call changes the entry of the mirror and then
\* appends its event; every phase that runs was declared, so it has an entry.

\* The resume plan says skip: nothing is written.
SkipPhase(p) ==
    /\ Walking /\ pc[p] = "idle" /\ plan[p] = "skip"
    /\ pc' = [pc EXCEPT ![p] = "skipped"]
    /\ UNCHANGED <<file, session, recorded, faults, history>>

CompilePhase(p) ==
    /\ Walking /\ pc[p] = "idle" /\ plan[p] # "skip"
    /\ pc' = [pc EXCEPT ![p] = "compiling"]
    /\ UNCHANGED <<file, session, recorded, faults, history>>

\* update_phase_hash; the purge of the phase's old samples follows.
UpdatePhaseHash(p) ==
    /\ pc[p] = "compiling"
    /\ pc' = [pc EXCEPT ![p] = "hashed"]
    /\ mirror' = [mirror EXCEPT ![p].hash = version[p]]
    /\ append_event(Hashed(p, version[p]))
    /\ unsure' = [unsure EXCEPT ![p] = @ \/ disk'[p].hash # version[p]]
    /\ UNCHANGED <<reader, stage, version, idempotent, plan, recorded, boots, stale, last>>

\* Mutant: the error a failed attempt left keeps the entry of the mirror failed.
MutPhaseStarted(p) ==
    /\ pc[p] = "hashed"
    /\ pc' = [pc EXCEPT ![p] = "running"]
    /\ mirror' = [mirror EXCEPT ![p].status = IF @ = "failed" THEN @ ELSE "running"]
    /\ append_event(Started(p))
    /\ last' = [last EXCEPT ![p] = [version |-> version[p], end |-> "partial"]]
    /\ unsure' = [unsure EXCEPT ![p] = disk'[p].status # "running" \/ disk'[p].hash # version[p]]
    /\ UNCHANGED <<reader, stage, version, idempotent, plan, recorded, boots, stale>>

\* phase_started and its flush; the phase's ops follow.
PhaseStarted(p) ==
    /\ pc[p] = "hashed"
    /\ pc' = [pc EXCEPT ![p] = "running"]
    /\ mirror' = [mirror EXCEPT ![p].status = "running"]
    /\ append_event(Started(p))
    /\ last' = [last EXCEPT ![p] = [version |-> version[p], end |-> "partial"]]
    /\ unsure' = [unsure EXCEPT ![p] = disk'[p].status # "running" \/ disk'[p].hash # version[p]]
    /\ UNCHANGED <<reader, stage, version, idempotent, plan, recorded, boots, stale>>

\* The activity returned clean, settled, or was stopped gracefully.
PhaseCompleted(p) ==
    /\ pc[p] = "running"
    /\ pc' = [pc EXCEPT ![p] = "done"]
    /\ mirror' = [mirror EXCEPT ![p].status = "completed"]
    /\ append_event(Completed(p))
    /\ recorded' = [recorded EXCEPT ![p] = TRUE]
    /\ last' = [last EXCEPT ![p].end = "complete"]
    /\ unsure' = [unsure EXCEPT ![p] = @ \/ disk'[p].status # "completed"]
    /\ UNCHANGED <<reader, stage, version, idempotent, plan, boots, stale>>

\* Mutant: whatever ends a phase completes it.
mut_phase_failed(p) ==
    /\ mirror' = [mirror EXCEPT ![p].status = "completed"]
    /\ append_event(Completed(p))

phase_failed(p) ==
    /\ mirror' = [mirror EXCEPT ![p].status = "failed"]
    /\ append_event(Failed(p))

\* The activity was stopped for a fault or by the operator.
PhaseFailed(p) ==
    /\ pc[p] = "running"
    /\ pc' = [pc EXCEPT ![p] = "failed"]
    /\ phase_failed(p)
    /\ recorded' = [recorded EXCEPT ![p] = TRUE]
    /\ UNCHANGED <<reader, stage, version, idempotent, plan, boots, stale, last, unsure>>

\* An error return from the middle of run_phase_inner.  If the scene node has
\* no outcome yet it is recorded, under the phase's name alone: a phase with
\* coordinates has no entry of that name.
EarlyFailure(p) ==
    /\ pc[p] \in {"compiling", "running"}
    /\ pc' = [pc EXCEPT ![p] = "failed"]
    /\ recorded' = [recorded EXCEPT ![p] = TRUE]
    /\ IF recorded[p] \/ p \in Swept
       THEN UNCHANGED <<file, mirror, faults, hurt>>
       ELSE phase_failed(p)
    /\ UNCHANGED <<reader, stage, version, idempotent, plan, boots, stale, last, unsure>>

\* A phase with an interval runs again, on the same scene node.
RunAgain(p) ==
    /\ p \in Repeating /\ pc[p] = "done"
    /\ pc' = [pc EXCEPT ![p] = "idle"]
    /\ UNCHANGED <<file, session, recorded, faults, history>>

\* The walk is over, with every phase reached or not; the lock is released.
SessionEnd ==
    /\ Walking
    /\ \A p \in Phases : pc[p] \in {"idle", "skipped", "done", "failed"}
    /\ Forget
    /\ UNCHANGED <<file, reader, boots, faults, last, unsure>>

\* Some call is about to append, or is appending.
Appending ==
    \/ stage = "locked"
    \/ \E p \in Phases : pc[p] \in {"undeclared", "compiling", "hashed", "running"}

\* The process dies, perhaps in the middle of an append.
Crash ==
    /\ stage # "off"
    /\ torn' \in IF Appending THEN {torn, TRUE} ELSE {torn}
    /\ unsure' = [p \in Phases |-> unsure[p] \/ pc[p] = "hashed"]
    /\ Forget
    /\ UNCHANGED <<disk, head, reader, boots, faults, last>>

Next ==
    \/ ReadLog \/ LockRefused \/ TakeLock \/ SessionStart \/ SessionEnd \/ Crash
    \/ \E p \in Phases :
          \/ DeclarePhase(p) \/ SkipPhase(p) \/ CompilePhase(p)
          \/ UpdatePhaseHash(p) \/ PhaseStarted(p) \/ PhaseCompleted(p) \/ PhaseFailed(p)
          \/ EarlyFailure(p) \/ RunAgain(p)

Spec == Init /\ [][Next]_vars

-----------------------------------------------------------------------------
Steps == {"undeclared", "idle", "skipped", "compiling", "hashed", "running", "done", "failed"}
Attempt == [version : Versions \cup {NoHash}, end : {"none", "partial", "complete"}]

\* Every variable has its type; the log holds no entry before its first line.
TypeOK ==
    /\ disk \in [Phases -> Entry] /\ mirror \in [Phases -> Entry]
    /\ head \in {"none", "start", "bad"} /\ torn \in BOOLEAN
    /\ reader \in [on : BOOLEAN, doc : [Phases -> Entry]]
    /\ stage \in {"off", "locked", "up"}
    /\ version \in [Phases -> Versions \cup {NoHash}]
    /\ idempotent \in [Phases -> BOOLEAN]
    /\ plan \in [Phases -> {"skip", "rerun"}]
    /\ pc \in [Phases -> Steps]
    /\ recorded \in [Phases -> BOOLEAN]
    /\ boots \in Nat /\ faults \in Nat
    /\ last \in [Phases -> Attempt]
    /\ stale \in BOOLEAN
    /\ hurt \in [Phases -> BOOLEAN] /\ unsure \in [Phases -> BOOLEAN]
    /\ head = "none" => disk = Blank

\* What the log calls completed did complete, at the hash the log gives, and
\* nothing of the phase has run since: unless the log misses the hash or the
\* start of the phase's last attempt.
CompletedIsTrue ==
    \A p \in Phases :
        disk[p].status = "completed" /\ ~unsure[p] /\ pc[p] # "hashed"
            => last[p] = [version |-> disk[p].hash, end |-> "complete"]

\* SRD-44 I2 for the skip on resume: a phase is skipped only if the last
\* thing its ops did was to complete the very version the session runs.  The
\* exceptions are two: the log misses a record of the last attempt (a crash
\* fell between the hash and the start, or an append was lost), or another
\* invocation wrote to the log after this one had read it.
SkipIsSound ==
    \A p \in Phases :
        pc[p] = "skipped" /\ ~stale /\ ~unsure[p]
            => last[p] = [version |-> version[p], end |-> "complete"]

\* SRD-44 I2, the other half: a phase that is declared idempotent and last
\* completed this very version is run again only for a reason: the phase was
\* declared otherwise when it was first seen, it has failed since, or the log
\* misses a record or was written to after it was read.
RerunHasReason ==
    \A p \in Phases :
        /\ pc[p] = "compiling" /\ ~recorded[p] /\ idempotent[p]
        /\ last[p] = [version |-> version[p], end |-> "complete"]
        => stale \/ unsure[p] \/ ~mirror[p].skip_eligible \/ mirror[p].status = "failed"

\* The writer's mirror is what a reader would fold from the log, as long as
\* no record of the phase was lost: whatever a previous invocation left at
\* the end of the file, and in whatever order the phases' records came.
MirrorIsFold ==
    stage # "off" /\ ~stale => \A p \in Phases : hurt[p] \/ mirror[p] = disk[p]

\* A log that has its first record is never made unreadable, and what it says
\* of a phase changes only by that phase's own records: neither a crash nor a
\* refused append nor a new invocation disturbs another phase's entry.
LogSurvives ==
    [][/\ head = "start" => head' = "start"
       /\ \A p \in Phases :
             disk'[p] # disk[p] =>
                 pc[p] \in {"undeclared", "compiling", "hashed", "running"} /\ pc'[p] # pc[p]
      ]_vars

\* SRD-44 I2 without its exceptions: "A phase either ran to completion (and
\* its `Completed` status is honoured by resume) or it didn't (and resume
\* re-runs it)."
SkippedPhasesCompleted ==
    \A p \in Phases :
        pc[p] = "skipped" => last[p] = [version |-> version[p], end |-> "complete"]
=============================================================================
