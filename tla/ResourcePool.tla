---------------------------- MODULE ResourcePool ----------------------------
(***************************************************************************)
(* The resource pool, for one resource key: the phases that attach to and  *)
(* detach from it at once, the entry that counts them, the closes they     *)
(* spawn, and the drain at the end of the session.                         *)
(*                                                                         *)
(* Source: nmbrs-runtime/src/resource_pool.rs, as run_phase_inner and the  *)
(* session end of runner.rs use it.  Every atomic operation and every lock *)
(* is a step of its own.  The pool's attach is used with two keys: one     *)
(* shared by the phases of an adapter, and one of a phase's own, which is  *)
(* the case of a single user that nobody predicted.  Left out: can_share,  *)
(* which both production resources answer as their policy asks; the        *)
(* sibling generations and complete_pending_use, which only tests call;    *)
(* the accessor payload; total_attaches, which nothing reads.              *)
(***************************************************************************)
EXTENDS Naturals, FiniteSets

CONSTANTS
    Users,          \* phases that attach to the key
    Concurrency,    \* phases the schedule runs at once
    Predictions,    \* what the pre-map walk may have counted
    Wrap,           \* 2^64: pending_uses is a usize
    MaxAttaches     \* bound: attaches, and so entries and resources

ASSUME PoolAssumption ==
    /\ IsFiniteSet(Users)
    /\ Concurrency \in Nat \ {0}
    /\ Wrap \in Nat /\ MaxAttaches \in Nat
    /\ Predictions \subseteq {n \in Nat : n + MaxAttaches < Wrap}

\* Pre-map makes an entry, and so may every attach.
Entries == 1..MaxAttaches + 1
Resources == 1..MaxAttaches

VARIABLES
    map,                        \* entries_by_key: the key's entry, 0 if none
    entries,                    \* entries made so far
    resource,                   \* of each entry: the slot, 0 if empty
    poisoned,
    pending_uses,
    live_attaches,
    status,                     \* of each resource
    pc, ent, got, seen,         \* of each phase: its step and locals
    closers,                    \* spawned closes: [entry, res]
    stage, shut,                \* of the session, and what shutdown has in hand
    attaches,
    lost,                       \* history: resources overwritten in their slot
    exposed                     \* history: attaches that came too late to be counted

entry_vars == <<resource, poisoned, pending_uses, live_attaches>>
session_vars == <<stage, shut>>
vars == <<map, entries, resource, poisoned, pending_uses, live_attaches, status, pc, ent, got, seen,
          closers, stage, shut, attaches, lost, exposed>>

\* pre_map_pending_uses has run: it makes the entry if it predicts any use.
Init ==
    \E n \in Predictions :
        /\ map = IF n > 0 THEN 1 ELSE 0
        /\ entries = map
        /\ resource = [e \in Entries |-> 0]
        /\ poisoned = [e \in Entries |-> FALSE]
        /\ pending_uses = [e \in Entries |-> IF e = map THEN n ELSE 0]
        /\ live_attaches = [e \in Entries |-> 0]
        /\ status = [r \in Resources |-> "none"]
        /\ pc = [u \in Users |-> "idle"]
        /\ ent = [u \in Users |-> 0] /\ got = ent /\ seen = ent
        /\ closers = {}
        /\ stage = "up" /\ shut = 0
        /\ attaches = 0
        /\ lost = {}
        /\ exposed = [u \in Users |-> FALSE]

Busy == {u \in Users : pc[u] # "idle"}

\* The phase is through with the pool: it failed to attach, or has detached.
Leave(u) ==
    /\ pc' = [pc EXCEPT ![u] = "idle"]
    /\ ent' = [ent EXCEPT ![u] = 0]
    /\ got' = [got EXCEPT ![u] = 0]
    /\ seen' = [seen EXCEPT ![u] = 0]
    /\ exposed' = [exposed EXCEPT ![u] = FALSE]

\* An entry is removed by its key, whichever entry the key has by now.
remove_entry == map' = 0

-----------------------------------------------------------------------------
\* attach

GetOrCreateEntry(u) ==
    /\ stage = "up" /\ pc[u] = "idle"
    /\ Cardinality(Busy) < Concurrency
    /\ attaches < MaxAttaches
    /\ attaches' = attaches + 1
    /\ entries' = IF map = 0 THEN entries + 1 ELSE entries
    /\ map' = IF map = 0 THEN entries + 1 ELSE map
    /\ ent' = [ent EXCEPT ![u] = map']
    /\ pc' = [pc EXCEPT ![u] = "entry"]
    /\ UNCHANGED <<entry_vars, session_vars, status, got, seen, closers, lost, exposed>>

\* The fast path of ensure_initialized.
ReadSlot(u) ==
    /\ pc[u] = "entry"
    /\ got' = [got EXCEPT ![u] = resource[ent[u]]]
    /\ pc' = [pc EXCEPT ![u] = IF resource[ent[u]] # 0 THEN "resolved" ELSE "missed"]
    /\ UNCHANGED <<map, entries, entry_vars, session_vars, status, ent, seen, closers, attaches,
                   lost, exposed>>

\* A poisoned entry fails the attach, which keeps its predicted use pending.
FailPoisoned(u) ==
    /\ pc[u] = "missed" /\ poisoned[ent[u]]
    /\ Leave(u)
    /\ UNCHANGED <<map, entries, entry_vars, session_vars, status, closers, attaches, lost>>

BeginInit(u) ==
    /\ pc[u] = "missed" /\ ~poisoned[ent[u]]
    /\ pc' = [pc EXCEPT ![u] = "building"]
    /\ UNCHANGED <<map, entries, entry_vars, session_vars, status, ent, got, seen, closers,
                   attaches, lost, exposed>>

\* The factory and init() succeeded: a new resource is assigned to the slot,
\* whatever it holds.
InitCompleted(u) ==
    /\ pc[u] = "building"
    /\ \E r \in Resources :
          /\ status[r] = "none" /\ \A q \in 1..r - 1 : status[q] # "none"
          /\ status' = [status EXCEPT ![r] = "open"]
          /\ resource' = [resource EXCEPT ![ent[u]] = r]
          /\ got' = [got EXCEPT ![u] = r]
    /\ lost' = lost \cup ({resource[ent[u]]} \ {0})
    /\ pc' = [pc EXCEPT ![u] = "resolved"]
    /\ UNCHANGED <<map, entries, poisoned, pending_uses, live_attaches, session_vars, ent, seen,
                   closers, attaches, exposed>>

InitFailed(u) ==
    /\ pc[u] = "building"
    /\ poisoned' = [poisoned EXCEPT ![ent[u]] = TRUE]
    /\ Leave(u)
    /\ UNCHANGED <<map, entries, resource, pending_uses, live_attaches, session_vars, status,
                   closers, attaches, lost>>

\* A detach of entry e that has yet to decide, or has decided, to close it.
MayClose(w, e) ==
    ent[w] = e /\ ((pc[w] = "detached" /\ seen[w] = 0) \/ pc[w] = "closing")

\* The phase is counted.  It comes too late if the resource has left the slot
\* meanwhile, or if a detach saw no live attach and has not acted on it yet.
CountLive(u) ==
    /\ pc[u] = "resolved"
    /\ live_attaches' = [live_attaches EXCEPT ![ent[u]] = @ + 1]
    /\ exposed' = [exposed EXCEPT ![u] =
                      \/ resource[ent[u]] # got[u]
                      \/ \E w \in Users : MayClose(w, ent[u])]
    /\ pc' = [pc EXCEPT ![u] = "counted"]
    /\ UNCHANGED <<map, entries, resource, poisoned, pending_uses, session_vars, status, ent, got,
                   seen, closers, attaches, lost>>

\* A predicted use is taken if the load of the counter finds one; the
\* subtraction that follows does not look again, and wraps.
LoadPending(u) ==
    /\ pc[u] = "counted"
    /\ pc' = [pc EXCEPT ![u] = IF pending_uses[ent[u]] > 0 THEN "predicted" ELSE "attached"]
    /\ UNCHANGED <<map, entries, entry_vars, session_vars, status, ent, got, seen, closers,
                   attaches, lost, exposed>>

TakePending(u) ==
    /\ pc[u] = "predicted"
    /\ pending_uses' = [pending_uses EXCEPT ![ent[u]] = (@ + Wrap - 1) % Wrap]
    /\ pc' = [pc EXCEPT ![u] = "attached"]
    /\ UNCHANGED <<map, entries, resource, poisoned, live_attaches, session_vars, status, ent, got,
                   seen, closers, attaches, lost, exposed>>

-----------------------------------------------------------------------------
\* The drop of the guard, when the phase is over.

\* Mutant: the guard is not marked detached, and may be given up again.
MutDetach(u) ==
    /\ pc[u] = "attached"
    /\ live_attaches' = [live_attaches EXCEPT ![ent[u]] = @ - 1]
    /\ seen' = [seen EXCEPT ![u] = live_attaches[ent[u]] - 1]
    /\ pc' \in {[pc EXCEPT ![u] = "detached"], pc}
    /\ UNCHANGED <<map, entries, resource, poisoned, pending_uses, session_vars, status, ent, got,
                   closers, attaches, lost, exposed>>

Detach(u) ==
    /\ pc[u] = "attached"
    /\ live_attaches' = [live_attaches EXCEPT ![ent[u]] = @ - 1]
    /\ seen' = [seen EXCEPT ![u] = live_attaches[ent[u]] - 1]
    /\ pc' = [pc EXCEPT ![u] = "detached"]
    /\ UNCHANGED <<map, entries, resource, poisoned, pending_uses, session_vars, status, ent, got,
                   closers, attaches, lost, exposed>>

\* The close trigger: no live attach when this one was given up, and no use
\* predicted now.
CloseTrigger(u) == seen[u] = 0 /\ pending_uses[ent[u]] = 0

KeepOpen(u) ==
    /\ pc[u] = "detached" /\ ~CloseTrigger(u)
    /\ Leave(u)
    /\ UNCHANGED <<map, entries, entry_vars, session_vars, status, closers, attaches, lost>>

DecideClose(u) ==
    /\ pc[u] = "detached" /\ CloseTrigger(u)
    /\ pc' = [pc EXCEPT ![u] = "closing"]
    /\ UNCHANGED <<map, entries, entry_vars, session_vars, status, ent, got, seen, closers,
                   attaches, lost, exposed>>

\* Mutant: the resource is closed and stays in the slot.
MutTakeAndClose(u) ==
    /\ pc[u] = "closing" /\ resource[ent[u]] # 0
    /\ closers' = closers \cup {[entry |-> ent[u], res |-> resource[ent[u]]]}
    /\ status' = [status EXCEPT ![resource[ent[u]]] = "closing"]
    /\ Leave(u)
    /\ UNCHANGED <<map, entries, entry_vars, session_vars, attaches, lost>>

\* The resource is taken out of the slot, and its close spawned.
TakeAndClose(u) ==
    /\ pc[u] = "closing" /\ resource[ent[u]] # 0
    /\ closers' = closers \cup {[entry |-> ent[u], res |-> resource[ent[u]]]}
    /\ status' = [status EXCEPT ![resource[ent[u]]] = "closing"]
    /\ resource' = [resource EXCEPT ![ent[u]] = 0]
    /\ Leave(u)
    /\ UNCHANGED <<map, entries, poisoned, pending_uses, live_attaches, session_vars, attaches, lost>>

\* The slot is empty: somebody else closed it.
TakeNothing(u) ==
    /\ pc[u] = "closing" /\ resource[ent[u]] = 0
    /\ pc' = [pc EXCEPT ![u] = "removing"]
    /\ UNCHANGED <<map, entries, entry_vars, session_vars, status, ent, got, seen, closers,
                   attaches, lost, exposed>>

RemoveEmpty(u) ==
    /\ pc[u] = "removing"
    /\ remove_entry
    /\ Leave(u)
    /\ UNCHANGED <<entries, entry_vars, session_vars, status, closers, attaches, lost>>

\* A spawned close ends, well or badly, and removes the entry.
CloseEnds(c) ==
    /\ stage # "exited"
    /\ closers' = closers \ {c}
    /\ status' = [status EXCEPT ![c.res] = "closed"]
    /\ remove_entry
    /\ UNCHANGED <<entries, entry_vars, session_vars, pc, ent, got, seen, attaches, lost, exposed>>

-----------------------------------------------------------------------------
\* shutdown, once the scheduler has returned and every guard is dropped.

\* Mutant: an entry that still expects uses is not drained.
MutSnapshot ==
    /\ stage = "up" /\ Busy = {}
    /\ shut' = IF map # 0 /\ pending_uses[map] = 0 THEN map ELSE 0
    /\ stage' = IF shut' = 0 THEN "drained" ELSE "draining"
    /\ UNCHANGED <<map, entries, entry_vars, status, pc, ent, got, seen, closers, attaches, lost,
                   exposed>>

Snapshot ==
    /\ stage = "up" /\ Busy = {}
    /\ stage' = IF map = 0 THEN "drained" ELSE "draining"
    /\ shut' = map
    /\ UNCHANGED <<map, entries, entry_vars, status, pc, ent, got, seen, closers, attaches, lost,
                   exposed>>

DrainEmpty ==
    /\ stage = "draining" /\ resource[shut] = 0
    /\ remove_entry
    /\ stage' = "drained"
    /\ UNCHANGED <<entries, entry_vars, shut, status, pc, ent, got, seen, closers, attaches, lost,
                   exposed>>

DrainTake ==
    /\ stage = "draining" /\ resource[shut] # 0
    /\ status' = [status EXCEPT ![resource[shut]] = "closing"]
    /\ shut' = resource[shut]
    /\ resource' = [resource EXCEPT ![shut] = 0]
    /\ stage' = "closing"
    /\ UNCHANGED <<map, entries, poisoned, pending_uses, live_attaches, pc, ent, got, seen, closers,
                   attaches, lost, exposed>>

\* shutdown awaits the close it began.
DrainClosed ==
    /\ stage = "closing"
    /\ status' = [status EXCEPT ![shut] = "closed"]
    /\ remove_entry
    /\ stage' = "drained"
    /\ UNCHANGED <<entries, entry_vars, shut, pc, ent, got, seen, closers, attaches, lost, exposed>>

\* The process ends, and the runtime with whatever it was spawned.
Exit ==
    /\ stage = "drained"
    /\ stage' = "exited"
    /\ UNCHANGED <<map, entries, entry_vars, shut, status, pc, ent, got, seen, closers, attaches,
                   lost, exposed>>

Ended == stage = "exited" /\ UNCHANGED vars

Attach(u) ==
    \/ ReadSlot(u) \/ FailPoisoned(u) \/ BeginInit(u) \/ InitCompleted(u) \/ InitFailed(u)
    \/ CountLive(u) \/ LoadPending(u) \/ TakePending(u)

Drop(u) ==
    \/ Detach(u) \/ KeepOpen(u) \/ DecideClose(u) \/ TakeAndClose(u) \/ TakeNothing(u)
    \/ RemoveEmpty(u)

Shutdown == Snapshot \/ DrainEmpty \/ DrainTake \/ DrainClosed

Next ==
    \/ \E u \in Users : GetOrCreateEntry(u) \/ Attach(u) \/ Drop(u)
    \/ \E c \in closers : CloseEnds(c)
    \/ Shutdown \/ Exit \/ Ended

\* A phase that has begun to attach gets on with it, its activity ends, and
\* the walk of a finite scenario comes to its end.  Nothing makes a spawned
\* close end before the process does.
Fairness ==
    /\ \A u \in Users : WF_vars(Attach(u) \/ Drop(u))
    /\ WF_vars(Shutdown)

Spec == Init /\ [][Next]_vars /\ Fairness

-----------------------------------------------------------------------------
Holding(u) == pc[u] \in {"counted", "predicted", "attached"}

\* Every variable has its type.
TypeOK ==
    /\ map \in 0..entries /\ entries \in 0..MaxAttaches + 1
    /\ resource \in [Entries -> 0..MaxAttaches]
    /\ poisoned \in [Entries -> BOOLEAN]
    /\ pending_uses \in [Entries -> 0..Wrap - 1]
    /\ live_attaches \in [Entries -> Nat]
    /\ status \in [Resources -> {"none", "open", "closing", "closed"}]
    /\ pc \in [Users -> {"idle", "entry", "missed", "building", "resolved", "counted", "predicted",
                         "attached", "detached", "closing", "removing"}]
    /\ ent \in [Users -> 0..entries]
    /\ got \in [Users -> 0..MaxAttaches]
    /\ seen \in [Users -> Nat]
    /\ closers \subseteq [entry : Entries, res : Resources]
    /\ stage \in {"up", "draining", "closing", "drained", "exited"} /\ shut \in Nat
    /\ attaches \in 0..MaxAttaches
    /\ lost \subseteq Resources
    /\ exposed \in [Users -> BOOLEAN]

\* The prediction of entry e was taken once too often.
Wrapped(e) == pending_uses[e] >= Wrap - MaxAttaches

\* The close of every resource that is opened is called in the end: by the last
\* detach, or by the drain where the prediction was high, and whichever entry
\* the key has by then: the drain sees one entry, while the closes that overtook
\* each other may have unmapped others.  Left behind are only resources
\* overwritten in their slot by a second initialisation, and those of an entry
\* whose prediction wrapped.
CloseIsCalled ==
    \A r \in Resources :
        status[r] = "open" ~>
            status[r] # "open" \/ r \in lost \/ \E e \in Entries : resource[e] = r /\ Wrapped(e)

\* To the phases counted in time the pool is a shared handle: it never closes
\* under a holder, never hands out what is being closed, and closes nothing
\* twice, whatever the pre-map walk predicted, however late a spawned close
\* ends, and although every attach and detach is several steps.  A phase that
\* is counted too late holds nothing the pool knows of.
Handle == INSTANCE SharedHandle WITH
    holds <- [u \in Users |-> IF Holding(u) /\ ~exposed[u] THEN got[u] ELSE 0]
HandleSpec == Handle!Spec
=============================================================================
