------------------------- MODULE ResourcePoolProofs -------------------------
(***************************************************************************)
(* Proofs about ResourcePool, for any number of phases, attaches and       *)
(* predicted uses: its types, and that it implements SharedHandle for the  *)
(* phases it counted in time.                                              *)
(***************************************************************************)
EXTENDS ResourcePool, FiniteSetTheorems, TLAPS

\* The phases counted on entry e.
Holders(e) == {u \in Users : Holding(u) /\ ent[u] = e}

\* A phase at work in the pool has an entry, and each attach made one at most.
Located ==
    /\ entries <= attaches + 1
    /\ \A u \in Users : pc[u] # "idle" => ent[u] \in 1..entries

\* The count of live attaches is the number of phases that hold the entry.
Counted == \A e \in Entries : live_attaches[e] = Cardinality(Holders(e))

\* A resource is in one place: in one slot, lost, in the hands of one close, or
\* in those of the drain.
Placed ==
    /\ \A e \in Entries :
          resource[e] # 0 => status[resource[e]] = "open" /\ resource[e] \notin lost
    /\ \A e, f \in Entries : resource[e] # 0 /\ resource[e] = resource[f] => e = f
    /\ \A r \in lost : status[r] = "open"
    /\ \A c \in closers : status[c.res] = "closing"
    /\ \A c, d \in closers : c.res = d.res => c = d
    /\ stage = "closing" =>
          /\ shut \in Resources /\ status[shut] = "closing"
          /\ \A c \in closers : c.res # shut

\* What a phase counted in time holds is in the slot of its entry, or lost, and
\* nobody is about to close that slot.
Held ==
    \A u \in Users :
        /\ pc[u] = "resolved" \/ Holding(u) => got[u] # 0 /\ status[got[u]] # "none"
        /\ Holding(u) /\ ~exposed[u] =>
              /\ resource[ent[u]] = got[u] \/ got[u] \in lost
              /\ \A w \in Users : ~MayClose(w, ent[u])

\* The drain begins when no phase is at work.
Drained ==
    /\ stage # "up" => Busy = {}
    /\ stage = "draining" => shut \in Entries

Inv == TypeOK /\ Located /\ Counted /\ Placed /\ Held /\ Drained

-----------------------------------------------------------------------------
\* Steps that leave the counted phases and the counters alone keep the counts.
LEMMA CountedSame ==
    ASSUME Counted, live_attaches' = live_attaches,
           \A u \in Users : Holding(u)' = Holding(u),
           \A u \in Users : Holding(u) => ent'[u] = ent[u]
    PROVE  Counted'
<1>1. ASSUME NEW e \in Entries PROVE Holders(e)' = Holders(e)
  BY DEF Holders
<1> QED BY <1>1 DEF Counted

\* Steps after which nobody newly holds or means to close, and which leave the
\* slots and what a phase has in hand, keep the promise to the holders.
LEMMA HeldSame ==
    ASSUME Held, resource' = resource, lost' = lost,
           \A r \in Resources : status[r] # "none" => status'[r] # "none",
           \A u \in Users : got[u] \in 0..MaxAttaches,
           \A u \in Users : (pc[u] = "resolved" \/ Holding(u))' => pc[u] = "resolved" \/ Holding(u),
           \A u \in Users : Holding(u)' => Holding(u),
           \A u \in Users : (pc[u] = "resolved" \/ Holding(u))' =>
               got'[u] = got[u] /\ ent'[u] = ent[u] /\ exposed'[u] = exposed[u],
           \A w \in Users, e \in Nat : e # 0 /\ MayClose(w, e)' => MayClose(w, e),
           \A u \in Users : Holding(u) => ent[u] \in Nat \ {0}
    PROVE  Held'
<1> SUFFICES ASSUME NEW u \in Users
             PROVE  /\ (pc[u] = "resolved" \/ Holding(u))' => got'[u] # 0 /\ status'[got'[u]] # "none"
                    /\ Holding(u)' /\ ~exposed'[u] =>
                          /\ resource'[ent'[u]] = got'[u] \/ got'[u] \in lost'
                          /\ \A w \in Users : ~MayClose(w, ent[u])'
  BY DEF Held
<1>1. (pc[u] = "resolved" \/ Holding(u))' => got'[u] # 0 /\ status'[got'[u]] # "none"
  BY DEF Held, Resources
<1>2. ASSUME Holding(u)', ~exposed'[u] PROVE resource'[ent'[u]] = got'[u] \/ got'[u] \in lost'
  BY <1>2 DEF Held
<1>3. ASSUME Holding(u)', ~exposed'[u], NEW w \in Users PROVE ~MayClose(w, ent[u])'
  <2>1. ~MayClose(w, ent[u]) /\ ent'[u] = ent[u] /\ ent[u] \in Nat \ {0}
    BY <1>3 DEF Held
  <2> QED BY <2>1
<1> QED BY <1>1, <1>2, <1>3

Steps == {"idle", "entry", "missed", "building", "resolved", "counted", "predicted",
          "attached", "detached", "closing", "removing"}

\* What the step of one phase leaves alone of the others.
Others(u) ==
    \A w \in Users \ {u} :
        /\ pc'[w] = pc[w] /\ ent'[w] = ent[w] /\ got'[w] = got[w]
        /\ seen'[w] = seen[w] /\ exposed'[w] = exposed[w]

\* A phase that leaves the pool keeps nothing, and was not counted.
LEMMA LeaveFacts ==
    ASSUME TypeOK, Located, NEW u \in Users, Leave(u), ~Holding(u), UNCHANGED <<entries, attaches>>
    PROVE  /\ Others(u) /\ pc'[u] = "idle" /\ ~Holding(u)'
           /\ pc' \in [Users -> Steps] /\ ent' \in [Users -> 0..entries]
           /\ got' \in [Users -> 0..MaxAttaches] /\ seen' \in [Users -> Nat]
           /\ exposed' \in [Users -> BOOLEAN]
           /\ Located'
<1>0. /\ pc \in [Users -> Steps] /\ ent \in [Users -> 0..entries]
      /\ got \in [Users -> 0..MaxAttaches] /\ seen \in [Users -> Nat]
      /\ exposed \in [Users -> BOOLEAN] /\ entries \in Nat /\ MaxAttaches \in Nat
  BY PoolAssumption DEF TypeOK, Steps, PoolAssumption
<1>1. /\ pc' \in [Users -> Steps] /\ pc'[u] = "idle" /\ \A w \in Users \ {u} : pc'[w] = pc[w]
  BY <1>0 DEF Leave, Steps
<1>2. ent' \in [Users -> 0..entries] /\ \A w \in Users \ {u} : ent'[w] = ent[w]
  BY <1>0 DEF Leave
<1>3. got' \in [Users -> 0..MaxAttaches] /\ \A w \in Users \ {u} : got'[w] = got[w]
  BY <1>0 DEF Leave
<1>4. seen' \in [Users -> Nat] /\ \A w \in Users \ {u} : seen'[w] = seen[w]
  BY <1>0 DEF Leave
<1>5. exposed' \in [Users -> BOOLEAN] /\ \A w \in Users \ {u} : exposed'[w] = exposed[w]
  BY <1>0 DEF Leave
<1>6. Located'
  BY <1>1, <1>2 DEF Located
<1> QED BY <1>1, <1>2, <1>3, <1>4, <1>5, <1>6 DEF Others, Holding

\* A phase that goes on to its next step in the pool, with what it has.
LEMMA MoveFacts ==
    ASSUME TypeOK, Located, NEW u \in Users, NEW x \in Steps, pc' = [pc EXCEPT ![u] = x],
           pc[u] # "idle", UNCHANGED <<entries, attaches, ent>>
    PROVE  /\ pc' \in [Users -> Steps] /\ pc'[u] = x
           /\ \A w \in Users \ {u} : pc'[w] = pc[w] /\ ent'[w] = ent[w]
           /\ ent[u] \in Entries /\ ent'[u] = ent[u]
           /\ Located'
<1>0. pc \in [Users -> Steps] /\ ent \in [Users -> 0..entries] /\ entries \in 0..MaxAttaches + 1
  BY DEF TypeOK, Steps
<1>1. pc' \in [Users -> Steps] /\ pc'[u] = x /\ \A w \in Users \ {u} : pc'[w] = pc[w]
  BY <1>0
<1>2. ent[u] \in Entries
  BY <1>0, PoolAssumption DEF Located, Entries, PoolAssumption
<1>3. Located'
  BY <1>1 DEF Located
<1> QED BY <1>1, <1>2, <1>3

\* What makes the counts and the promise to the holders survive the step of one
\* phase that neither begins nor ceases to hold, and touches no slot.
LEMMA StepSame ==
    ASSUME TypeOK, Located, Counted, Held, NEW u \in Users, Others(u),
           live_attaches' = live_attaches, resource' = resource, lost' = lost,
           \A r \in Resources : status[r] # "none" => status'[r] # "none",
           Holding(u)' = Holding(u),
           Holding(u) => ent'[u] = ent[u] /\ got'[u] = got[u] /\ exposed'[u] = exposed[u],
           pc'[u] # "resolved",
           \A e \in Nat : e # 0 /\ MayClose(u, e)' => MayClose(u, e)
    PROVE  Counted' /\ Held'
<1>0. \A w \in Users : got[w] \in 0..MaxAttaches
  BY DEF TypeOK
<1>1. \A w \in Users : Holding(w)' = Holding(w)
  BY DEF Others, Holding
<1>2. \A w \in Users : Holding(w) => ent'[w] = ent[w]
  BY DEF Others
<1>3. Counted'
  BY <1>1, <1>2, CountedSame
<1>4. ASSUME NEW w \in Users, NEW e \in Nat, e # 0, MayClose(w, e)' PROVE MayClose(w, e)
  BY <1>4 DEF Others, MayClose
<1>5. \A w \in Users : Holding(w) => ent[w] \in Nat \ {0}
  BY DEF Located, Holding, TypeOK
<1>6. ASSUME NEW w \in Users, (pc[w] = "resolved" \/ Holding(w))'
      PROVE  /\ pc[w] = "resolved" \/ Holding(w)
             /\ got'[w] = got[w] /\ ent'[w] = ent[w] /\ exposed'[w] = exposed[w]
  BY <1>6, <1>1 DEF Others
<1>7. Held'
  BY <1>0, <1>1, <1>4, <1>5, <1>6, HeldSame
<1> QED BY <1>3, <1>7

\* A phase at work keeps the session up.
LEMMA UpWhileBusy ==
    ASSUME Drained, NEW u \in Users, pc[u] # "idle"
    PROVE  stage = "up"
BY DEF Drained, Busy

\* The places of the resources and the session, when they are left alone.
LEMMA PlacedSame ==
    ASSUME Placed, UNCHANGED <<resource, status, lost, closers>>, stage = "up", UNCHANGED session_vars
    PROVE  Placed' /\ Drained'
BY DEF Placed, Drained, session_vars

\* The steps of a phase that change nothing but its program counter.
LEMMA AdvanceInv ==
    ASSUME Inv, NEW u \in Users, BeginInit(u) \/ LoadPending(u) \/ DecideClose(u) \/ TakeNothing(u)
    PROVE  Inv'
<1>1. /\ UNCHANGED <<map, entries, entry_vars, session_vars, status, ent, got, seen, closers,
                     attaches, lost, exposed>>
      /\ pc[u] # "idle" /\ pc[u] # "resolved"
      /\ \E x \in Steps \ {"idle", "resolved"} :
            /\ pc' = [pc EXCEPT ![u] = x]
            /\ x \in {"predicted", "attached"} <=> pc[u] = "counted"
            /\ x = "closing" => pc[u] = "detached" /\ seen[u] = 0
            /\ x # "detached" /\ x # "counted" /\ pc[u] # "predicted" /\ pc[u] # "attached"
  BY DEF BeginInit, LoadPending, DecideClose, TakeNothing, CloseTrigger, Steps
<1>2. PICK x \in Steps \ {"idle", "resolved"} :
            /\ pc' = [pc EXCEPT ![u] = x]
            /\ x \in {"predicted", "attached"} <=> pc[u] = "counted"
            /\ x = "closing" => pc[u] = "detached" /\ seen[u] = 0
            /\ x # "detached" /\ x # "counted" /\ pc[u] # "predicted" /\ pc[u] # "attached"
  BY <1>1
<1>3. TypeOK /\ Located /\ Counted /\ Placed /\ Held /\ Drained
  BY DEF Inv
<1>4. /\ pc' \in [Users -> Steps] /\ pc'[u] = x /\ Located'
      /\ \A w \in Users \ {u} : pc'[w] = pc[w]
  BY <1>1, <1>2, <1>3, MoveFacts
<1>5. TypeOK'
  BY <1>1, <1>3, <1>4 DEF TypeOK, Steps, entry_vars, session_vars
<1>6. Counted' /\ Held'
  <2>1. Others(u) /\ Holding(u)' = Holding(u) /\ pc'[u] # "resolved"
    BY <1>1, <1>2, <1>4 DEF Others, Holding
  <2>2. ASSUME NEW e \in Nat, MayClose(u, e)' PROVE MayClose(u, e)
    BY <1>1, <1>2, <1>4, <2>2 DEF MayClose
  <2> QED BY <1>1, <1>3, <2>1, <2>2, StepSame DEF entry_vars
<1>7. Placed' /\ Drained'
  BY <1>1, <1>3, UpWhileBusy, PlacedSame DEF entry_vars
<1> QED BY <1>4, <1>5, <1>6, <1>7 DEF Inv

\* A predicted use is taken, and the counter wraps if another phase took it.
LEMMA TakePendingInv ==
    ASSUME Inv, NEW u \in Users, TakePending(u)
    PROVE  Inv'
<1>1. /\ UNCHANGED <<map, entries, resource, poisoned, live_attaches, session_vars, status, ent, got,
                     seen, closers, attaches, lost, exposed>>
      /\ pc[u] = "predicted" /\ pc' = [pc EXCEPT ![u] = "attached"]
      /\ pending_uses' = [pending_uses EXCEPT ![ent[u]] = (pending_uses[ent[u]] + Wrap - 1) % Wrap]
  BY DEF TakePending
<1>2. TypeOK /\ Located /\ Counted /\ Placed /\ Held /\ Drained
  BY DEF Inv
<1>3. /\ pc' \in [Users -> Steps] /\ pc'[u] = "attached" /\ Located' /\ ent[u] \in Entries
      /\ \A w \in Users \ {u} : pc'[w] = pc[w]
  BY <1>1, <1>2, MoveFacts DEF Steps
<1>4. pending_uses' \in [Entries -> 0..Wrap - 1]
  <2>1. pending_uses \in [Entries -> 0..Wrap - 1] /\ pending_uses[ent[u]] \in 0..Wrap - 1
    BY <1>2, <1>3 DEF TypeOK
  <2>2. Wrap \in Nat /\ Wrap > 0
    BY <2>1, PoolAssumption DEF PoolAssumption
  <2>3. (pending_uses[ent[u]] + Wrap - 1) % Wrap \in 0..Wrap - 1
    BY <2>1, <2>2
  <2> QED BY <1>1, <2>1, <2>3
<1>5. TypeOK'
  BY <1>1, <1>2, <1>3, <1>4 DEF TypeOK, Steps, session_vars
<1>6. Counted' /\ Held'
  <2>1. Others(u) /\ Holding(u)' = Holding(u) /\ pc'[u] # "resolved"
    BY <1>1, <1>3 DEF Others, Holding
  <2>2. ASSUME NEW e \in Nat, MayClose(u, e)' PROVE MayClose(u, e)
    BY <1>3, <2>2 DEF MayClose
  <2> QED BY <1>1, <1>2, <2>1, <2>2, StepSame
<1>7. Placed' /\ Drained'
  BY <1>1, <1>2, UpWhileBusy, PlacedSame
<1> QED BY <1>3, <1>5, <1>6, <1>7 DEF Inv

\* The phase leaves: the entry is poisoned, stays open, or was found empty.
LEMMA LeaveInv ==
    ASSUME Inv, NEW u \in Users, FailPoisoned(u) \/ InitFailed(u) \/ KeepOpen(u) \/ RemoveEmpty(u)
    PROVE  Inv'
<1>1. /\ UNCHANGED <<entries, resource, pending_uses, live_attaches, session_vars, status, closers,
                     attaches, lost>>
      /\ Leave(u) /\ pc[u] # "idle" /\ ~Holding(u)
      /\ map' = map \/ map' = 0
      /\ poisoned' = poisoned \/ poisoned' = [poisoned EXCEPT ![ent[u]] = TRUE]
  BY DEF FailPoisoned, InitFailed, KeepOpen, RemoveEmpty, remove_entry, Holding, entry_vars
<1>2. TypeOK /\ Located /\ Counted /\ Placed /\ Held /\ Drained
  BY DEF Inv
<1>3. /\ Others(u) /\ pc'[u] = "idle" /\ ~Holding(u)'
      /\ pc' \in [Users -> Steps] /\ ent' \in [Users -> 0..entries]
      /\ got' \in [Users -> 0..MaxAttaches] /\ seen' \in [Users -> Nat]
      /\ exposed' \in [Users -> BOOLEAN]
      /\ Located'
  BY <1>1, <1>2, LeaveFacts
<1>4. poisoned' \in [Entries -> BOOLEAN]
  BY <1>1, <1>2 DEF TypeOK
<1>5. map' \in 0..entries'
  BY <1>1, <1>2 DEF TypeOK
<1>6. TypeOK'
  BY <1>1, <1>2, <1>3, <1>4, <1>5 DEF TypeOK, Steps, session_vars
<1>7. Counted' /\ Held'
  <2>1. ASSUME NEW e \in Nat, e # 0, MayClose(u, e)' PROVE MayClose(u, e)
    BY <1>3, <2>1 DEF MayClose
  <2>2. Holding(u)' = Holding(u) /\ pc'[u] # "resolved"
    BY <1>1, <1>3 DEF Holding
  <2> QED BY <1>1, <1>2, <1>3, <2>1, <2>2, StepSame
<1>8. Placed' /\ Drained'
  BY <1>1, <1>2, UpWhileBusy, PlacedSame
<1> QED BY <1>3, <1>6, <1>7, <1>8 DEF Inv

\* The last detach takes the resource out of the slot: by the promise to the
\* holders nobody counted in time has it.
LEMMA TakeAndCloseInv ==
    ASSUME Inv, NEW u \in Users, TakeAndClose(u)
    PROVE  Inv'
<1> DEFINE e == ent[u]
           r == resource[e]
<1>1. /\ UNCHANGED <<map, entries, poisoned, pending_uses, live_attaches, session_vars, attaches,
                     lost>>
      /\ pc[u] = "closing" /\ r # 0 /\ Leave(u)
      /\ closers' = closers \cup {[entry |-> e, res |-> r]}
      /\ status' = [status EXCEPT ![r] = "closing"]
      /\ resource' = [resource EXCEPT ![e] = 0]
  BY DEF TakeAndClose
<1>2. TypeOK /\ Located /\ Counted /\ Placed /\ Held /\ Drained /\ ~Holding(u)
  BY <1>1 DEF Inv, Holding
<1>3. /\ Others(u) /\ pc'[u] = "idle" /\ ~Holding(u)'
      /\ pc' \in [Users -> Steps] /\ ent' \in [Users -> 0..entries]
      /\ got' \in [Users -> 0..MaxAttaches] /\ seen' \in [Users -> Nat]
      /\ exposed' \in [Users -> BOOLEAN]
      /\ Located'
  BY <1>1, <1>2, LeaveFacts
<1>4. e \in Entries /\ r \in Resources /\ entries \in 0..MaxAttaches + 1
  BY <1>1, <1>2, PoolAssumption DEF TypeOK, Located, Entries, Resources, PoolAssumption
<1>5. resource' \in [Entries -> 0..MaxAttaches]
  BY <1>1, <1>2, <1>4, PoolAssumption DEF TypeOK, PoolAssumption
<1>6. /\ status' \in [Resources -> {"none", "open", "closing", "closed"}]
      /\ status'[r] = "closing" /\ \A q \in Resources \ {r} : status'[q] = status[q]
  BY <1>1, <1>2, <1>4 DEF TypeOK
<1>7. closers' \subseteq [entry : Entries, res : Resources]
  BY <1>1, <1>2, <1>4 DEF TypeOK
<1>8. TypeOK'
  BY <1>1, <1>2, <1>3, <1>5, <1>6, <1>7 DEF TypeOK, Steps, session_vars
<1>9. stage = "up"
  BY <1>1, <1>2, UpWhileBusy
<1>10. Placed'
  <2>1. /\ status[r] = "open" /\ r \notin lost
        /\ resource'[e] = 0 /\ \A f \in Entries \ {e} : resource'[f] = resource[f] /\ resource[f] # r
    BY <1>1, <1>2, <1>4 DEF Placed, TypeOK
  <2>2. ASSUME NEW f \in Entries, resource'[f] # 0
        PROVE  status'[resource'[f]] = "open" /\ resource'[f] \notin lost'
    <3>1. f # e /\ resource'[f] = resource[f] /\ resource[f] \in Resources
      BY <1>2, <2>1, <2>2, PoolAssumption DEF TypeOK, Resources, PoolAssumption
    <3> QED BY <1>1, <1>2, <1>6, <2>1, <2>2, <3>1 DEF Placed
  <2>3. \A f, g \in Entries : resource'[f] # 0 /\ resource'[f] = resource'[g] => f = g
    BY <1>2, <2>1 DEF Placed
  <2>4. \A q \in lost' : status'[q] = "open"
    BY <1>1, <1>2, <1>6, <2>1 DEF Placed, TypeOK
  <2>5. \A c \in closers : c.res # r /\ c.res \in Resources
    BY <1>2, <2>1 DEF Placed, TypeOK
  <2>6. \A c \in closers' : status'[c.res] = "closing"
    BY <1>1, <1>2, <1>6, <2>5 DEF Placed
  <2>7. \A c, d \in closers' : c.res = d.res => c = d
    BY <1>1, <1>2, <2>5 DEF Placed
  <2>8. stage' # "closing"
    BY <1>1, <1>9 DEF session_vars
  <2> QED BY <2>2, <2>3, <2>4, <2>6, <2>7, <2>8 DEF Placed
<1>11. Counted'
  <2>1. \A w \in Users : Holding(w)' = Holding(w) /\ (Holding(w) => ent'[w] = ent[w])
    BY <1>1, <1>2, <1>3 DEF Others, Holding
  <2> QED BY <1>1, <1>2, <2>1, CountedSame
<1>12. Held'
  <2> SUFFICES ASSUME NEW w \in Users
               PROVE  /\ (pc[w] = "resolved" \/ Holding(w))' =>
                             got'[w] # 0 /\ status'[got'[w]] # "none"
                      /\ Holding(w)' /\ ~exposed'[w] =>
                            /\ resource'[ent'[w]] = got'[w] \/ got'[w] \in lost'
                            /\ \A x \in Users : ~MayClose(x, ent[w])'
    BY DEF Held
  <2>1. CASE w = u
    BY <1>3, <2>1 DEF Holding
  <2>2. CASE w # u
    <3>1. /\ pc'[w] = pc[w] /\ ent'[w] = ent[w] /\ got'[w] = got[w] /\ exposed'[w] = exposed[w]
          /\ Holding(w)' = Holding(w)
      BY <1>3, <2>2 DEF Others, Holding
    <3>2. (pc[w] = "resolved" \/ Holding(w))' => got'[w] # 0 /\ status'[got'[w]] # "none"
      BY <1>2, <1>6, <3>1 DEF Held, TypeOK, Resources
    <3>3. ASSUME Holding(w)', ~exposed'[w]
          PROVE  /\ resource'[ent'[w]] = got'[w] \/ got'[w] \in lost'
                 /\ \A x \in Users : ~MayClose(x, ent[w])'
      <4>1. /\ resource[ent[w]] = got[w] \/ got[w] \in lost
            /\ \A x \in Users : ~MayClose(x, ent[w])
            /\ ent[w] \in Entries
        <5>1. Holding(w) /\ ~exposed[w]
          BY <3>1, <3>3
        <5>2. ent[w] \in 1..entries
          BY <1>2, <5>1 DEF Located, Holding
        <5>3. ent[w] \in Entries
          BY <1>4, <5>2, PoolAssumption DEF Entries, PoolAssumption
        <5> QED BY <1>2, <5>1, <5>3 DEF Held
      <4>2. ent[w] # e
        BY <1>1, <4>1 DEF MayClose
      <4>3. resource'[ent'[w]] = got'[w] \/ got'[w] \in lost'
        BY <1>1, <1>2, <3>1, <4>1, <4>2 DEF TypeOK
      <4>4. ASSUME NEW x \in Users PROVE ~MayClose(x, ent[w])'
        BY <1>3, <3>1, <4>1 DEF Others, MayClose
      <4> QED BY <4>3, <4>4
    <3> QED BY <3>2, <3>3
  <2> QED BY <2>1, <2>2
<1>13. Drained'
  BY <1>1, <1>9 DEF Drained, session_vars
<1> QED BY <1>3, <1>8, <1>10, <1>11, <1>12, <1>13 DEF Inv

\* The entry of a new attach.
LEMMA GetOrCreateInv ==
    ASSUME Inv, NEW u \in Users, GetOrCreateEntry(u)
    PROVE  Inv'
<1>1. /\ UNCHANGED <<entry_vars, session_vars, status, got, seen, closers, lost, exposed>>
      /\ stage = "up" /\ pc[u] = "idle" /\ attaches < MaxAttaches /\ attaches' = attaches + 1
      /\ entries' = IF map = 0 THEN entries + 1 ELSE entries
      /\ map' = IF map = 0 THEN entries + 1 ELSE map
      /\ ent' = [ent EXCEPT ![u] = map']
      /\ pc' = [pc EXCEPT ![u] = "entry"]
  BY DEF GetOrCreateEntry
<1>2. TypeOK /\ Located /\ Counted /\ Placed /\ Held /\ Drained
  BY DEF Inv
<1>3. /\ entries \in Nat /\ attaches \in Nat /\ MaxAttaches \in Nat /\ map \in 0..entries
      /\ entries <= attaches + 1
  BY <1>2, PoolAssumption DEF TypeOK, Located, PoolAssumption
<1>4. /\ attaches' \in 0..MaxAttaches /\ entries' \in 0..MaxAttaches + 1
      /\ entries' <= attaches' + 1 /\ entries <= entries' /\ map' \in 1..entries'
      /\ map' \in 0..entries'
  BY <1>1, <1>3
<1>5. /\ ent' \in [Users -> 0..entries'] /\ ent'[u] \in 1..entries'
      /\ \A w \in Users \ {u} : ent'[w] = ent[w]
  BY <1>1, <1>2, <1>3, <1>4 DEF TypeOK
<1>6. /\ pc' \in [Users -> Steps] /\ pc'[u] = "entry" /\ \A w \in Users \ {u} : pc'[w] = pc[w]
  BY <1>1, <1>2 DEF TypeOK, Steps
<1>7. TypeOK'
  BY <1>1, <1>2, <1>4, <1>5, <1>6 DEF TypeOK, Steps, entry_vars, session_vars
<1>8. Located'
  BY <1>2, <1>3, <1>4, <1>5, <1>6 DEF Located
<1>9. Counted' /\ Held'
  <2>1. Others(u) /\ Holding(u)' = Holding(u) /\ ~Holding(u) /\ pc'[u] # "resolved"
    BY <1>1, <1>5, <1>6 DEF Others, Holding
  <2>2. ASSUME NEW e \in Nat, MayClose(u, e)' PROVE MayClose(u, e)
    BY <1>6, <2>2 DEF MayClose
  <2> QED BY <1>1, <1>2, <2>1, <2>2, StepSame DEF entry_vars
<1>10. Placed' /\ Drained'
  BY <1>1, <1>2, PlacedSame DEF entry_vars
<1> QED BY <1>7, <1>8, <1>9, <1>10 DEF Inv

\* What keeps the promise to the others when one phase has a resource in hand
\* but is not yet counted.
LEMMA HeldOthers ==
    ASSUME TypeOK, Located, Held, NEW u \in Users, Others(u), resource' = resource, lost' = lost,
           status' = status, ~Holding(u)',
           \A e \in Entries : ~MayClose(u, e)',
           pc'[u] = "resolved" => got'[u] # 0 /\ status'[got'[u]] # "none"
    PROVE  Held'
<1> SUFFICES ASSUME NEW w \in Users
             PROVE  /\ (pc[w] = "resolved" \/ Holding(w))' => got'[w] # 0 /\ status'[got'[w]] # "none"
                    /\ Holding(w)' /\ ~exposed'[w] =>
                          /\ resource'[ent'[w]] = got'[w] \/ got'[w] \in lost'
                          /\ \A x \in Users : ~MayClose(x, ent[w])'
  BY DEF Held
<1>1. CASE w = u
  BY <1>1
<1>2. CASE w # u
  <2>1. /\ pc'[w] = pc[w] /\ ent'[w] = ent[w] /\ got'[w] = got[w] /\ exposed'[w] = exposed[w]
        /\ Holding(w)' = Holding(w)
    BY <1>2 DEF Others, Holding
  <2>2. (pc[w] = "resolved" \/ Holding(w))' => got'[w] # 0 /\ status'[got'[w]] # "none"
    BY <2>1 DEF Held
  <2>3. ASSUME Holding(w)', ~exposed'[w]
        PROVE  /\ resource'[ent'[w]] = got'[w] \/ got'[w] \in lost'
               /\ \A x \in Users : ~MayClose(x, ent[w])'
    <3>1. /\ resource[ent[w]] = got[w] \/ got[w] \in lost
          /\ \A x \in Users : ~MayClose(x, ent[w])
      BY <2>1, <2>3 DEF Held
    <3>2. ent[w] \in Entries
      BY <2>1, <2>3, PoolAssumption DEF Located, Holding, TypeOK, Entries, PoolAssumption
    <3>3. ASSUME NEW x \in Users PROVE ~MayClose(x, ent[w])'
      <4>1. CASE x = u
        BY <2>1, <3>2, <4>1
      <4>2. CASE x # u
        BY <2>1, <3>1, <4>2 DEF Others, MayClose
      <4> QED BY <4>1, <4>2
    <3> QED BY <2>1, <3>1, <3>3
  <2> QED BY <2>2, <2>3
<1> QED BY <1>1, <1>2

\* The fast path: what is in a slot is open.
LEMMA ReadSlotInv ==
    ASSUME Inv, NEW u \in Users, ReadSlot(u)
    PROVE  Inv'
<1> DEFINE x == IF resource[ent[u]] # 0 THEN "resolved" ELSE "missed"
<1>1. /\ UNCHANGED <<map, entries, entry_vars, session_vars, status, ent, seen, closers, attaches,
                     lost, exposed>>
      /\ pc[u] = "entry" /\ pc' = [pc EXCEPT ![u] = x]
      /\ got' = [got EXCEPT ![u] = resource[ent[u]]]
  BY DEF ReadSlot
<1>2. TypeOK /\ Located /\ Counted /\ Placed /\ Held /\ Drained /\ x \in Steps
  BY DEF Inv, Steps
<1>3. /\ pc' \in [Users -> Steps] /\ pc'[u] = x /\ Located' /\ ent[u] \in Entries
      /\ \A w \in Users \ {u} : pc'[w] = pc[w] /\ ent'[w] = ent[w]
  BY <1>1, <1>2, MoveFacts
<1>4. /\ got' \in [Users -> 0..MaxAttaches] /\ got'[u] = resource[ent[u]]
      /\ \A w \in Users \ {u} : got'[w] = got[w]
  BY <1>1, <1>2, <1>3 DEF TypeOK
<1>5. TypeOK'
  BY <1>1, <1>2, <1>3, <1>4 DEF TypeOK, Steps, entry_vars, session_vars
<1>6. Others(u) /\ ~Holding(u) /\ ~Holding(u)' /\ Holding(u)' = Holding(u)
  BY <1>1, <1>3, <1>4 DEF Others, Holding
<1>7. Counted'
  <2>1. \A w \in Users : Holding(w)' = Holding(w) /\ (Holding(w) => ent'[w] = ent[w])
    BY <1>1, <1>6 DEF Others, Holding
  <2> QED BY <1>1, <1>2, <2>1, CountedSame DEF entry_vars
<1>8. Held'
  <2>1. \A e \in Nat : ~MayClose(u, e)'
    BY <1>3 DEF MayClose
  <2>2. pc'[u] = "resolved" => got'[u] # 0 /\ status'[got'[u]] # "none"
    BY <1>1, <1>2, <1>3, <1>4 DEF Placed
  <2>3. Entries \subseteq Nat
    BY DEF Entries
  <2> QED BY <1>1, <1>2, <1>6, <2>1, <2>2, <2>3, HeldOthers DEF entry_vars
<1>9. Placed' /\ Drained'
  BY <1>1, <1>2, UpWhileBusy, PlacedSame DEF entry_vars
<1> QED BY <1>3, <1>5, <1>7, <1>8, <1>9 DEF Inv

\* A new resource is put in the slot, and the one that was there is lost.
LEMMA InitCompletedInv ==
    ASSUME Inv, NEW u \in Users, InitCompleted(u)
    PROVE  Inv'
<1> DEFINE e == ent[u]
           old == resource[e]
<1>1. /\ UNCHANGED <<map, entries, poisoned, pending_uses, live_attaches, session_vars, ent, seen,
                     closers, attaches, exposed>>
      /\ pc[u] = "building" /\ pc' = [pc EXCEPT ![u] = "resolved"]
      /\ lost' = lost \cup ({old} \ {0})
  BY DEF InitCompleted
<1>2. PICK r \in Resources :
          /\ status[r] = "none"
          /\ status' = [status EXCEPT ![r] = "open"]
          /\ resource' = [resource EXCEPT ![e] = r]
          /\ got' = [got EXCEPT ![u] = r]
  BY DEF InitCompleted
<1>3. TypeOK /\ Located /\ Counted /\ Placed /\ Held /\ Drained
  BY DEF Inv
<1>4. /\ pc' \in [Users -> Steps] /\ pc'[u] = "resolved" /\ Located' /\ e \in Entries
      /\ \A w \in Users \ {u} : pc'[w] = pc[w] /\ ent'[w] = ent[w]
  BY <1>1, <1>3, MoveFacts DEF Steps
<1>5. r \in 0..MaxAttaches /\ r # 0 /\ MaxAttaches \in Nat /\ 0 \notin Resources
  BY PoolAssumption DEF Resources, PoolAssumption
<1>6. /\ got' \in [Users -> 0..MaxAttaches] /\ got'[u] = r
      /\ \A w \in Users \ {u} : got'[w] = got[w]
  BY <1>2, <1>3, <1>5 DEF TypeOK
<1>7. /\ resource' \in [Entries -> 0..MaxAttaches] /\ resource'[e] = r
      /\ \A f \in Entries \ {e} : resource'[f] = resource[f]
  BY <1>2, <1>3, <1>4, <1>5 DEF TypeOK
<1>8. /\ status' \in [Resources -> {"none", "open", "closing", "closed"}]
      /\ status'[r] = "open" /\ \A q \in Resources \ {r} : status'[q] = status[q]
  BY <1>2, <1>3 DEF TypeOK
<1>9. \A f \in Entries : resource[f] # 0 => resource[f] \in Resources
  BY <1>3, <1>5 DEF TypeOK, Resources
<1>10. lost' \subseteq Resources
  BY <1>1, <1>3, <1>4, <1>9 DEF TypeOK
<1>11. TypeOK'
  BY <1>1, <1>3, <1>4, <1>6, <1>7, <1>8, <1>10 DEF TypeOK, Steps, session_vars
<1>12. stage = "up"
  BY <1>1, <1>3, UpWhileBusy
<1>13. Placed'
  <2>1. \A f \in Entries : resource[f] # r
    BY <1>2, <1>3, <1>5 DEF Placed
  <2>2. r \notin lost /\ r # old
    BY <1>2, <1>3, <1>4, <2>1 DEF Placed
  <2>3. ASSUME NEW f \in Entries, resource'[f] # 0
        PROVE  status'[resource'[f]] = "open" /\ resource'[f] \notin lost'
    <3>1. CASE f = e
      BY <1>1, <1>7, <1>8, <2>2, <3>1
    <3>2. CASE f # e
      <4>1. resource'[f] = resource[f] /\ resource[f] \in Resources \ {r}
        BY <1>7, <1>9, <2>1, <2>3, <3>2
      <4>2. status[resource[f]] = "open" /\ resource[f] \notin lost /\ resource[f] # old
        BY <1>3, <1>4, <2>3, <3>2, <4>1 DEF Placed
      <4> QED BY <1>1, <1>8, <4>1, <4>2
    <3> QED BY <3>1, <3>2
  <2>4. ASSUME NEW f \in Entries, NEW g \in Entries, resource'[f] # 0, resource'[f] = resource'[g]
        PROVE  f = g
    <3>1. CASE f = e \/ g = e
      BY <1>7, <2>1, <2>4, <3>1
    <3>2. CASE f # e /\ g # e
      BY <1>3, <1>7, <2>4, <3>2 DEF Placed
    <3> QED BY <3>1, <3>2
  <2>5. ASSUME NEW q \in lost' PROVE status'[q] = "open"
    <3>1. q \in Resources /\ status[q] = "open"
      BY <1>1, <1>3, <1>4, <1>10 DEF Placed
    <3> QED BY <1>8, <3>1
  <2>6. \A c \in closers : status'[c.res] = "closing"
    BY <1>2, <1>3, <1>8 DEF Placed, TypeOK
  <2>7. \A c, d \in closers : c.res = d.res => c = d
    BY <1>3 DEF Placed
  <2>8. stage' # "closing" /\ closers' = closers
    BY <1>1, <1>12 DEF session_vars
  <2> QED BY <2>3, <2>4, <2>5, <2>6, <2>7, <2>8 DEF Placed
<1>14. Counted'
  <2>1. \A w \in Users : Holding(w)' = Holding(w) /\ (Holding(w) => ent'[w] = ent[w])
    BY <1>1, <1>4 DEF Holding
  <2> QED BY <1>1, <1>3, <2>1, CountedSame
<1>15. Held'
  <2> SUFFICES ASSUME NEW w \in Users
               PROVE  /\ (pc[w] = "resolved" \/ Holding(w))' =>
                             got'[w] # 0 /\ status'[got'[w]] # "none"
                      /\ Holding(w)' /\ ~exposed'[w] =>
                            /\ resource'[ent'[w]] = got'[w] \/ got'[w] \in lost'
                            /\ \A x \in Users : ~MayClose(x, ent[w])'
    BY DEF Held
  <2>1. CASE w = u
    BY <1>4, <1>5, <1>6, <1>8, <2>1 DEF Holding
  <2>2. CASE w # u
    <3>1. /\ pc'[w] = pc[w] /\ ent'[w] = ent[w] /\ got'[w] = got[w] /\ exposed'[w] = exposed[w]
          /\ Holding(w)' = Holding(w)
      BY <1>1, <1>4, <1>6, <2>2 DEF Holding
    <3>2. (pc[w] = "resolved" \/ Holding(w))' => got'[w] # 0 /\ status'[got'[w]] # "none"
      <4>1. pc[w] = "resolved" \/ Holding(w) => got[w] \in Resources /\ status[got[w]] # "none"
        BY <1>3 DEF Held, TypeOK, Resources
      <4> QED BY <1>5, <1>8, <3>1, <4>1
    <3>3. ASSUME Holding(w)', ~exposed'[w]
          PROVE  /\ resource'[ent'[w]] = got'[w] \/ got'[w] \in lost'
                 /\ \A x \in Users : ~MayClose(x, ent[w])'
      <4>1. /\ resource[ent[w]] = got[w] \/ got[w] \in lost
            /\ \A x \in Users : ~MayClose(x, ent[w])
            /\ got[w] # 0
        BY <1>3, <3>1, <3>3 DEF Held
      <4>2. ent[w] \in Entries
        <5>1. ent[w] \in 1..entries
          BY <1>3, <3>1, <3>3 DEF Located, Holding
        <5> QED BY <1>3, <1>5, <5>1 DEF TypeOK, Entries
      <4>3. resource'[ent'[w]] = got'[w] \/ got'[w] \in lost'
        BY <1>1, <1>7, <3>1, <4>1, <4>2
      <4>4. ASSUME NEW x \in Users PROVE ~MayClose(x, ent[w])'
        BY <1>1, <1>4, <3>1, <4>1 DEF MayClose
      <4> QED BY <4>3, <4>4
    <3> QED BY <3>2, <3>3
  <2> QED BY <2>1, <2>2
<1>16. Drained'
  BY <1>1, <1>12 DEF Drained, session_vars
<1> QED BY <1>4, <1>11, <1>13, <1>14, <1>15, <1>16 DEF Inv

\* The phases counted on an entry are finitely many.
LEMMA HoldersFinite ==
    ASSUME NEW e
    PROVE  IsFiniteSet(Holders(e)) /\ Cardinality(Holders(e)) \in Nat
<1>1. Holders(e) \in SUBSET Users
  BY DEF Holders
<1> QED BY <1>1, PoolAssumption, FS_Subset, FS_CardinalityType DEF PoolAssumption

\* The phase is counted: it holds its resource, unless it came too late.
LEMMA CountLiveInv ==
    ASSUME Inv, NEW u \in Users, CountLive(u)
    PROVE  Inv'
<1> DEFINE late == resource[ent[u]] # got[u] \/ \E w \in Users : MayClose(w, ent[u])
<1>1. /\ UNCHANGED <<map, entries, resource, poisoned, pending_uses, session_vars, status, ent, got,
                     seen, closers, attaches, lost>>
      /\ pc[u] = "resolved" /\ pc' = [pc EXCEPT ![u] = "counted"]
      /\ live_attaches' = [live_attaches EXCEPT ![ent[u]] = live_attaches[ent[u]] + 1]
      /\ exposed' = [exposed EXCEPT ![u] = late]
  BY DEF CountLive
<1> HIDE DEF late
<1>2. TypeOK /\ Located /\ Counted /\ Placed /\ Held /\ Drained
  BY DEF Inv
<1>3. /\ pc' \in [Users -> Steps] /\ pc'[u] = "counted" /\ Located' /\ ent[u] \in Entries
      /\ \A w \in Users \ {u} : pc'[w] = pc[w]
  BY <1>1, <1>2, MoveFacts DEF Steps
<1>4. /\ exposed' \in [Users -> BOOLEAN] /\ exposed'[u] = late
      /\ \A w \in Users \ {u} : exposed'[w] = exposed[w]
  <2>1. late \in BOOLEAN
    BY DEF late
  <2> QED BY <1>1, <1>2, <2>1 DEF TypeOK
<1>5. /\ live_attaches' \in [Entries -> Nat] /\ live_attaches'[ent[u]] = live_attaches[ent[u]] + 1
      /\ \A e \in Entries \ {ent[u]} : live_attaches'[e] = live_attaches[e]
  BY <1>1, <1>2, <1>3 DEF TypeOK
<1>6. TypeOK'
  BY <1>1, <1>2, <1>3, <1>4, <1>5 DEF TypeOK, Steps, session_vars
<1>7. Counted'
  <2>0. /\ ~Holding(u) /\ Holding(u)' /\ ent' = ent
        /\ \A w \in Users \ {u} : Holding(w)' = Holding(w)
    BY <1>1, <1>3 DEF Holding
  <2>1. ASSUME NEW e \in Entries PROVE live_attaches'[e] = Cardinality(Holders(e)')
    <3>1. CASE e = ent[u]
      <4>1. Holders(e)' = Holders(e) \cup {u} /\ u \notin Holders(e)
        BY <2>0, <3>1 DEF Holders
      <4>2. Cardinality(Holders(e) \cup {u}) = Cardinality(Holders(e)) + 1
        BY <4>1, HoldersFinite, FS_AddElement
      <4> QED BY <1>2, <1>5, <3>1, <4>1, <4>2 DEF Counted
    <3>2. CASE e # ent[u]
      <4>1. Holders(e)' = Holders(e)
        BY <2>0, <3>2 DEF Holders
      <4> QED BY <1>2, <1>5, <3>2, <4>1 DEF Counted
    <3> QED BY <3>1, <3>2
  <2> QED BY <2>1 DEF Counted
<1>8. Held'
  <2> SUFFICES ASSUME NEW w \in Users
               PROVE  /\ (pc[w] = "resolved" \/ Holding(w))' =>
                             got'[w] # 0 /\ status'[got'[w]] # "none"
                      /\ Holding(w)' /\ ~exposed'[w] =>
                            /\ resource'[ent'[w]] = got'[w] \/ got'[w] \in lost'
                            /\ \A x \in Users : ~MayClose(x, ent[w])'
    BY DEF Held
  <2>0. ASSUME NEW x \in Users PROVE MayClose(x, ent[w])' => MayClose(x, ent[w])
    <3>1. CASE x = u
      BY <1>3, <3>1 DEF MayClose
    <3>2. CASE x # u
      BY <1>1, <1>3, <3>2 DEF MayClose
    <3> QED BY <3>1, <3>2
  <2>1. CASE w = u
    <3>1. got'[w] # 0 /\ status'[got'[w]] # "none"
      BY <1>1, <1>2, <2>1 DEF Held
    <3>2. ~exposed'[w] => /\ resource[ent[w]] = got[w]
                          /\ \A x \in Users : ~MayClose(x, ent[w])
      BY <1>4, <2>1 DEF late
    <3> QED BY <1>1, <2>0, <3>1, <3>2
  <2>2. CASE w # u
    <3>1. pc'[w] = pc[w] /\ exposed'[w] = exposed[w] /\ Holding(w)' = Holding(w)
      BY <1>3, <1>4, <2>2 DEF Holding
    <3> QED BY <1>1, <1>2, <2>0, <3>1 DEF Held
  <2> QED BY <2>1, <2>2
<1>9. Placed' /\ Drained'
  BY <1>1, <1>2, UpWhileBusy, PlacedSame
<1> QED BY <1>3, <1>6, <1>7, <1>8, <1>9 DEF Inv

\* The guard is dropped.  The detach sees no live attach only if no phase is
\* counted on the entry, so that a holder has nobody about to close on it.
LEMMA DetachInv ==
    ASSUME Inv, NEW u \in Users, Detach(u)
    PROVE  Inv'
<1>1. /\ UNCHANGED <<map, entries, resource, poisoned, pending_uses, session_vars, status, ent, got,
                     closers, attaches, lost, exposed>>
      /\ pc[u] = "attached" /\ pc' = [pc EXCEPT ![u] = "detached"]
      /\ live_attaches' = [live_attaches EXCEPT ![ent[u]] = live_attaches[ent[u]] - 1]
      /\ seen' = [seen EXCEPT ![u] = live_attaches[ent[u]] - 1]
  BY DEF Detach
<1>2. TypeOK /\ Located /\ Counted /\ Placed /\ Held /\ Drained
  BY DEF Inv
<1>3. /\ pc' \in [Users -> Steps] /\ pc'[u] = "detached" /\ Located' /\ ent[u] \in Entries
      /\ \A w \in Users \ {u} : pc'[w] = pc[w]
  BY <1>1, <1>2, MoveFacts DEF Steps
<1>4. /\ Holding(u) /\ ~Holding(u)' /\ ent' = ent
      /\ \A w \in Users \ {u} : Holding(w)' = Holding(w)
  BY <1>1, <1>3 DEF Holding
<1>5. /\ Holders(ent[u])' = Holders(ent[u]) \ {u} /\ u \in Holders(ent[u])
      /\ \A e \in Entries \ {ent[u]} : Holders(e)' = Holders(e)
  BY <1>4 DEF Holders
<1>6. /\ Cardinality(Holders(ent[u])') = live_attaches[ent[u]] - 1
      /\ live_attaches[ent[u]] - 1 \in Nat
  <2>1. /\ IsFiniteSet(Holders(ent[u]))
        /\ Cardinality(Holders(ent[u]) \ {u}) = Cardinality(Holders(ent[u])) - 1
        /\ IsFiniteSet(Holders(ent[u]) \ {u})
    BY <1>5, HoldersFinite, FS_RemoveElement
  <2>2. Cardinality(Holders(ent[u]) \ {u}) \in Nat
    BY <2>1, FS_CardinalityType
  <2> QED BY <1>2, <1>3, <1>5, <2>1, <2>2 DEF Counted
<1>7. /\ live_attaches' \in [Entries -> Nat] /\ live_attaches'[ent[u]] = live_attaches[ent[u]] - 1
      /\ \A e \in Entries \ {ent[u]} : live_attaches'[e] = live_attaches[e]
  BY <1>1, <1>2, <1>3, <1>6 DEF TypeOK
<1>8. /\ seen' \in [Users -> Nat] /\ seen'[u] = live_attaches[ent[u]] - 1
      /\ \A w \in Users \ {u} : seen'[w] = seen[w]
  BY <1>1, <1>2, <1>6 DEF TypeOK
<1>9. TypeOK'
  BY <1>1, <1>2, <1>3, <1>7, <1>8 DEF TypeOK, Steps, session_vars
<1>10. Counted'
  <2>1. ASSUME NEW e \in Entries PROVE live_attaches'[e] = Cardinality(Holders(e)')
    <3>1. CASE e = ent[u]
      BY <1>4, <1>6, <1>7, <3>1
    <3>2. CASE e # ent[u]
      BY <1>2, <1>5, <1>7, <3>2 DEF Counted
    <3> QED BY <3>1, <3>2
  <2> QED BY <2>1 DEF Counted
<1>11. Held'
  <2> SUFFICES ASSUME NEW w \in Users, (pc[w] = "resolved" \/ Holding(w))'
               PROVE  /\ got'[w] # 0 /\ status'[got'[w]] # "none"
                      /\ Holding(w)' /\ ~exposed'[w] =>
                            /\ resource'[ent'[w]] = got'[w] \/ got'[w] \in lost'
                            /\ \A x \in Users : ~MayClose(x, ent[w])'
    BY DEF Held
  <2>1. w # u
    BY <1>3, <1>4
  <2>2. pc'[w] = pc[w] /\ Holding(w)' = Holding(w)
    BY <1>3, <1>4, <2>1
  <2>3. ASSUME Holding(w)', ~exposed'[w], NEW x \in Users PROVE ~MayClose(x, ent[w])'
    <3>0. ~MayClose(x, ent[w]) /\ Holding(w)
      BY <1>1, <1>2, <2>2, <2>3 DEF Held
    <3>1. CASE x # u
      BY <1>1, <1>3, <1>8, <3>0, <3>1 DEF MayClose
    <3>2. CASE x = u /\ ent[w] # ent[u]
      BY <1>1, <3>2 DEF MayClose
    <3>3. CASE x = u /\ ent[w] = ent[u]
      <4>1. w \in Holders(ent[u])'
        BY <1>4, <2>3, <3>3 DEF Holders
      <4>2. IsFiniteSet(Holders(ent[u])')
        BY <1>5, HoldersFinite, FS_RemoveElement
      <4>3. seen'[u] # 0
        BY <1>6, <1>8, <4>1, <4>2, FS_EmptySet
      <4> QED BY <1>3, <3>3, <4>3 DEF MayClose
    <3> QED BY <3>1, <3>2, <3>3
  <2> QED BY <1>1, <1>2, <2>2, <2>3 DEF Held
<1>12. Placed' /\ Drained'
  BY <1>1, <1>2, UpWhileBusy, PlacedSame
<1> QED BY <1>3, <1>9, <1>10, <1>11, <1>12 DEF Inv

\* A step that is not one of a phase's.
LEMMA QuietSame ==
    ASSUME Inv, UNCHANGED <<pc, ent, got, seen, exposed, entries, attaches, live_attaches>>
    PROVE  Located' /\ Counted' /\ Busy' = Busy /\ \A u \in Users : Holding(u)' = Holding(u)
<1>1. \A u \in Users : Holding(u)' = Holding(u) /\ ent'[u] = ent[u]
  BY DEF Holding
<1>2. Counted'
  BY <1>1, CountedSame DEF Inv
<1> QED BY <1>1, <1>2 DEF Inv, Located, Busy

\* The end of a spawned close.
LEMMA CloseEndsInv ==
    ASSUME Inv, NEW c \in closers, CloseEnds(c)
    PROVE  Inv'
<1>1. /\ UNCHANGED <<entries, resource, poisoned, pending_uses, live_attaches, stage, shut, pc, ent,
                     got, seen, attaches, lost, exposed>>
      /\ closers' = closers \ {c} /\ map' = 0
      /\ status' = [status EXCEPT ![c.res] = "closed"]
  BY DEF CloseEnds, remove_entry, entry_vars, session_vars
<1>2. TypeOK /\ Placed /\ Held /\ Drained /\ c.res \in Resources /\ status[c.res] = "closing"
  BY DEF Inv, TypeOK, Placed
<1>3. /\ status' \in [Resources -> {"none", "open", "closing", "closed"}]
      /\ status'[c.res] = "closed" /\ \A q \in Resources \ {c.res} : status'[q] = status[q]
  BY <1>1, <1>2 DEF TypeOK
<1>4. map' \in 0..entries'
  BY <1>1, <1>2 DEF TypeOK
<1>5. TypeOK'
  BY <1>1, <1>2, <1>3, <1>4 DEF TypeOK
<1>6. Located' /\ Counted' /\ Busy' = Busy /\ \A u \in Users : Holding(u)' = Holding(u)
  BY <1>1, QuietSame
<1>7. Placed'
  <2>1. ASSUME NEW e \in Entries, resource'[e] # 0
        PROVE  status'[resource'[e]] = "open" /\ resource'[e] \notin lost'
    <3>1. resource[e] \in Resources
      BY <1>1, <1>2, <2>1 DEF TypeOK, Resources
    <3> QED BY <1>1, <1>2, <1>3, <2>1, <3>1 DEF Placed
  <2>2. \A e, f \in Entries : resource'[e] # 0 /\ resource'[e] = resource'[f] => e = f
    BY <1>1, <1>2 DEF Placed
  <2>3. \A r \in lost' : status'[r] = "open"
    BY <1>1, <1>2, <1>3 DEF Placed, TypeOK
  <2>4. \A d \in closers' : d.res # c.res /\ d.res \in Resources /\ status[d.res] = "closing"
    BY <1>1, <1>2 DEF Placed, TypeOK
  <2>5. \A d \in closers' : status'[d.res] = "closing"
    BY <1>3, <2>4
  <2>6. \A d, b \in closers' : d.res = b.res => d = b
    BY <1>1, <1>2 DEF Placed
  <2>7. stage' = "closing" => /\ shut' \in Resources /\ status'[shut'] = "closing"
                              /\ \A d \in closers' : d.res # shut'
    BY <1>1, <1>2, <1>3 DEF Placed
  <2> QED BY <2>1, <2>2, <2>3, <2>5, <2>6, <2>7 DEF Placed
<1>8. Held'
  <2>1. \A r \in Resources : status[r] # "none" => status'[r] # "none"
    BY <1>2, <1>3
  <2>2. \A u \in Users : got[u] \in 0..MaxAttaches
    BY <1>2 DEF TypeOK
  <2>3. \A w \in Users, e \in Nat : e # 0 /\ MayClose(w, e)' => MayClose(w, e)
    BY <1>1 DEF MayClose
  <2>4. \A u \in Users : Holding(u) => ent[u] \in Nat \ {0}
    BY <1>2 DEF Inv, Located, Holding, TypeOK
  <2> QED BY <1>1, <1>2, <1>6, <2>1, <2>2, <2>3, <2>4, HeldSame
<1>9. Drained'
  BY <1>1, <1>2, <1>6 DEF Drained
<1> QED BY <1>5, <1>6, <1>7, <1>8, <1>9 DEF Inv

\* With no phase at work there is nothing to promise.
LEMMA QuietHeld ==
    ASSUME Busy' = {}
    PROVE  Held'
BY DEF Busy, Held, Holding

\* The drain of the session end takes what is in the slot of the key's entry.
LEMMA DrainTakeInv ==
    ASSUME Inv, DrainTake
    PROVE  Inv'
<1> DEFINE r == resource[shut]
<1>1. /\ UNCHANGED <<map, entries, poisoned, pending_uses, live_attaches, pc, ent, got, seen, closers,
                     attaches, lost, exposed>>
      /\ stage = "draining" /\ stage' = "closing" /\ r # 0 /\ shut' = r
      /\ status' = [status EXCEPT ![r] = "closing"]
      /\ resource' = [resource EXCEPT ![shut] = 0]
  BY DEF DrainTake
<1>2. TypeOK /\ Placed /\ Drained /\ shut \in Entries /\ Busy = {}
  BY <1>1 DEF Inv, Drained
<1>3. r \in Resources /\ status[r] = "open" /\ r \notin lost /\ MaxAttaches \in Nat
  BY <1>1, <1>2, PoolAssumption DEF TypeOK, Placed, Resources, PoolAssumption
<1>4. /\ status' \in [Resources -> {"none", "open", "closing", "closed"}]
      /\ status'[r] = "closing" /\ \A q \in Resources \ {r} : status'[q] = status[q]
  BY <1>1, <1>2, <1>3 DEF TypeOK
<1>5. /\ resource' \in [Entries -> 0..MaxAttaches] /\ resource'[shut] = 0
      /\ \A f \in Entries \ {shut} : resource'[f] = resource[f]
  BY <1>1, <1>2, <1>3 DEF TypeOK
<1>6. shut' \in Nat
  BY <1>1, <1>3 DEF Resources
<1>7. TypeOK'
  BY <1>1, <1>2, <1>4, <1>5, <1>6 DEF TypeOK
<1>8. Located' /\ Counted' /\ Busy' = Busy
  BY <1>1, QuietSame
<1>9. Placed'
  <2>1. \A f \in Entries \ {shut} : resource[f] # r
    BY <1>1, <1>2 DEF Placed
  <2>2. ASSUME NEW f \in Entries, resource'[f] # 0
        PROVE  status'[resource'[f]] = "open" /\ resource'[f] \notin lost'
    <3>1. f # shut /\ resource'[f] = resource[f] /\ resource[f] \in Resources \ {r}
      BY <1>2, <1>5, <2>1, <2>2 DEF TypeOK, Resources
    <3> QED BY <1>1, <1>2, <1>4, <2>2, <3>1 DEF Placed
  <2>3. \A f, g \in Entries : resource'[f] # 0 /\ resource'[f] = resource'[g] => f = g
    BY <1>2, <1>5 DEF Placed
  <2>4. \A q \in lost' : status'[q] = "open"
    BY <1>1, <1>2, <1>3, <1>4 DEF Placed, TypeOK
  <2>5. \A c \in closers : c.res # r /\ c.res \in Resources /\ status[c.res] = "closing"
    BY <1>2, <1>3 DEF Placed, TypeOK
  <2>6. \A c \in closers' : status'[c.res] = "closing" /\ c.res # shut'
    BY <1>1, <1>4, <2>5
  <2>7. \A c, d \in closers' : c.res = d.res => c = d
    BY <1>1, <1>2 DEF Placed
  <2> QED BY <1>1, <1>3, <1>4, <2>2, <2>3, <2>4, <2>6, <2>7 DEF Placed
<1>10. Held' /\ Drained'
  BY <1>1, <1>2, <1>8, QuietHeld DEF Drained
<1> QED BY <1>7, <1>8, <1>9, <1>10 DEF Inv

\* The drain awaits the close it began.
LEMMA DrainClosedInv ==
    ASSUME Inv, DrainClosed
    PROVE  Inv'
<1>1. /\ UNCHANGED <<entries, resource, poisoned, pending_uses, live_attaches, shut, pc, ent, got,
                     seen, closers, attaches, lost, exposed>>
      /\ stage = "closing" /\ stage' = "drained" /\ map' = 0
      /\ status' = [status EXCEPT ![shut] = "closed"]
  BY DEF DrainClosed, remove_entry, entry_vars
<1>2. /\ TypeOK /\ Placed /\ Busy = {} /\ shut \in Resources /\ status[shut] = "closing"
      /\ \A c \in closers : c.res # shut
  BY <1>1 DEF Inv, Drained, Placed
<1>3. /\ status' \in [Resources -> {"none", "open", "closing", "closed"}]
      /\ status'[shut] = "closed" /\ \A q \in Resources \ {shut} : status'[q] = status[q]
  BY <1>1, <1>2 DEF TypeOK
<1>4. map' \in 0..entries'
  BY <1>1, <1>2 DEF TypeOK
<1>5. TypeOK'
  BY <1>1, <1>2, <1>3, <1>4 DEF TypeOK
<1>6. Located' /\ Counted' /\ Busy' = Busy
  BY <1>1, QuietSame
<1>7. Placed'
  <2>1. ASSUME NEW e \in Entries, resource'[e] # 0
        PROVE  status'[resource'[e]] = "open" /\ resource'[e] \notin lost'
    <3>1. resource[e] \in Resources
      BY <1>1, <1>2, <2>1 DEF TypeOK, Resources
    <3> QED BY <1>1, <1>2, <1>3, <2>1, <3>1 DEF Placed
  <2>2. \A e, f \in Entries : resource'[e] # 0 /\ resource'[e] = resource'[f] => e = f
    BY <1>1, <1>2 DEF Placed
  <2>3. \A r \in lost' : status'[r] = "open"
    BY <1>1, <1>2, <1>3 DEF Placed, TypeOK
  <2>4. \A c \in closers' : c.res \in Resources \ {shut} /\ status[c.res] = "closing"
    BY <1>1, <1>2 DEF Placed, TypeOK
  <2>5. \A c \in closers' : status'[c.res] = "closing"
    BY <1>3, <2>4
  <2>6. \A c, d \in closers' : c.res = d.res => c = d
    BY <1>1, <1>2 DEF Placed
  <2> QED BY <1>1, <2>1, <2>2, <2>3, <2>5, <2>6 DEF Placed
<1>8. Held' /\ Drained'
  BY <1>1, <1>2, <1>6, QuietHeld DEF Drained
<1> QED BY <1>5, <1>6, <1>7, <1>8 DEF Inv

\* The other steps of the session end touch no resource.
LEMMA SessionInv ==
    ASSUME Inv, Snapshot \/ DrainEmpty \/ Exit
    PROVE  Inv'
<1>1. /\ UNCHANGED <<entries, resource, poisoned, pending_uses, live_attaches, status, pc, ent, got,
                     seen, closers, attaches, lost, exposed>>
      /\ map' = map \/ map' = 0
      /\ \/ stage = "up" /\ Busy = {} /\ shut' = map /\ stage' \in {"draining", "drained"}
            /\ (stage' = "draining" => map # 0)
         \/ stage # "up" /\ shut' = shut /\ stage' \in {"drained", "exited"}
  BY DEF Snapshot, DrainEmpty, Exit, remove_entry, entry_vars
<1>2. TypeOK /\ Placed /\ Drained
  BY DEF Inv
<1>3. Busy = {} /\ map' \in 0..entries' /\ shut' \in Nat /\ stage' # "closing"
      /\ stage' \in {"up", "draining", "closing", "drained", "exited"}
  BY <1>1, <1>2 DEF Drained, TypeOK
<1>4. TypeOK'
  BY <1>1, <1>2, <1>3 DEF TypeOK
<1>5. Located' /\ Counted' /\ Busy' = Busy
  BY <1>1, QuietSame
<1>6. Placed'
  BY <1>1, <1>2, <1>3 DEF Placed
<1>7. Held'
  BY <1>3, <1>5, QuietHeld
<1>8. stage' = "draining" => shut' \in Entries
  BY <1>1, <1>2, PoolAssumption DEF TypeOK, Entries, PoolAssumption
<1> QED BY <1>3, <1>4, <1>5, <1>6, <1>7, <1>8 DEF Inv, Drained

-----------------------------------------------------------------------------
\* The pool after the pre-map walk.
LEMMA InvInit == Init => Inv
<1> SUFFICES ASSUME Init PROVE Inv
  OBVIOUS
<1>1. PICK n \in Predictions :
        /\ map = IF n > 0 THEN 1 ELSE 0
        /\ entries = map
        /\ resource = [e \in Entries |-> 0]
        /\ poisoned = [e \in Entries |-> FALSE]
        /\ pending_uses = [e \in Entries |-> IF e = map THEN n ELSE 0]
        /\ live_attaches = [e \in Entries |-> 0]
        /\ status = [r \in Resources |-> "none"]
        /\ pc = [u \in Users |-> "idle"]
        /\ ent = [u \in Users |-> 0] /\ got = ent /\ seen = ent
        /\ closers = {}
        /\ stage = "up" /\ shut = 0
        /\ attaches = 0
        /\ lost = {}
        /\ exposed = [u \in Users |-> FALSE]
  BY DEF Init
<1>2. /\ n \in Nat /\ n + MaxAttaches < Wrap /\ Wrap \in Nat /\ MaxAttaches \in Nat
  BY PoolAssumption DEF PoolAssumption
<1>3. TypeOK
  <2>1. /\ map \in 0..entries /\ entries \in 0..MaxAttaches + 1 /\ attaches \in 0..MaxAttaches
        /\ shut \in Nat /\ stage \in {"up", "draining", "closing", "drained", "exited"}
    BY <1>1, <1>2
  <2>2. /\ resource \in [Entries -> 0..MaxAttaches] /\ live_attaches \in [Entries -> Nat]
        /\ pending_uses \in [Entries -> 0..Wrap - 1]
    BY <1>1, <1>2
  <2>3. poisoned \in [Entries -> BOOLEAN] /\ exposed \in [Users -> BOOLEAN]
    BY <1>1
  <2>4. /\ status \in [Resources -> {"none", "open", "closing", "closed"}]
        /\ pc \in [Users -> Steps]
    BY <1>1 DEF Steps
  <2>5. /\ ent \in [Users -> 0..entries] /\ got \in [Users -> 0..MaxAttaches]
        /\ seen \in [Users -> Nat]
    BY <1>1, <1>2
  <2>6. closers \subseteq [entry : Entries, res : Resources] /\ lost \subseteq Resources
    BY <1>1
  <2> QED BY <2>1, <2>2, <2>3, <2>4, <2>5, <2>6 DEF TypeOK, Steps
<1>4. Located /\ Placed /\ Held /\ Drained
  BY <1>1 DEF Located, Placed, Held, Drained, Holding
<1>5. Counted
  <2>1. ASSUME NEW e \in Entries PROVE Holders(e) = {}
    BY <1>1 DEF Holders, Holding
  <2> QED BY <1>1, <2>1, FS_EmptySet DEF Counted
<1> QED BY <1>3, <1>4, <1>5 DEF Inv

\* Every step of a phase, a close or the drain keeps the invariant.
LEMMA InvStep == Inv /\ [Next]_vars => Inv'
<1> SUFFICES ASSUME Inv, [Next]_vars PROVE Inv'
  OBVIOUS
<1>1. ASSUME NEW u \in Users, GetOrCreateEntry(u) PROVE Inv'
  BY <1>1, GetOrCreateInv
<1>2. ASSUME NEW u \in Users, Attach(u) PROVE Inv'
  BY <1>2, ReadSlotInv, LeaveInv, AdvanceInv, InitCompletedInv, CountLiveInv, TakePendingInv
     DEF Attach
<1>3. ASSUME NEW u \in Users, Drop(u) PROVE Inv'
  BY <1>3, DetachInv, LeaveInv, AdvanceInv, TakeAndCloseInv DEF Drop
<1>4. ASSUME NEW c \in closers, CloseEnds(c) PROVE Inv'
  BY <1>4, CloseEndsInv
<1>5. CASE Shutdown \/ Exit
  BY <1>5, SessionInv, DrainTakeInv, DrainClosedInv DEF Shutdown
<1>6. CASE UNCHANGED vars
  <2>1. UNCHANGED <<map, entries, resource, poisoned, pending_uses, live_attaches, status, pc, ent,
                    got, seen, closers, stage, shut, attaches, lost, exposed>>
    BY <1>6 DEF vars
  <2>2. TypeOK' /\ Placed'
    BY <2>1 DEF Inv, TypeOK, Placed
  <2>3. Located' /\ Counted' /\ Busy' = Busy
    BY <2>1, QuietSame
  <2>4. Held'
    BY <2>1 DEF Inv, Held, Holding, MayClose
  <2>5. Drained'
    BY <2>1, <2>3 DEF Inv, Drained
  <2> QED BY <2>2, <2>3, <2>4, <2>5 DEF Inv
<1> QED BY <1>1, <1>2, <1>3, <1>4, <1>5, <1>6 DEF Next, Ended

\* The invariant holds throughout a session.
LEMMA InvAlways == Spec => []Inv
<1> QED BY InvInit, InvStep, PTL DEF Spec

\* Every variable has its type: in particular no detach brings the count of
\* live attaches below zero, and the counters of predicted uses keep their width.
THEOREM TypeCorrect == Spec => []TypeOK
<1>1. Inv => TypeOK
  BY DEF Inv
<1> QED BY <1>1, InvAlways, PTL

-----------------------------------------------------------------------------
\* The refinement: what each phase holds in the abstract.
holds == [u \in Users |-> IF Holding(u) /\ ~exposed[u] THEN got[u] ELSE 0]

\* What is held does not change while the same phases are counted, each with
\* what it has.
LEMMA HoldsSame ==
    ASSUME \A u \in Users : Holding(u)' = Holding(u),
           \A u \in Users : Holding(u) => got'[u] = got[u] /\ exposed'[u] = exposed[u]
    PROVE  holds' = holds
<1>1. \A u \in Users : (IF Holding(u) /\ ~exposed[u] THEN got[u] ELSE 0)' =
                       (IF Holding(u) /\ ~exposed[u] THEN got[u] ELSE 0)
  OBVIOUS
<1> QED BY <1>1 DEF holds

\* The steps of SharedHandle, in the terms of the pool.
Opens(r) == status[r] = "none" /\ status' = [status EXCEPT ![r] = "open"] /\ holds' = holds
Acquires(u, r) ==
    /\ status[r] = "open" /\ holds[u] = 0
    /\ holds' = [holds EXCEPT ![u] = r] /\ status' = status
Releases(u) == holds[u] # 0 /\ holds' = [holds EXCEPT ![u] = 0] /\ status' = status
Closes(r) ==
    /\ status[r] = "open" /\ \A u \in Users : holds[u] # r
    /\ status' = [status EXCEPT ![r] = "closing"] /\ holds' = holds
Closed(r) == status[r] = "closing" /\ status' = [status EXCEPT ![r] = "closed"] /\ holds' = holds
HandleStep ==
    \/ \E r \in Resources : Opens(r) \/ Closes(r) \/ Closed(r)
    \/ \E u \in Users : Releases(u) \/ \E r \in Resources : Acquires(u, r)
    \/ status' = status /\ holds' = holds

\* A resource that is opened is opened once.
LEMMA OpenRefines ==
    ASSUME Inv, NEW u \in Users, InitCompleted(u)
    PROVE  HandleStep
<1>1. PICK r \in Resources : status[r] = "none" /\ status' = [status EXCEPT ![r] = "open"]
                             /\ got' = [got EXCEPT ![u] = r]
  BY DEF InitCompleted
<1>2. /\ pc[u] = "building" /\ pc' = [pc EXCEPT ![u] = "resolved"] /\ exposed' = exposed
      /\ pc \in [Users -> Steps] /\ got \in [Users -> 0..MaxAttaches]
  BY DEF InitCompleted, Inv, TypeOK, Steps
<1>3. holds' = holds
  <2>1. \A w \in Users : Holding(w)' = Holding(w)
    BY <1>2 DEF Holding
  <2>2. \A w \in Users : Holding(w) => w # u
    BY <1>2 DEF Holding
  <2> QED BY <1>1, <1>2, <2>1, <2>2, HoldsSame
<1> QED BY <1>1, <1>3 DEF HandleStep, Opens

\* A phase counted in time acquires an open resource; one counted too late holds
\* nothing.
LEMMA AcquireRefines ==
    ASSUME Inv, NEW u \in Users, CountLive(u)
    PROVE  HandleStep
<1>1. /\ pc[u] = "resolved" /\ pc' = [pc EXCEPT ![u] = "counted"] /\ got' = got /\ status' = status
      /\ exposed' = [exposed EXCEPT ![u] = resource[ent[u]] # got[u]
                                           \/ \E w \in Users : MayClose(w, ent[u])]
      /\ pc \in [Users -> Steps] /\ got \in [Users -> 0..MaxAttaches]
      /\ exposed \in [Users -> BOOLEAN]
  BY DEF CountLive, Inv, TypeOK, Steps
<1>2. ~Holding(u) /\ Holding(u)' /\ holds[u] = 0
  BY <1>1 DEF Holding, holds
<1>3. \A w \in Users \ {u} : Holding(w)' = Holding(w) /\ exposed'[w] = exposed[w] /\ got'[w] = got[w]
  BY <1>1 DEF Holding
<1>4. \A w \in Users \ {u} : holds'[w] = holds[w]
  BY <1>3 DEF holds
<1>5. CASE exposed'[u]
  <2>1. holds'[u] = 0
    BY <1>5 DEF holds
  <2>2. \A w \in Users : holds'[w] = holds[w]
    BY <1>2, <1>4, <2>1
  <2>3. holds' = holds
    BY <2>2 DEF holds
  <2> QED BY <1>1, <2>3 DEF HandleStep
<1>6. CASE ~exposed'[u]
  <2>1. resource[ent[u]] = got[u]
    BY <1>1, <1>6
  <2>2. got[u] # 0 /\ got[u] \in Resources /\ ent[u] \in Entries
    BY <1>1, PoolAssumption DEF Inv, Held, Located, TypeOK, Entries, Resources, PoolAssumption
  <2>3. status[got[u]] = "open"
    BY <2>1, <2>2 DEF Inv, Placed
  <2>4. holds'[u] = got[u]
    BY <1>1, <1>2, <1>6 DEF holds
  <2>5. holds' = [holds EXCEPT ![u] = got[u]]
    BY <1>4, <2>4 DEF holds
  <2> QED BY <1>1, <1>2, <2>2, <2>3, <2>5 DEF HandleStep, Acquires
<1> QED BY <1>5, <1>6

\* A detach releases what was held.
LEMMA ReleaseRefines ==
    ASSUME Inv, NEW u \in Users, Detach(u)
    PROVE  HandleStep
<1>1. /\ pc[u] = "attached" /\ pc' = [pc EXCEPT ![u] = "detached"] /\ got' = got /\ status' = status
      /\ exposed' = exposed /\ pc \in [Users -> Steps]
  BY DEF Detach, Inv, TypeOK, Steps
<1>2. Holding(u) /\ ~Holding(u)' /\ \A w \in Users \ {u} : Holding(w)' = Holding(w)
  BY <1>1 DEF Holding
<1>3. holds'[u] = 0 /\ \A w \in Users \ {u} : holds'[w] = holds[w]
  BY <1>1, <1>2 DEF holds
<1>4. holds' = [holds EXCEPT ![u] = 0]
  BY <1>3 DEF holds
<1>5. CASE holds[u] = 0
  <2>1. \A w \in Users : holds'[w] = holds[w]
    BY <1>3, <1>5
  <2>2. holds' = holds
    BY <2>1 DEF holds
  <2> QED BY <1>1, <2>2 DEF HandleStep
<1>6. CASE holds[u] # 0
  BY <1>1, <1>4, <1>6 DEF HandleStep, Releases
<1> QED BY <1>5, <1>6

\* The last detach closes what nobody holds: a holder's resource is in the slot
\* of an entry nobody is about to close, or in no slot.
LEMMA CloseRefines ==
    ASSUME Inv, NEW u \in Users, TakeAndClose(u)
    PROVE  HandleStep
<1> DEFINE r == resource[ent[u]]
<1>1. /\ pc[u] = "closing" /\ r # 0 /\ Leave(u) /\ UNCHANGED <<entries, attaches>>
      /\ status' = [status EXCEPT ![r] = "closing"]
  BY DEF TakeAndClose
<1>2. TypeOK /\ Located /\ Placed /\ Held /\ ~Holding(u)
  BY <1>1 DEF Inv, Holding
<1>3. ent[u] \in Entries /\ r \in Resources /\ entries \in 0..MaxAttaches + 1
  BY <1>1, <1>2, PoolAssumption DEF TypeOK, Located, Entries, Resources, PoolAssumption
<1>4. status[r] = "open" /\ r \notin lost
  BY <1>1, <1>2, <1>3 DEF Placed
<1>5. holds' = holds
  <2>1. Others(u) /\ ~Holding(u)'
    BY <1>1, <1>2, LeaveFacts
  <2>2. \A w \in Users : Holding(w)' = Holding(w)
    BY <1>2, <2>1 DEF Others, Holding
  <2>3. \A w \in Users : Holding(w) => got'[w] = got[w] /\ exposed'[w] = exposed[w]
    BY <1>2, <2>1 DEF Others
  <2> QED BY <2>2, <2>3, HoldsSame
<1>6. ASSUME NEW w \in Users PROVE holds[w] # r
  <2>1. CASE Holding(w) /\ ~exposed[w]
    <3>1. /\ resource[ent[w]] = got[w] \/ got[w] \in lost
          /\ ~MayClose(u, ent[w]) /\ holds[w] = got[w]
      BY <1>2, <2>1 DEF Held, holds
    <3>2. ent[w] # ent[u]
      BY <1>1, <3>1 DEF MayClose
    <3>3. ent[w] \in Entries
      <4>1. ent[w] \in 1..entries
        BY <1>2, <2>1 DEF Located, Holding
      <4> QED BY <1>3, <4>1, PoolAssumption DEF Entries, PoolAssumption
    <3> QED BY <1>1, <1>2, <1>3, <1>4, <3>1, <3>2, <3>3 DEF Placed
  <2>2. CASE ~(Holding(w) /\ ~exposed[w])
    BY <1>1, <2>2 DEF holds
  <2> QED BY <2>1, <2>2
<1> QED BY <1>1, <1>3, <1>4, <1>5, <1>6 DEF HandleStep, Closes

\* The drain closes what is in a slot when no phase is at work, and every close
\* ends once.
LEMMA DrainRefines ==
    ASSUME Inv, DrainTake \/ DrainClosed \/ \E c \in closers : CloseEnds(c)
    PROVE  HandleStep
<1>0. TypeOK /\ Placed /\ Drained
  BY DEF Inv
<1>1. UNCHANGED <<pc, ent, got, seen, exposed>>
  BY DEF DrainTake, DrainClosed, CloseEnds
<1>2. holds' = holds
  BY <1>1, HoldsSame DEF Holding
<1>3. CASE DrainTake
  <2>1. /\ stage = "draining" /\ resource[shut] # 0
        /\ status' = [status EXCEPT ![resource[shut]] = "closing"]
    BY <1>3 DEF DrainTake
  <2>2. shut \in Entries /\ Busy = {}
    BY <1>0, <2>1 DEF Drained
  <2>3. resource[shut] \in Resources /\ status[resource[shut]] = "open"
    BY <1>0, <2>1, <2>2 DEF Placed, TypeOK, Resources
  <2>4. \A w \in Users : holds[w] # resource[shut]
    BY <2>1, <2>2 DEF Busy, holds, Holding
  <2> QED BY <1>2, <2>1, <2>3, <2>4 DEF HandleStep, Closes
<1>4. CASE DrainClosed
  BY <1>0, <1>2, <1>4 DEF DrainClosed, Placed, HandleStep, Closed
<1>5. ASSUME NEW c \in closers, CloseEnds(c) PROVE HandleStep
  <2>1. c.res \in Resources /\ status[c.res] = "closing" /\ status' = [status EXCEPT ![c.res] = "closed"]
    BY <1>0, <1>5 DEF Placed, TypeOK, CloseEnds
  <2> QED BY <1>2, <2>1 DEF HandleStep, Closed
<1> QED BY <1>3, <1>4, <1>5

\* No other step changes a resource's status or what a phase holds.
LEMMA StutterRefines ==
    ASSUME Inv, NEW u \in Users,
           \/ GetOrCreateEntry(u) \/ ReadSlot(u) \/ FailPoisoned(u) \/ BeginInit(u) \/ InitFailed(u)
           \/ LoadPending(u) \/ TakePending(u) \/ KeepOpen(u) \/ DecideClose(u) \/ TakeNothing(u)
           \/ RemoveEmpty(u)
    PROVE  status' = status /\ holds' = holds
<1>0. /\ pc \in [Users -> Steps] /\ got \in [Users -> 0..MaxAttaches] /\ TypeOK /\ Located
      /\ exposed \in [Users -> BOOLEAN]
  BY DEF Inv, TypeOK, Steps
<1>1. CASE GetOrCreateEntry(u) \/ BeginInit(u) \/ LoadPending(u) \/ TakePending(u) \/ DecideClose(u)
           \/ TakeNothing(u)
  <2>1. UNCHANGED <<status, got, exposed>>
    BY <1>1 DEF GetOrCreateEntry, BeginInit, LoadPending, TakePending, DecideClose, TakeNothing
  <2>2. \A w \in Users : Holding(w)' = Holding(w)
    BY <1>0, <1>1 DEF GetOrCreateEntry, BeginInit, LoadPending, TakePending, DecideClose,
                      TakeNothing, Holding
  <2> QED BY <2>1, <2>2, HoldsSame
<1>2. CASE ReadSlot(u)
  <2>1. \A w \in Users : /\ Holding(w)' = Holding(w)
                         /\ Holding(w) => got'[w] = got[w] /\ exposed'[w] = exposed[w]
    BY <1>0, <1>2 DEF ReadSlot, Holding
  <2> QED BY <1>2, <2>1, HoldsSame DEF ReadSlot
<1>3. CASE FailPoisoned(u) \/ InitFailed(u) \/ KeepOpen(u) \/ RemoveEmpty(u)
  <2>1. Leave(u) /\ ~Holding(u) /\ status' = status /\ UNCHANGED <<entries, attaches>>
    BY <1>3 DEF FailPoisoned, InitFailed, KeepOpen, RemoveEmpty, Holding
  <2>2. Others(u) /\ ~Holding(u)'
    BY <1>0, <2>1, LeaveFacts
  <2>3. \A w \in Users : /\ Holding(w)' = Holding(w)
                         /\ Holding(w) => got'[w] = got[w] /\ exposed'[w] = exposed[w]
    BY <2>1, <2>2 DEF Others, Holding
  <2> QED BY <2>1, <2>3, HoldsSame
<1> QED BY <1>1, <1>2, <1>3

\* Every step of the pool is a step of the shared handle, or none.
LEMMA StepRefines == Inv /\ [Next]_vars => HandleStep
<1> SUFFICES ASSUME Inv, [Next]_vars PROVE HandleStep
  OBVIOUS
<1>1. ASSUME NEW u \in Users, GetOrCreateEntry(u) \/ Attach(u) \/ Drop(u) PROVE HandleStep
  <2>1. CASE InitCompleted(u) \/ CountLive(u) \/ Detach(u) \/ TakeAndClose(u)
    BY <2>1, OpenRefines, AcquireRefines, ReleaseRefines, CloseRefines
  <2>2. CASE ~(InitCompleted(u) \/ CountLive(u) \/ Detach(u) \/ TakeAndClose(u))
    BY <1>1, <2>2, StutterRefines DEF Attach, Drop, HandleStep
  <2> QED BY <2>1, <2>2
<1>2. CASE DrainTake \/ DrainClosed \/ \E c \in closers : CloseEnds(c)
  BY <1>2, DrainRefines
<1>3. CASE Snapshot \/ DrainEmpty \/ Exit \/ UNCHANGED vars
  <2>1. UNCHANGED <<status, pc, got, exposed>>
    BY <1>3 DEF Snapshot, DrainEmpty, Exit, vars
  <2>2. holds' = holds
    BY <2>1, HoldsSame DEF Holding
  <2> QED BY <2>1, <2>2 DEF HandleStep
<1> QED BY <1>1, <1>2, <1>3 DEF Next, Shutdown, Ended

\* The pool implements the shared handle, for any number of phases at once:
\* nothing is closed under a phase counted in time, nor handed to one once its
\* close has begun, nor closed twice.
THEOREM PoolIsSharedHandle == Spec => HandleSpec
<1>1. Init => Handle!Init
  <2> SUFFICES ASSUME Init PROVE Handle!Init
    OBVIOUS
  <2>1. status = [r \in Resources |-> "none"] /\ pc = [u \in Users |-> "idle"]
    BY DEF Init
  <2>2. \A u \in Users : ~Holding(u)
    BY <2>1 DEF Holding
  <2> QED BY <2>1, <2>2 DEF Handle!Init
<1>2. Inv /\ [Next]_vars => [Handle!Next]_(Handle!hvars)
  <2> SUFFICES ASSUME HandleStep PROVE [Handle!Next]_(Handle!hvars)
    BY StepRefines
  <2>1. ASSUME NEW r \in Resources, Opens(r) PROVE Handle!Next
    BY <2>1 DEF Opens, holds, Handle!Next, Handle!Open
  <2>2. ASSUME NEW r \in Resources, Closes(r) PROVE Handle!Next
    BY <2>2 DEF Closes, holds, Handle!Next, Handle!BeginClose
  <2>3. ASSUME NEW r \in Resources, Closed(r) PROVE Handle!Next
    BY <2>3 DEF Closed, holds, Handle!Next, Handle!EndClose
  <2>4. ASSUME NEW u \in Users, Releases(u) PROVE Handle!Next
    BY <2>4 DEF Releases, holds, Handle!Next, Handle!Release
  <2>5. ASSUME NEW u \in Users, NEW r \in Resources, Acquires(u, r) PROVE Handle!Next
    BY <2>5 DEF Acquires, holds, Handle!Next, Handle!Acquire
  <2>6. ASSUME status' = status, holds' = holds PROVE UNCHANGED Handle!hvars
    BY <2>6 DEF holds, Handle!hvars
  <2> QED BY <2>1, <2>2, <2>3, <2>4, <2>5, <2>6 DEF HandleStep
<1> QED BY <1>1, <1>2, InvAlways, PTL DEF Spec, HandleSpec, Handle!Spec
=============================================================================
