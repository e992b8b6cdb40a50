----------------------------- MODULE RateProofs -----------------------------
(***************************************************************************)
(* Proofs about RateLimiter, for every set of rates, pool size, interval   *)
(* and number of waiters: the accounting of time and the burst's bound.    *)
(***************************************************************************)
EXTENDS RateLimiter, TLAPS

\* What a refill knows of the pool it is about to fill: the room it read is
\* still there, acquires only make more.
RoomOK ==
    /\ rpc = "active" => room = 0 \/ available + room <= MaxActive
    /\ rpc = "burst" => room = 0 \/ available + room <= over
    /\ rpc \in {"room", "active", "overflow", "burst"} => \E r \in Rates : r.over = over

Inv == TypeOK /\ RoomOK /\ Conserved /\ BurstBounded

-----------------------------------------------------------------------------
\* min and saturating_sub on naturals.
LEMMA MinFact ==
  ASSUME NEW x \in Nat, NEW y \in Nat
  PROVE  /\ Min2(x, y) \in Nat /\ Min2(x, y) <= x /\ Min2(x, y) <= y
         /\ Min2(x, y) = x \/ Min2(x, y) = y
         /\ SaturatingSub(x, y) \in Nat
         /\ SaturatingSub(x, Min2(x, y)) = x - Min2(x, y)
         /\ SaturatingSub(x, y) = 0 \/ y + SaturatingSub(x, y) <= x
BY DEF Min2, SaturatingSub

\* Fewer permits leave the room that was there.
LEMMA FewerFits ==
  ASSUME NEW a \in Nat, NEW b \in Nat, NEW r \in Nat, NEW m \in Nat, b <= a, a + r <= m
  PROVE  b + r <= m
OBVIOUS

\* Multiplication by a tick's length distributes.
LEMMA Distributes ==
  ASSUME NEW a \in Int, NEW b \in Int, NEW g \in Int
  PROVE  /\ (a - b) * g = a * g - b * g
         /\ (a + b) * g = a * g + b * g
         /\ a * (b - g) = a * b - a * g
         /\ a * g \in Int
OBVIOUS

\* Clamping ticks to a u32 and scaling them commute.
LEMMA ScaleMin ==
  ASSUME NEW q \in Nat, NEW t \in Nat, NEW g \in Nat \ {0}
  PROVE  Min2(q, t) * g = Min2(q * g, t * g)
<1>1. q < t => q * g < t * g
  OBVIOUS
<1>2. ~(q < t) => ~(q * g < t * g)
  OBVIOUS
<1> QED BY <1>1, <1>2 DEF Min2

\* Truncation to ticks, and to a u32, stays within the naturals.
LEMMA DivFact ==
  ASSUME NEW n \in Nat, NEW g \in Nat \ {0}
  PROVE  n \div g \in Nat /\ n % g \in Nat /\ n % g <= n
OBVIOUS

\* The numbers of the state, one by one, and what a rate is.
Numbers ==
    /\ available \in Nat /\ lacking \in Nat /\ waiting_pool \in Nat /\ since \in Nat
    /\ new_ticks \in Nat /\ room \in Nat /\ over \in Nat /\ balance \in Int

\* The type invariant, number by number.
LEMMA NumbersFact == TypeOK => Numbers
BY DEF TypeOK, Numbers

\* A rate's tick is not empty, its op costs something, its burst ceiling
\* is at least the active pool.
LEMMA RateFact ==
  ASSUME NEW r \in Rates
  PROVE  /\ r.grain \in Nat \ {0} /\ r.cost \in 1..MaxActive /\ r.over \in Nat
         /\ MaxActive <= r.over
         /\ r.cost \in Nat \ {0}
BY RateAssumption DEF RateAssumption

\* What a refill has still to place is a natural number.
LEMMA UnplacedFact == TypeOK => Unplaced \in Nat /\ Overflow \in Nat
<1> SUFFICES ASSUME TypeOK PROVE Unplaced \in Nat /\ Overflow \in Nat
  OBVIOUS
<1>1. Numbers
  BY NumbersFact
<1>2. Overflow \in Nat
  BY <1>1, MinFact DEF Overflow, Numbers
<1> QED BY <1>1, <1>2 DEF Unplaced, Numbers

\* add_permits takes from the balance what it hands to waiters and adds the rest
\* to the pool.
LEMMA AddFact ==
  ASSUME TypeOK, NEW n \in Nat, AddPermits(n), cfg' = cfg
  PROVE  /\ available' \in Nat /\ lacking' \in Nat /\ balance' \in Int
         /\ queue' \subseteq Nat \ {0}
         /\ available' <= available + n
         /\ balance' = balance - (available + n) * cfg.grain + available' * cfg.grain
<1> DEFINE give == Min2(n, lacking)
<1>1. Numbers /\ cfg.grain \in Int /\ queue \subseteq Nat \ {0}
  BY NumbersFact, RateFact DEF TypeOK
<1>2. give \in Nat /\ give <= n /\ give <= lacking /\ (give = n \/ give = lacking)
  BY <1>1, MinFact DEF Numbers
<1>3. /\ available' = available + (n - give)
      /\ queue' = {t - give : t \in {u \in queue : u > give}}
      /\ lacking' = lacking - give
      /\ balance' = balance - give * cfg.grain
  BY DEF AddPermits
<1> HIDE DEF give
<1>4. available' \in Nat /\ lacking' \in Nat /\ available' <= available + n
  BY <1>1, <1>2, <1>3 DEF Numbers
<1>5. queue' \subseteq Nat \ {0}
  BY <1>1, <1>2, <1>3
<1>7. balance' \in Int /\ balance' = balance - (available + n) * cfg.grain + available' * cfg.grain
  <2>1. give = (available + n) - available'
    BY <1>1, <1>2, <1>3 DEF Numbers
  <2>2. give * cfg.grain = (available + n) * cfg.grain - available' * cfg.grain
    BY <1>1, <1>4, <2>1, Distributes DEF Numbers
  <2>3. (available + n) * cfg.grain \in Int /\ available' * cfg.grain \in Int
    BY <1>1, <1>4 DEF Numbers
  <2> QED BY <1>1, <1>3, <2>2, <2>3 DEF Numbers
<1> QED BY <1>4, <1>5, <1>7

\* Conservation in the form the actions keep it.
LEMMA Balanced ==
  ASSUME NEW b \in Int, NEW a \in Nat, NEW w \in Nat, NEW u \in Nat, NEW s \in Nat, NEW g \in Int,
         NEW a2 \in Nat, NEW w2 \in Nat, NEW u2 \in Nat, NEW s2 \in Nat, NEW m \in Int,
         b = (a + w + u) * g + s,
         a + w + u + m = a2 + w2 + u2
  PROVE  b + m * g - s + s2 = (a2 + w2 + u2) * g + s2
<1>1. (a + w + u + m) * g = (a + w + u) * g + m * g
  BY Distributes
<1>2. m * g \in Int /\ (a + w + u) * g \in Int
  OBVIOUS
<1> QED BY <1>1, <1>2

-----------------------------------------------------------------------------
\* The limiter starts with one op's worth of permits, all accounted for.
LEMMA InvInit == Init => Inv
<1> SUFFICES ASSUME Init PROVE Inv
  OBVIOUS
<1>1. First \in Rates /\ Interval \in Nat \ {0} /\ MaxActive \in Nat
  BY RateAssumption DEF RateAssumption
<1>2. First.cost * First.grain \in Int
  BY <1>1, RateFact
<1>3. TypeOK
  BY <1>1, <1>2, RateFact DEF Init, TypeOK
<1>4. RoomOK
  BY DEF Init, RoomOK
<1>5. Conserved
  BY <1>1, <1>2, RateFact DEF Init, Conserved, Unplaced
<1>6. BurstBounded
  BY <1>1, RateFact DEF Init, BurstBounded
<1> QED BY <1>3, <1>4, <1>5, <1>6 DEF Inv

-----------------------------------------------------------------------------
\* What the parts of the invariant say before a step.
LEMMA Before ==
  ASSUME Inv
  PROVE  /\ Numbers /\ Unplaced \in Nat /\ Overflow \in Nat
         /\ cfg \in Rates /\ cfg.grain \in Nat \ {0} /\ cfg.grain \in Int
         /\ MaxActive \in Nat \ {0} /\ TickMax \in Nat
         /\ balance = (available + waiting_pool + Unplaced) * cfg.grain + since
BY NumbersFact, UnplacedFact, RateFact, RateAssumption
   DEF Inv, TypeOK, Conserved, RateAssumption

\* Time passing is credited as it passes.
LEMMA ElapseStep == Inv /\ Elapse => Inv'
<1> SUFFICES ASSUME Inv, Elapse PROVE Inv'
  OBVIOUS
<1>1. Numbers /\ Unplaced \in Nat /\ cfg.grain \in Int
  BY Before
<1>2. since' \in Nat /\ balance' \in Int
  BY <1>1 DEF Elapse, Numbers
<1>3. phase' \in 0..(Interval - 1)
  BY RateAssumption DEF RateAssumption, Elapse, Inv, TypeOK
<1>4. due' \in BOOLEAN
  BY DEF Elapse, Inv, TypeOK
<1>5. TypeOK'
  BY <1>2, <1>3, <1>4 DEF Elapse, Inv, TypeOK, pool, task
<1>6. Unplaced' = Unplaced
  BY DEF Elapse, Unplaced, Overflow, task
<1>7. Conserved'
  <2>1. (available + waiting_pool + Unplaced) * cfg.grain \in Int
    BY <1>1 DEF Numbers
  <2> QED BY <1>1, <1>6, <2>1, Before DEF Elapse, Conserved, pool, Numbers
<1>8. RoomOK' /\ BurstBounded'
  BY DEF Elapse, Inv, RoomOK, BurstBounded, pool, task
<1> QED BY <1>5, <1>7, <1>8 DEF Inv

\* An acquire spends what it takes from the pool.
LEMMA AcquireStep == Inv /\ Acquire => Inv'
<1> SUFFICES ASSUME Inv, Acquire PROVE Inv'
  OBVIOUS
<1> DEFINE take == Min2(ticks_per_op, available)
           lack == ticks_per_op - take
<1>0. queue \subseteq Nat \ {0}
  BY DEF Inv, TypeOK
<1>1. /\ Numbers /\ Unplaced \in Nat /\ cfg.grain \in Int /\ ticks_per_op \in Nat
      /\ ticks_per_op # 0 /\ MaxActive \in Nat
  BY Before DEF Inv, TypeOK
<1>2. take \in Nat /\ take <= available /\ lack \in Nat /\ (lack = 0 \/ take = available)
      /\ (lack = 0 => available # 0)
  <2>1. /\ take \in Nat /\ take <= ticks_per_op /\ take <= available
        /\ take = ticks_per_op \/ take = available
    BY <1>1, MinFact DEF Numbers
  <2> HIDE DEF take
  <2> QED BY <1>1, <2>1 DEF Numbers, lack
<1>3. /\ available' = available - take
      /\ lacking' = lacking + lack
      /\ balance' = balance - take * cfg.grain
      /\ lack = 0 => queue' = queue
      /\ lack # 0 => queue' = queue \cup {lacking + lack}
      /\ UNCHANGED <<waiting_pool, cfg, ticks_per_op, running, timer, task>>
  BY DEF Acquire
<1> HIDE DEF take, lack
<1>4. available' \in Nat /\ lacking' \in Nat /\ balance' \in Int /\ available' <= available
  BY <1>1, <1>2, <1>3 DEF Numbers
<1>5. queue' \subseteq Nat \ {0}
  <2>1. lack # 0 => lacking + lack \in Nat \ {0}
    BY <1>1, <1>2 DEF Numbers
  <2> QED BY <1>0, <1>3, <2>1
<1>6. TypeOK'
  BY <1>3, <1>4, <1>5 DEF Inv, TypeOK, timer, task
<1>8. Unplaced' = Unplaced
  BY <1>3 DEF Unplaced, Overflow, task
<1>9. Conserved'
  <2>1. available' = available - take /\ available + waiting_pool + Unplaced + (-take) =
        available' + waiting_pool + Unplaced
    BY <1>1, <1>2, <1>3 DEF Numbers
  <2>2. balance + (-take) * cfg.grain - since + since
          = (available' + waiting_pool + Unplaced) * cfg.grain + since
    BY <1>1, <1>2, <1>4, <2>1, Before, Balanced DEF Numbers
  <2>3. (-take) * cfg.grain = -(take * cfg.grain) /\ take * cfg.grain \in Int
    BY <1>1, <1>2
  <2>4. balance' = (available' + waiting_pool + Unplaced) * cfg.grain + since
    BY <1>1, <1>3, <2>2, <2>3 DEF Numbers
  <2> QED BY <1>3, <1>8, <2>4 DEF Conserved, timer
<1>10. RoomOK'
  <2>1. rpc' = rpc /\ room' = room /\ over' = over
    BY <1>3 DEF task
  <2>2. /\ available + room <= MaxActive => available' + room <= MaxActive
        /\ available + room <= over => available' + room <= over
    <3>1. available \in Nat /\ available' \in Nat /\ available' <= available
      BY <1>1, <1>4 DEF Numbers
    <3>2. room \in Nat /\ over \in Nat /\ MaxActive \in Nat
      BY <1>1 DEF Numbers
    <3> QED BY <3>1, <3>2, FewerFits
  <2> QED BY <2>1, <2>2 DEF Inv, RoomOK
<1>11. BurstBounded'
  <2>1. PICK r \in Rates : available <= r.over
    BY DEF Inv, BurstBounded
  <2>2. available' <= r.over
    BY <1>1, <1>4, <2>1, RateFact DEF Numbers
  <2> QED BY <2>2 DEF BurstBounded
<1> QED BY <1>6, <1>9, <1>10, <1>11 DEF Inv

\* A reconfiguration revalues the permits held and no others.
LEMMA ReconfigureStep ==
  ASSUME Inv, NEW r \in Rates, reconfigure(r)
  PROVE  Inv'
<1>1. Numbers /\ Unplaced \in Nat /\ cfg.grain \in Int /\ r.grain \in Int
  BY Before, RateFact
<1> DEFINE held == available + waiting_pool + Unplaced
<1>2. held \in Nat
  BY <1>1 DEF Numbers
<1>3. balance = held * cfg.grain + since /\ balance' = balance + held * (r.grain - cfg.grain)
  BY Before DEF reconfigure
<1>4. Unplaced' = Unplaced
  BY DEF reconfigure, Unplaced, Overflow, task
<1>5. held' = held
  BY <1>4 DEF reconfigure, pool
<1> HIDE DEF held
<1>6. held * (r.grain - cfg.grain) = held * r.grain - held * cfg.grain
      /\ held * r.grain \in Int /\ held * cfg.grain \in Int
  BY <1>1, <1>2, Distributes
<1>7. balance' = held * r.grain + since /\ balance' \in Int
  BY <1>1, <1>3, <1>6 DEF Numbers
<1>8. Conserved'
  <2>1. cfg' = r /\ since' = since
    BY DEF reconfigure, timer
  <2> QED BY <1>5, <1>7, <2>1 DEF Conserved, held
<1>9. TypeOK'
  BY <1>7 DEF reconfigure, Inv, TypeOK, pool, timer, task
<1>10. RoomOK' /\ BurstBounded'
  BY DEF reconfigure, Inv, RoomOK, BurstBounded, pool, task
<1> QED BY <1>8, <1>9, <1>10 DEF Inv


\* Steps that touch neither the permits nor the refill's ticks.
LEMMA CallStep == Inv /\ (StoreCost \/ stop \/ LoopCheck) => Inv'
<1> SUFFICES ASSUME Inv, StoreCost \/ stop \/ LoopCheck PROVE Inv'
  OBVIOUS
<1>1. /\ UNCHANGED <<pool, waiting_pool, cfg, timer, new_ticks, room, over, balance>>
      /\ rpc' = rpc \/ (rpc = "loop" /\ rpc' \in {"tick", "ended"})
      /\ running' \in BOOLEAN
      /\ ticks_per_op' \in 1..MaxActive
  BY RateFact DEF StoreCost, stop, LoopCheck, Inv, TypeOK, task
<1>2. TypeOK'
  BY <1>1 DEF Inv, TypeOK, pool, timer
<1>3. Unplaced' = Unplaced
  BY <1>1 DEF Unplaced, Overflow
<1>4. Conserved' /\ RoomOK' /\ BurstBounded'
  BY <1>1, <1>3 DEF Inv, Conserved, RoomOK, BurstBounded, pool, timer
<1> QED BY <1>2, <1>4 DEF Inv

\* Swapping the clock turns whole ticks into permits to place.
LEMMA RefillStartStep == Inv /\ RefillStart => Inv'
<1> SUFFICES ASSUME Inv, RefillStart PROVE Inv'
  OBVIOUS
<1>1. /\ Numbers /\ cfg \in Rates /\ cfg.grain \in Nat \ {0} /\ cfg.grain \in Int
      /\ TickMax \in Nat /\ cfg.over \in Nat
  BY Before, RateFact
<1> DEFINE q == since \div cfg.grain
           n == Min2(q, TickMax)
<1>2. q \in Nat
  BY <1>1, DivFact DEF Numbers
<1> HIDE DEF q
<1>3. n \in Nat /\ n * cfg.grain = Min2(q * cfg.grain, TickMax * cfg.grain) /\ n * cfg.grain \in Int
  <2>1. n \in Nat
    BY <1>1, <1>2, MinFact
  <2>2. n * cfg.grain = Min2(q * cfg.grain, TickMax * cfg.grain)
    BY <1>1, <1>2, ScaleMin
  <2> QED BY <1>1, <2>1, <2>2, Distributes
<1> HIDE DEF n
<1>4. /\ new_ticks' = n /\ since' = 0 /\ due' = FALSE /\ rpc = "tick"
      /\ n = 0 => over' = 0 /\ rpc' = "loop"
      /\ n # 0 => over' = cfg.over /\ rpc' = "room"
      /\ balance' = balance - (since - n * cfg.grain)
      /\ UNCHANGED <<pool, waiting_pool, cfg, ticks_per_op, running, phase, room>>
  BY <1>3 DEF RefillStart, NanosToTicks, n, q
<1>5. balance' \in Int /\ over' \in Nat /\ rpc' \in {"loop", "room"}
  <2>1. balance' \in Int
    BY <1>1, <1>3, <1>4 DEF Numbers
  <2>2. over' \in Nat /\ rpc' \in {"loop", "room"}
    BY <1>1, <1>4
  <2> QED BY <2>1, <2>2
<1>6. TypeOK'
  <2>1. {available', lacking', waiting_pool', since', new_ticks', room', over'} \subseteq Nat
    BY <1>1, <1>3, <1>4, <1>5 DEF pool, Numbers
  <2>2. {running', due'} \subseteq BOOLEAN
    BY <1>4 DEF Inv, TypeOK
  <2> QED BY <1>4, <1>5, <2>1, <2>2 DEF Inv, TypeOK, pool
<1>7. RoomOK' /\ BurstBounded'
  BY <1>1, <1>4 DEF Inv, RoomOK, BurstBounded, pool
<1>8. Unplaced = 0 /\ Unplaced' = n
  BY <1>4 DEF Unplaced
<1>9. Conserved'
  <2>1. balance = (available + waiting_pool + 0) * cfg.grain + since
    BY <1>8, Before
  <2>2. balance + n * cfg.grain - since + 0 = (available + waiting_pool + n) * cfg.grain + 0
    BY <1>1, <1>3, <2>1, Balanced DEF Numbers
  <2>3. balance' = balance + n * cfg.grain - since + 0
    BY <1>1, <1>3, <1>4 DEF Numbers
  <2>4. /\ available' = available /\ waiting_pool' = waiting_pool
        /\ cfg' = cfg /\ since' = 0 /\ Unplaced' = n
    BY <1>4, <1>8 DEF pool
  <2> QED BY <2>2, <2>3, <2>4 DEF Conserved
<1> QED BY <1>6, <1>7, <1>9 DEF Inv

\* The room read is there.
LEMMA ReadRoomStep == Inv /\ ReadRoom => Inv'
<1> SUFFICES ASSUME Inv, ReadRoom PROVE Inv'
  OBVIOUS
<1>1. Numbers /\ MaxActive \in Nat
  BY Before
<1>2. room' \in Nat /\ (room' = 0 \/ available + room' <= MaxActive)
  BY <1>1, MinFact DEF ReadRoom, Numbers
<1>3. TypeOK'
  BY <1>2 DEF ReadRoom, Inv, TypeOK, pool, timer
<1>4. Unplaced' = Unplaced
  BY DEF ReadRoom, Unplaced
<1>5. Conserved' /\ RoomOK' /\ BurstBounded'
  BY <1>2, <1>4 DEF ReadRoom, Inv, Conserved, RoomOK, BurstBounded, pool, timer
<1> QED BY <1>3, <1>5 DEF Inv

\* Filling the active pool stays within its maximum.
LEMMA FillActiveStep == Inv /\ FillActive => Inv'
<1> SUFFICES ASSUME Inv, FillActive PROVE Inv'
  OBVIOUS
<1> DEFINE n == Min2(new_ticks, room)
<1>1. Numbers /\ cfg.grain \in Int /\ cfg \in Rates /\ MaxActive \in Nat
  BY Before
<1>2. n \in Nat /\ n <= room /\ Overflow = new_ticks - n /\ Overflow \in Nat
  BY <1>1, MinFact DEF Numbers, Overflow
<1>3. /\ AddPermits(n) /\ rpc = "active" /\ rpc' = "overflow"
      /\ UNCHANGED <<waiting_pool, cfg, ticks_per_op, running, timer, new_ticks, room, over>>
  BY DEF FillActive
<1> HIDE DEF n
<1>4. /\ available' \in Nat /\ lacking' \in Nat /\ balance' \in Int
      /\ queue' \subseteq Nat \ {0}
      /\ available' <= available + n
      /\ balance' = balance - (available + n) * cfg.grain + available' * cfg.grain
  BY <1>2, <1>3, AddFact DEF Inv
<1>5. TypeOK'
  BY <1>3, <1>4 DEF Inv, TypeOK, timer
<1>6. RoomOK'
  BY <1>3 DEF Inv, RoomOK
<1>7. BurstBounded'
  <2>1. CASE room = 0
    <3>1. PICK r \in Rates : available <= r.over
      BY DEF Inv, BurstBounded
    <3>2. available' <= available
      BY <1>1, <1>2, <1>4, <2>1 DEF Numbers
    <3>3. available' <= r.over
      BY <1>1, <1>4, <3>1, <3>2, RateFact DEF Numbers
    <3> QED BY <3>3 DEF BurstBounded
  <2>2. CASE available + room <= MaxActive
    <3>1. cfg.over \in Nat /\ MaxActive <= cfg.over
      BY <1>1, RateFact
    <3>2. available' <= cfg.over
      BY <1>1, <1>2, <1>4, <2>2, <3>1 DEF Numbers
    <3> QED BY <1>1, <3>2 DEF BurstBounded
  <2> QED BY <1>3, <2>1, <2>2 DEF Inv, RoomOK
<1>8. Unplaced = new_ticks /\ Unplaced' = Overflow
  BY <1>3 DEF Unplaced, Overflow
<1>9. Conserved'
  <2> DEFINE d == available' - (available + n)
  <2>1. d \in Int /\ d = available' - (available + n)
    BY <1>1, <1>2, <1>4 DEF Numbers
  <2> HIDE DEF d
  <2>2. available + waiting_pool + new_ticks + d = available' + waiting_pool + Overflow
    BY <1>1, <1>2, <1>4, <2>1 DEF Numbers
  <2>3. balance = (available + waiting_pool + new_ticks) * cfg.grain + since
    BY <1>8, Before
  <2>4. balance + d * cfg.grain - since + since
          = (available' + waiting_pool + Overflow) * cfg.grain + since
    <3>1. /\ balance \in Int /\ available \in Nat /\ waiting_pool \in Nat
          /\ new_ticks \in Nat /\ since \in Nat /\ cfg.grain \in Int
      BY <1>1 DEF Numbers
    <3> QED BY <1>2, <1>4, <2>1, <2>2, <2>3, <3>1, Balanced
  <2>5. balance' = balance + d * cfg.grain - since + since
    <3>1. d * cfg.grain = available' * cfg.grain - (available + n) * cfg.grain
      BY <1>1, <1>2, <1>4, <2>1, Distributes DEF Numbers
    <3>2. d * cfg.grain \in Int /\ available' * cfg.grain \in Int
          /\ (available + n) * cfg.grain \in Int
      BY <1>1, <1>2, <1>4, <2>1, Distributes DEF Numbers
    <3> QED BY <1>1, <1>4, <3>1, <3>2 DEF Numbers
  <2>6. waiting_pool' = waiting_pool /\ cfg' = cfg /\ since' = since
    BY <1>3 DEF timer
  <2> QED BY <1>8, <2>4, <2>5, <2>6 DEF Conserved
<1> QED BY <1>4, <1>5, <1>6, <1>7, <1>9 DEF Inv


\* The overflow moves to the waiting pool.
LEMMA KeepOverflowStep == Inv /\ KeepOverflow => Inv'
<1> SUFFICES ASSUME Inv, KeepOverflow PROVE Inv'
  OBVIOUS
<1>1. Numbers /\ Overflow \in Nat /\ cfg.grain \in Int
  BY Before
<1>2. /\ rpc = "overflow" /\ rpc' = "burst" /\ waiting_pool' = waiting_pool + Overflow
      /\ room' = SaturatingSub(over, available)
      /\ UNCHANGED <<pool, cfg, ticks_per_op, running, timer, new_ticks, over, balance>>
  BY DEF KeepOverflow
<1>3. room' \in Nat /\ (room' = 0 \/ available + room' <= over) /\ waiting_pool' \in Nat
  BY <1>1, <1>2, MinFact DEF Numbers
<1>4. TypeOK'
  BY <1>2, <1>3 DEF Inv, TypeOK, pool, timer
<1>5. Unplaced = Overflow /\ Unplaced' = 0
  BY <1>2 DEF Unplaced
<1>6. Conserved'
  <2>1. available + waiting_pool + Overflow = available + waiting_pool' + 0
    BY <1>1, <1>2 DEF Numbers
  <2>2. balance = (available + waiting_pool' + 0) * cfg.grain + since
    BY <1>5, <2>1, Before
  <2> QED BY <1>2, <1>5, <2>2 DEF Conserved, pool, timer
<1>7. RoomOK' /\ BurstBounded'
  BY <1>2, <1>3 DEF Inv, RoomOK, BurstBounded, pool
<1> QED BY <1>4, <1>6, <1>7 DEF Inv

\* Burst recovery takes no more than the waiting pool holds, nor than the room read.
LEMMA BurstFact ==
  ASSUME Inv, rpc = "burst"
  PROVE  Burst \in Nat /\ Burst <= room /\ Burst <= waiting_pool
<1>1. /\ waiting_pool \in Nat /\ room \in Nat /\ new_ticks \in Nat
      /\ MaxActive \in Nat \ {0} /\ TickMax + 1 \in Nat \ {0}
  BY Before DEF Numbers
<1>2. over - MaxActive \in Nat
  BY Before, RateFact DEF Inv, RoomOK, Numbers
<1> DEFINE p == Min2(new_ticks, MaxActive)
           e == over - MaxActive
<1>3. p \in Nat /\ e \in Nat
  BY <1>1, <1>2, MinFact
<1> HIDE DEF p, e
<1>4. p * e \in Nat
  BY <1>3
<1>5. (p * e) \div MaxActive \in Nat
  BY <1>1, <1>4, DivFact
<1>6. Allowed \in Nat
  BY <1>5 DEF Allowed, p, e
<1>7. waiting_pool % (TickMax + 1) \in Nat /\ waiting_pool % (TickMax + 1) <= waiting_pool
  BY <1>1, DivFact
<1>8. Min2(Allowed, room) \in Nat /\ Min2(Allowed, room) <= room
  BY <1>1, <1>6, MinFact
<1> DEFINE x == Min2(Allowed, room)
           y == waiting_pool % (TickMax + 1)
<1>9. x \in Nat /\ x <= room /\ y \in Nat /\ y <= waiting_pool /\ Burst = Min2(x, y)
  BY <1>7, <1>8 DEF Burst
<1> HIDE DEF x, y
<1>10. Burst \in Nat /\ Burst <= x /\ Burst <= y
  BY <1>9, MinFact
<1> QED BY <1>1, <1>9, <1>10

\* Burst recovery moves permits back, within the burst ceiling.
LEMMA RecoverStep == Inv /\ Recover => Inv'
<1> SUFFICES ASSUME Inv, Recover PROVE Inv'
  OBVIOUS
<1> DEFINE n == Burst
<1>1. Numbers /\ cfg.grain \in Int /\ cfg \in Rates
  BY Before
<1>2. n \in Nat /\ n <= room /\ n <= waiting_pool
  BY BurstFact DEF Recover
<1>3. /\ AddPermits(n) /\ rpc = "burst" /\ rpc' = "loop"
      /\ waiting_pool' = waiting_pool - n
      /\ new_ticks' = 0 /\ room' = 0 /\ over' = 0
      /\ UNCHANGED <<cfg, ticks_per_op, running, timer>>
  BY DEF Recover
<1> HIDE DEF n
<1>4. /\ available' \in Nat /\ lacking' \in Nat /\ balance' \in Int
      /\ queue' \subseteq Nat \ {0}
      /\ available' <= available + n
      /\ balance' = balance - (available + n) * cfg.grain + available' * cfg.grain
  BY <1>2, <1>3, AddFact DEF Inv
<1>5. waiting_pool' \in Nat
  BY <1>1, <1>2, <1>3 DEF Numbers
<1>6. TypeOK'
  BY <1>3, <1>4, <1>5 DEF Inv, TypeOK, timer
<1>7. RoomOK'
  BY <1>3 DEF RoomOK
<1>8. BurstBounded'
  <2>1. CASE room = 0
    <3>1. PICK r \in Rates : available <= r.over
      BY DEF Inv, BurstBounded
    <3>2. available' <= available
      BY <1>1, <1>2, <1>4, <2>1 DEF Numbers
    <3>3. available' <= r.over
      BY <1>1, <1>4, <3>1, <3>2, RateFact DEF Numbers
    <3> QED BY <3>3 DEF BurstBounded
  <2>2. CASE available + room <= over
    <3>1. available' <= over
      BY <1>1, <1>2, <1>4, <2>2 DEF Numbers
    <3>2. PICK r \in Rates : r.over = over
      BY <1>3 DEF Inv, RoomOK
    <3> QED BY <3>1, <3>2 DEF BurstBounded
  <2> QED BY <1>3, <2>1, <2>2 DEF Inv, RoomOK
<1>9. Unplaced = 0 /\ Unplaced' = 0
  BY <1>3 DEF Unplaced
<1>10. Conserved'
  <2> DEFINE d == available' - (available + n)
  <2>1. d \in Int /\ d = available' - (available + n)
    BY <1>1, <1>2, <1>4 DEF Numbers
  <2> HIDE DEF d
  <2>2. available + waiting_pool + 0 + d = available' + waiting_pool' + 0
    BY <1>1, <1>2, <1>3, <1>4, <2>1 DEF Numbers
  <2>3. balance = (available + waiting_pool + 0) * cfg.grain + since
    BY <1>9, Before
  <2>4. balance + d * cfg.grain - since + since
          = (available' + waiting_pool' + 0) * cfg.grain + since
    <3>1. /\ balance \in Int /\ available \in Nat /\ waiting_pool \in Nat
          /\ since \in Nat /\ cfg.grain \in Int
      BY <1>1 DEF Numbers
    <3> QED BY <1>4, <1>5, <2>1, <2>2, <2>3, <3>1, Balanced
  <2>5. balance' = balance + d * cfg.grain - since + since
    <3>1. d * cfg.grain = available' * cfg.grain - (available + n) * cfg.grain
      BY <1>1, <1>2, <1>4, <2>1, Distributes DEF Numbers
    <3>2. d * cfg.grain \in Int /\ available' * cfg.grain \in Int
          /\ (available + n) * cfg.grain \in Int
      BY <1>1, <1>2, <1>4, <2>1, Distributes DEF Numbers
    <3> QED BY <1>1, <1>4, <3>1, <3>2 DEF Numbers
  <2>6. cfg' = cfg /\ since' = since
    BY <1>3 DEF timer
  <2> QED BY <1>9, <2>4, <2>5, <2>6 DEF Conserved
<1> QED BY <1>4, <1>6, <1>7, <1>8, <1>10 DEF Inv

\* Every step keeps the invariant.
LEMMA InvNext == Inv /\ [Next]_vars => Inv'
<1> SUFFICES ASSUME Inv, [Next]_vars PROVE Inv'
  OBVIOUS
<1>1. CASE Elapse
  BY <1>1, ElapseStep
<1>2. CASE Acquire
  BY <1>2, AcquireStep
<1>3. CASE StoreCost \/ stop \/ LoopCheck
  BY <1>3, CallStep
<1>4. CASE RefillStart
  BY <1>4, RefillStartStep
<1>5. CASE ReadRoom
  BY <1>5, ReadRoomStep
<1>6. CASE FillActive
  BY <1>6, FillActiveStep
<1>7. CASE KeepOverflow
  BY <1>7, KeepOverflowStep
<1>8. CASE Recover
  BY <1>8, RecoverStep
<1>9. ASSUME NEW r \in Rates, reconfigure(r) PROVE Inv'
  BY <1>9, ReconfigureStep
<1>10. CASE UNCHANGED vars
  BY <1>10 DEF vars, Inv, TypeOK, RoomOK, Conserved, BurstBounded, Unplaced, Overflow
<1> QED BY <1>1, <1>2, <1>3, <1>4, <1>5, <1>6, <1>7, <1>8, <1>9, <1>10 DEF Next, RefillTask

\* The invariant holds throughout.
LEMMA InvHolds == Spec => []Inv
BY InvInit, InvNext, PTL DEF Spec

-----------------------------------------------------------------------------
\* The state of a limiter stays within its types: no counter goes below zero.
THEOREM TypeCorrect == Spec => []TypeOK
<1>1. Inv => TypeOK
  BY DEF Inv
<1> QED BY <1>1, InvHolds, PTL

\* For every set of rates and pool size, time credited equals time held plus
\* time spent: refills, acquires and reconfigurations, interleaved at every
\* read and write the refill makes, neither mint permits nor lose any.
THEOREM TimeConserved == Spec => []Conserved
<1>1. Inv => Conserved
  BY DEF Inv
<1> QED BY <1>1, InvHolds, PTL

\* No interleaving of acquires, refills and reconfigurations builds up more
\* permits than the burst ceiling of one of the rates in use.
THEOREM BurstIsBounded == Spec => []BurstBounded
<1>1. Inv => BurstBounded
  BY DEF Inv
<1> QED BY <1>1, InvHolds, PTL
=============================================================================
