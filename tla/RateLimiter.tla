---------------------------- MODULE RateLimiter ----------------------------
(***************************************************************************)
(* The token-bucket rate limiter that paces the ops of a phase.  A permit  *)
(* is a tick of time; an op costs ticks_per_op of them.  A task refills    *)
(* the active pool (an async semaphore) from the time elapsed, keeps what  *)
(* does not fit in the waiting pool, and lets a share of that back in      *)
(* beyond the active maximum.  Acquires and live reconfigurations run      *)
(* between any two steps of a refill.                                      *)
(*                                                                         *)
(* Source: nmbrs-rate/src/limiter.rs, spec.rs.  A rate enters as what      *)
(* RateSpec makes of it: the tick's length, the cost of an op in ticks and *)
(* max_over_active.  The clock advances by the smallest unit.              *)
(***************************************************************************)
EXTENDS Integers, FiniteSets

CONSTANTS
    Rates,          \* the rate specs: [grain, cost, over]
    First,          \* the one the limiter is started with
    MaxActive,      \* MAX_ACTIVE_POOL
    Interval,       \* REFILL_INTERVAL_MS
    TickMax,        \* the largest u32
    MaxSince,       \* bound: time the refill task may be behind
    MaxBacklog,     \* bound: a waiting pool this large grows no more
    MaxWaiters      \* bound: acquires waiting

\* A tick is no longer than the refill interval (unlike TimeUnit::Seconds, chosen
\* for less than one op in eleven days); an op costs at least a tick (rates up to
\* 10^9) and at most MAX_ACTIVE_POOL; max_over_active is a u32.
ASSUME RateAssumption ==
    /\ {MaxActive, Interval, TickMax} \subseteq Nat \ {0}
    /\ {MaxSince, MaxBacklog, MaxWaiters} \subseteq Nat
    /\ Rates \subseteq [grain : 1..Interval, cost : 1..MaxActive, over : MaxActive..TickMax]
    /\ First \in Rates

VARIABLES
    available,      \* permits in the active pool
    queue,          \* per waiting acquire: how many more permits until it is served
    lacking,        \* the same for the last one
    waiting_pool,
    cfg, ticks_per_op,  \* refill_cfg and the cost the next acquire reads
    running,
    since,          \* time since last_refill
    phase, due,     \* the interval timer: time within the interval, a tick to deliver
    rpc,            \* where the refill task is
    new_ticks, room, over,  \* its locals: ticks to place, room, the snapshot's max_over_active
    balance         \* time credited and not spent: a history variable

vars == <<available, queue, lacking, waiting_pool, cfg, ticks_per_op, running, since, phase,
          due, rpc, new_ticks, room, over, balance>>
pool == <<available, queue, lacking>>
timer == <<since, phase, due>>
task == <<rpc, new_ticks, room, over>>

Min2(x, y) == IF x < y THEN x ELSE y
SaturatingSub(x, y) == IF x < y THEN 0 ELSE x - y

\* start: the pool is primed with one op.
Init ==
    /\ available = First.cost
    /\ queue = {} /\ lacking = 0
    /\ waiting_pool = 0
    /\ cfg = First /\ ticks_per_op = First.cost
    /\ running = TRUE
    /\ since = 0 /\ phase = 0 /\ due = TRUE
    /\ rpc = "loop" /\ new_ticks = 0 /\ room = 0 /\ over = 0
    /\ balance = First.cost * First.grain

\* Time passes; the interval timer has a tick at each multiple of the
\* interval, and drops those nobody waited for (MissedTickBehavior::Skip).
Elapse ==
    /\ \/ waiting_pool < MaxBacklog /\ since < MaxSince
       \/ lacking > 0 /\ rpc = "tick" /\ since < MaxActive
    /\ since' = since + 1
    /\ phase' = (phase + 1) % Interval
    /\ due' = (due \/ phase' = 0)
    /\ balance' = balance + 1
    /\ UNCHANGED <<pool, waiting_pool, cfg, ticks_per_op, running, task>>

\* acquire takes its permits at once, or takes all there are and waits for
\* the rest: tokio's semaphore serves its waiters in order.
Acquire ==
    LET take == Min2(ticks_per_op, available)
        lack == ticks_per_op - take
    IN  /\ running /\ Cardinality(queue) < MaxWaiters
        /\ available' = available - take
        /\ queue' = IF lack = 0 THEN queue ELSE queue \cup {lacking + lack}
        /\ lacking' = lacking + lack
        /\ balance' = balance - take * cfg.grain
        /\ UNCHANGED <<waiting_pool, cfg, ticks_per_op, running, timer, task>>

\* add_permits: the waiters first, in their order, the rest to the pool.
AddPermits(n) ==
    LET give == Min2(n, lacking)
    IN  /\ available' = available + (n - give)
        /\ queue' = {t - give : t \in {u \in queue : u > give}}
        /\ lacking' = lacking - give
        /\ balance' = balance - give * cfg.grain

\* The part of a refill that its room has no place for.
Overflow == SaturatingSub(new_ticks, Min2(new_ticks, room))

\* Ticks a refill has computed and not placed yet.
Unplaced ==
    CASE rpc \in {"room", "active"} -> new_ticks
      [] rpc = "overflow" -> Overflow
      [] OTHER -> 0

\* reconfigure swaps the refill configuration, then the cost; the control it is
\* called through runs one at a time.  The permits issued are kept, and when the
\* unit changes each is worth a tick of the new one.
reconfigure(r) ==
    /\ running /\ ticks_per_op = cfg.cost
    /\ cfg' = r
    /\ balance' = balance + (available + waiting_pool + Unplaced) * (r.grain - cfg.grain)
    /\ UNCHANGED <<pool, waiting_pool, ticks_per_op, running, timer, task>>

StoreCost ==
    /\ ticks_per_op # cfg.cost
    /\ ticks_per_op' = cfg.cost
    /\ UNCHANGED <<pool, waiting_pool, cfg, running, timer, task, balance>>

\* stop, or the drop of the limiter: both own it, so no call is under way.
stop ==
    /\ running /\ queue = {} /\ ticks_per_op = cfg.cost
    /\ running' = FALSE
    /\ UNCHANGED <<pool, waiting_pool, cfg, ticks_per_op, timer, task, balance>>

\* The loop: it looks at running, then waits for the timer.
LoopCheck ==
    /\ rpc = "loop"
    /\ rpc' = IF running THEN "tick" ELSE "ended"
    /\ UNCHANGED <<pool, waiting_pool, cfg, ticks_per_op, running, timer, new_ticks, room, over,
                   balance>>

\* nanos_to_ticks of the time since the last refill, in the unit r gives.
\* (RoundedUp credits a tick that has not fully elapsed.)
RoundedUp(r) == Min2((since + r.grain - 1) \div r.grain, TickMax)
NanosToTicks(r) == Min2(since \div r.grain, TickMax)

\* The refill waits for the timer.  (Untimed refills as soon as it can.)
Untimed == TRUE
Timed == due

\* refill: the time since the last one is swapped out first, so what does not
\* make a whole tick, or more than a u32 holds, is gone: no time but that is
\* taken off the balance.
RefillStart ==
    LET whole == (since \div cfg.grain) * cfg.grain
    IN  /\ rpc = "tick" /\ Timed
        /\ due' = FALSE /\ since' = 0
        /\ over' = IF NanosToTicks(cfg) = 0 THEN 0 ELSE cfg.over
        /\ new_ticks' = NanosToTicks(cfg)
        /\ rpc' = IF NanosToTicks(cfg) = 0 THEN "loop" ELSE "room"
        /\ balance' = balance - (since - Min2(whole, TickMax * cfg.grain))
        /\ UNCHANGED <<pool, waiting_pool, cfg, ticks_per_op, running, phase, room>>

ReadRoom ==
    /\ rpc = "room"
    /\ room' = SaturatingSub(MaxActive, available)
    /\ rpc' = "active"
    /\ UNCHANGED <<pool, waiting_pool, cfg, ticks_per_op, running, timer, new_ticks, over, balance>>

\* Step 1: up to the room read before go to the active pool ...
FillActive ==
    /\ rpc = "active"
    /\ AddPermits(Min2(new_ticks, room))
    /\ rpc' = "overflow"
    /\ UNCHANGED <<waiting_pool, cfg, ticks_per_op, running, timer, new_ticks, room, over>>

\* Step 2: ... the overflow to the waiting pool; step 3 reads the pool again.
KeepOverflow ==
    /\ rpc = "overflow"
    /\ waiting_pool' = waiting_pool + Overflow
    /\ room' = SaturatingSub(over, available)
    /\ rpc' = "burst"
    /\ UNCHANGED <<pool, cfg, ticks_per_op, running, timer, new_ticks, over, balance>>

\* Step 3: what may come back, in proportion to the time elapsed and within the
\* room beyond the active maximum.  (Unbounded ignores the room.)
Allowed == (Min2(new_ticks, MaxActive) * (over - MaxActive)) \div MaxActive
Unbounded == Min2(Allowed, waiting_pool % (TickMax + 1))
Burst == Min2(Min2(Allowed, room), waiting_pool % (TickMax + 1))

Recover ==
    /\ rpc = "burst"
    /\ waiting_pool' = waiting_pool - Burst
    /\ AddPermits(Burst)
    /\ rpc' = "loop" /\ new_ticks' = 0 /\ room' = 0 /\ over' = 0
    /\ UNCHANGED <<cfg, ticks_per_op, running, timer>>

RefillTask == LoopCheck \/ RefillStart \/ ReadRoom \/ FillActive \/ KeepOverflow \/ Recover

Next ==
    \/ Elapse \/ Acquire \/ RefillTask \/ StoreCost \/ stop
    \/ \E r \in Rates : reconfigure(r)

Spec == Init /\ [][Next]_vars

\* Time passes and the runtime schedules the refill task.
FairSpec == Spec /\ WF_vars(Elapse) /\ WF_vars(RefillTask)
-----------------------------------------------------------------------------
\* The state stays within its types.
TypeOK ==
    /\ {available, lacking, waiting_pool, since, new_ticks, room, over} \subseteq Nat
    /\ queue \subseteq Nat \ {0}
    /\ cfg \in Rates /\ ticks_per_op \in 1..MaxActive
    /\ {running, due} \subseteq BOOLEAN
    /\ phase \in 0..(Interval - 1)
    /\ rpc \in {"loop", "tick", "room", "active", "overflow", "burst", "ended"}
    /\ balance \in Int

\* Ops never run ahead of the clock, and no time is lost but what truncation
\* to whole ticks drops: the time credited and not spent
\* (permits issued in another unit at the worth they have now) is exactly what
\* the two pools, the refill under way and the clock hold, whatever acquires and
\* reconfigurations interleave with it.
Conserved ==
    balance = (available + waiting_pool + Unplaced) * cfg.grain + since

\* The active pool holds at most the largest burst ceiling of any rate: no
\* interleaving of acquires, refills and reconfigurations lets a larger burst build up.
BurstBounded == \E r \in Rates : available <= r.over

\* Every acquire that waits is served, whatever cost it asked for and
\* however the rate is changed while it waits.
AcquireServed ==
    \A n \in 1..MaxWaiters : (Cardinality(queue) = n) ~> (Cardinality(queue) # n)
=============================================================================
