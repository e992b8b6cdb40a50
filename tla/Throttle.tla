------------------------------ MODULE Throttle ------------------------------
(***************************************************************************)
(* The adaptive backpressure governor of a phase, walking the concurrency  *)
(* control.  Once per window with traffic the phase's wait loop hands it   *)
(* the window's attempt-failure fraction; it steps from the control's      *)
(* gauge and spawns a task that writes the new offer, so writes land later *)
(* and possibly out of order, between the writes of operators.             *)
(*                                                                         *)
(* Source: nmbrs-runtime/src/throttle.rs, the concurrency control of       *)
(* control_catalog.rs.  Fractions are percentages; a target is counted in  *)
(* hundredths of a fiber, in which the code's products are exact.  The     *)
(* control's value is a whole number of fibers: a write truncates.         *)
(***************************************************************************)
EXTENDS Integers, Sequences

CONSTANTS
    Ceiling,        \* the phase's authored concurrency
    Floor, Start,   \* floor: and start: of the throttle, in hundredths
    Fracs,          \* the failure fractions a window may show
    High, Low,      \* back off above, recover below
    Operator,       \* the offers an operator may write
    MaxPending      \* bound: governor writes under way

MEMORY_CLEAR_STREAK == 3

\* floor <= ceiling is what f64::clamp asserts in from_spec; a recovery
\* threshold above the back-off one would make no sense (the default is a fifth).
ASSUME ThrottleAssumption ==
    /\ Ceiling \in Nat \ {0}
    /\ Floor \in Nat \ {0} /\ Start \in Nat
    /\ 100 <= Floor /\ Floor <= 100 * Ceiling
    /\ Fracs \subseteq 0..100
    /\ Low \in Nat /\ High \in Nat /\ Low <= High
    /\ Operator \subseteq Nat \ {0}
    /\ MaxPending \in Nat

VARIABLES
    offer,          \* the control's committed value, and its gauge
    pending,        \* targets of the governor's write tasks not yet landed
    last_bad,       \* the offer at which congestion was last seen, 0 for none
    clean_streak,
    windows,        \* the latest windows, newest last: fraction and offer stepped from
    touched         \* whether an operator wrote

vars == <<offer, pending, last_bad, clean_streak, windows, touched>>

AtLeast(x, y) == IF x < y THEN y ELSE x
AtMost(x, y) == IF x > y THEN y ELSE x

\* The opening offer: start clamped to [floor, ceiling].
Opening == AtMost(AtLeast(Start, Floor), 100 * Ceiling)

\* from_spec: the control was built at the authored concurrency, and the
\* write of the opening offer is spawned when that is lower.
Init ==
    /\ offer = Ceiling
    /\ pending = IF Opening < 100 * Ceiling THEN <<Opening>> ELSE <<>>
    /\ last_bad = 0 /\ clean_streak = 0
    /\ windows = <<>>
    /\ touched = FALSE

\* decide, above high: the severity-proportional decrease.  (Unfloored lets
\* it fall below the floor.)
Unfloored(frac, c) == c * AtMost(AtLeast(100 - frac, 25), 90)
BackOff(frac, c) == AtLeast(c * AtMost(AtLeast(100 - frac, 25), 90), Floor)

\* decide, below low with no congestion seen: slow start.  (QuarterMore
\* climbs by a quarter, which truncation may take back.)
QuarterMore(c) == 125 * c
Double(c) == AtLeast(200 * c, 100 * c + 100)

\* decide, below low with a remembered congestion point: the fast reclimb
\* through the safe zone.  (Timid climbs by a quarter.)
Timid(c, bad) == AtMost(125 * c, AtLeast(75 * bad, Floor))
Reclimb(c, bad) == AtMost(150 * c, AtLeast(75 * bad, Floor))

\* ... and additive probing from there on.
Probe(c, bad) == 100 * c + AtLeast(2 * bad, 100)

Climb(c, bad) ==
    AtMost(IF bad = 0 THEN Double(c)
           ELSE IF Reclimb(c, bad) > 100 * c THEN Reclimb(c, bad)
           ELSE Probe(c, bad), 100 * Ceiling)

\* memory_clear_step without the clearing.  (Lenient forgets the reset.)
Lenient(evidence) == IF evidence THEN clean_streak + 1 ELSE clean_streak
Streak(evidence) == IF evidence THEN clean_streak + 1 ELSE 0

\* (Hasty clears one window early.)
Hasty(evidence) == Streak(evidence) >= MEMORY_CLEAR_STREAK - 1
Clears(evidence) == Streak(evidence) >= MEMORY_CLEAR_STREAK

\* One pass of tick with a full window and some traffic; a window without
\* traffic changes nothing.
Tick(frac) ==
    LET evidence == last_bad # 0 /\ frac < Low /\ offer >= last_bad
        bad == IF Clears(evidence) THEN 0 ELSE last_bad
        down == frac > High /\ BackOff(frac, offer) < 100 * offer
        up == frac <= High /\ frac < Low /\ offer < Ceiling /\ Climb(offer, bad) > 100 * offer
    IN  /\ Len(pending) < MaxPending
        /\ clean_streak' = IF Clears(evidence) THEN 0 ELSE Streak(evidence)
        /\ last_bad' = IF down THEN offer ELSE bad
        /\ pending' = CASE down -> Append(pending, BackOff(frac, offer))
                        [] up -> Append(pending, Climb(offer, bad))
                        [] OTHER -> pending
        /\ windows' = Append(IF Len(windows) = MEMORY_CLEAR_STREAK THEN Tail(windows)
                             ELSE windows, [frac |-> frac, at |-> offer])
        /\ UNCHANGED <<offer, touched>>

\* The concurrency control takes whole fibers, and at least one.
Count(target) == target \div 100

\* A write task gets the control's lock: any of the spawned ones may be first.
WriteLands(i) ==
    /\ offer' = Count(pending[i])
    /\ pending' = SubSeq(pending, 1, i - 1) \o SubSeq(pending, i + 1, Len(pending))
    /\ UNCHANGED <<last_bad, clean_streak, windows, touched>>

\* An operator writes the control from the TUI, the web or a binding.
OperatorWrites(v) ==
    /\ offer' = v
    /\ touched' = TRUE
    /\ UNCHANGED <<pending, last_bad, clean_streak, windows>>

Window == \E frac \in Fracs : Tick(frac)
Landing == \E i \in 1..Len(pending) : WriteLands(i)

Next ==
    \/ Window
    \/ Landing
    \/ \E v \in Operator : OperatorWrites(v)

Spec == Init /\ [][Next]_vars

\* The wait loop ticks as long as fibers run, and the runtime schedules each
\* task it has spawned, the oldest in particular.
FairSpec == Spec /\ WF_vars(Window) /\ WF_vars(pending # <<>> /\ WriteLands(1))
-----------------------------------------------------------------------------
WindowRecord == [frac : 0..100, at : Nat]

\* The state stays within its types; a streak is counted only against a
\* remembered congestion point.
TypeOK ==
    /\ offer \in Nat \ {0}
    /\ pending \in Seq(Nat)
    /\ last_bad \in Nat
    /\ clean_streak \in 0..(MEMORY_CLEAR_STREAK - 1)
    /\ last_bad = 0 => clean_streak = 0
    /\ windows \in Seq(WindowRecord)
    /\ touched \in BOOLEAN

\* The throttle's containment: as long as no operator writes the control, the
\* committed offer stays between the floor and the authored ceiling, in
\* spite of truncation, of writes that land late or out of order, and of
\* steps taken from an offer that is about to change.
OfferWithinBounds ==
    ~touched => /\ Floor \div 100 <= offer
                /\ offer <= Ceiling

\* The streak is evidence: it counts the latest windows with traffic, all of them
\* clean at or above the congestion point remembered now, whatever operators
\* and late writes did to the offer in between.
StreakIsEvidence ==
    /\ clean_streak <= Len(windows)
    /\ \A k \in 1..clean_streak :
          LET w == windows[Len(windows) + 1 - k]
          IN  w.frac < Low /\ w.at >= last_bad

\* One quiet window never re-arms the doubling climb: the memory is cleared only
\* by three windows in a row that were clean at or above the congestion point.
ClearedOnSustainedEvidence ==
    [][last_bad # 0 /\ last_bad' = 0 =>
         /\ Len(windows') = MEMORY_CLEAR_STREAK
         /\ \A k \in 1..MEMORY_CLEAR_STREAK :
               windows'[k].frac < Low /\ windows'[k].at >= last_bad]_vars

Calm == windows # <<>> => windows[Len(windows)].frac < Low

\* Slow start: a target that never fails is taken to the authored ceiling, when
\* no operator interferes.
SlowStartReachesCeiling == [](Calm /\ ~touched) => <>[](offer = Ceiling)

\* Once the target stays calm the offer climbs back to the safe zone, three
\* quarters of the congestion point, cut to whole fibers (from two fibers up).
ReclimbsSafeZone ==
    []~touched /\ <>[]Calm => <>[](last_bad = 0 \/ offer >= (75 * last_bad) \div 100)

\* ThrottleSpec: the governor "recovers it toward the authored ceiling while
\* the window stays under `low`".
RecoversToCeiling == []~touched /\ <>[]Calm => <>[](offer = Ceiling)
=============================================================================
