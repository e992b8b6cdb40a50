--------------------------- MODULE ThrottleProofs ---------------------------
(***************************************************************************)
(* Proofs about Throttle, for every floor, ceiling, thresholds, set of     *)
(* fractions and any number of writes under way: the offer's containment   *)
(* and what the congestion memory stands for.                              *)
(***************************************************************************)
EXTENDS Throttle, SequenceTheorems, TLAPS

\* Every target under way is, in whole fibers, within the bounds.
TargetOK(t) == Floor \div 100 <= t \div 100 /\ t <= 100 * Ceiling
TargetsOK == ~touched => \A i \in 1..Len(pending) : TargetOK(pending[i])

\* A target is at least one fiber: the control accepts it.
Positive == \A i \in 1..Len(pending) : pending[i] >= 100

RecentWindows == Len(windows) <= MEMORY_CLEAR_STREAK

Inv == TypeOK /\ Positive /\ TargetsOK /\ OfferWithinBounds
       /\ RecentWindows /\ StreakIsEvidence

-----------------------------------------------------------------------------
\* What decide can return from an offer of whole fibers.
LEMMA BackOffFact ==
  ASSUME NEW frac \in 0..100, NEW c \in Nat \ {0}
  PROVE  BackOff(frac, c) \in Nat /\ BackOff(frac, c) >= Floor
<1> DEFINE k == AtMost(AtLeast(100 - frac, 25), 90)
<1>1. k \in 25..90
  BY DEF AtMost, AtLeast
<1>2. c * k \in Nat
  BY <1>1
<1> HIDE DEF k
<1>3. AtLeast(c * k, Floor) \in Nat /\ AtLeast(c * k, Floor) >= Floor
  BY <1>2, ThrottleAssumption DEF ThrottleAssumption, AtLeast
<1> QED BY <1>3 DEF BackOff, k

\* No climb goes beyond the ceiling.
LEMMA ClimbFact ==
  ASSUME NEW c \in Nat \ {0}, NEW bad \in Nat
  PROVE  Climb(c, bad) \in Nat /\ Climb(c, bad) <= 100 * Ceiling
<1>1. Double(c) \in Nat /\ Reclimb(c, bad) \in Nat /\ Probe(c, bad) \in Nat
  BY ThrottleAssumption DEF ThrottleAssumption, Double, Reclimb, Probe, AtMost, AtLeast
<1> QED BY <1>1, ThrottleAssumption DEF ThrottleAssumption, Climb, AtMost

\* Truncation to whole fibers keeps the bounds.
LEMMA DivFact ==
  ASSUME NEW t \in Nat, NEW c \in Nat
  PROVE  /\ t > 100 * c => t \div 100 >= c
         /\ t <= 100 * c => t \div 100 <= c
         /\ t >= 100 => t \div 100 >= 1
         /\ t \div 100 \in Nat
         /\ t >= Floor => Floor \div 100 <= t \div 100
BY ThrottleAssumption DEF ThrottleAssumption

-----------------------------------------------------------------------------
\* The governor starts with at most the write of its opening offer.
LEMMA InvInit == Init => Inv
<1> SUFFICES ASSUME Init PROVE Inv
  OBVIOUS
<1> USE ThrottleAssumption DEF ThrottleAssumption, Init
<1>1. Opening \in Nat /\ Opening >= Floor /\ Opening <= 100 * Ceiling
  BY DEF Opening, AtMost, AtLeast
<1>2. pending \in Seq(Nat) /\ \A i \in 1..Len(pending) : pending[i] = Opening
  BY <1>1
<1>3. TypeOK
  <2>1. windows \in Seq(WindowRecord)
    OBVIOUS
  <2>2. last_bad \in Nat /\ clean_streak \in 0..(MEMORY_CLEAR_STREAK - 1)
    BY DEF MEMORY_CLEAR_STREAK
  <2>3. offer \in Nat \ {0} /\ touched \in BOOLEAN
    OBVIOUS
  <2> QED BY <1>2, <2>1, <2>2, <2>3 DEF TypeOK
<1>4. Positive
  BY <1>1, <1>2 DEF Positive
<1>5. TargetsOK
  <2>1. Floor \div 100 <= Opening \div 100
    BY <1>1, DivFact
  <2> QED BY <2>1, <1>1, <1>2 DEF TargetsOK, TargetOK
<1>6. OfferWithinBounds
  <2>1. Floor \div 100 <= Ceiling
    BY DivFact
  <2> QED BY <2>1 DEF OfferWithinBounds
<1>7. RecentWindows /\ StreakIsEvidence
  BY DEF RecentWindows, StreakIsEvidence, MEMORY_CLEAR_STREAK
<1> QED BY <1>3, <1>4, <1>5, <1>6, <1>7 DEF Inv

\* Appending an acceptable target keeps the targets acceptable.
LEMMA AppendTarget ==
  ASSUME NEW t \in Nat, pending \in Seq(Nat), Positive, t >= 100,
         pending' = Append(pending, t)
  PROVE  /\ pending' \in Seq(Nat)
         /\ Positive'
         /\ TargetsOK /\ (~touched => TargetOK(t)) /\ touched' = touched => TargetsOK'
<1>1. /\ pending' \in Seq(Nat) /\ Len(pending') = Len(pending) + 1
      /\ \A i \in 1..Len(pending') :
            pending'[i] = IF i = Len(pending') THEN t ELSE pending[i]
  BY AppendProperties
<1>2. Len(pending) \in Nat
  OBVIOUS
<1>3. Positive'
  BY <1>1, <1>2 DEF Positive
<1>4. ASSUME TargetsOK, ~touched => TargetOK(t), touched' = touched PROVE TargetsOK'
  BY <1>1, <1>2, <1>4 DEF TargetsOK, TargetOK
<1> QED BY <1>1, <1>3, <1>4

\* Removing the target that landed adds no other.
LEMMA RemoveTarget ==
  ASSUME NEW s \in Seq(Nat), NEW i \in 1..Len(s)
  PROVE  LET r == SubSeq(s, 1, i - 1) \o SubSeq(s, i + 1, Len(s))
         IN  /\ r \in Seq(Nat)
             /\ \A j \in 1..Len(r) : \E k \in 1..Len(s) : r[j] = s[k]
<1>1. Len(s) \in Nat
  OBVIOUS
<1> DEFINE a == SubSeq(s, 1, i - 1)
           b == SubSeq(s, i + 1, Len(s))
           r == a \o b
<1>2. /\ a \in Seq(Nat) /\ Len(a) = i - 1
      /\ \A j \in 1..Len(a) : a[j] = s[j]
  BY <1>1, SubSeqProperties
<1>3. /\ b \in Seq(Nat) /\ Len(b) = Len(s) - i
      /\ \A j \in 1..Len(b) : b[j] = s[i + j]
  <2>1. CASE i = Len(s)
    BY <2>1, <1>1, SubSeqProperties
  <2>2. CASE i < Len(s)
    BY <2>2, <1>1, SubSeqProperties
  <2> QED BY <2>1, <2>2, <1>1
<1> HIDE DEF a, b
<1>4. /\ r \in Seq(Nat) /\ Len(r) = Len(a) + Len(b)
      /\ \A j \in 1..(Len(a) + Len(b)) :
            r[j] = IF j <= Len(a) THEN a[j] ELSE b[j - Len(a)]
  BY <1>2, <1>3, ConcatProperties
<1> HIDE DEF r
<1>5. ASSUME NEW j \in 1..Len(r)
      PROVE  \E k \in 1..Len(s) : r[j] = s[k]
  <2>0. j \in Nat /\ Len(a) \in Nat /\ Len(b) \in Nat /\ j \in 1..(Len(a) + Len(b))
    BY <1>1, <1>2, <1>3, <1>4
  <2>1. CASE j <= Len(a)
    <3>1. j \in 1..Len(a) /\ j \in 1..Len(s)
      BY <2>0, <2>1, <1>1, <1>2
    <3>2. r[j] = s[j]
      BY <2>0, <3>1, <2>1, <1>2, <1>4
    <3> QED BY <3>1, <3>2
  <2>2. CASE j > Len(a)
    <3> DEFINE m == j - Len(a)
    <3>1. m \in 1..Len(b) /\ m \in Nat
      BY <2>0, <2>2
    <3>2. r[j] = b[m]
      BY <2>0, <2>2, <1>4
    <3> HIDE DEF m
    <3>3. b[m] = s[i + m]
      BY <3>1, <1>3
    <3>4. Len(b) = Len(s) - i /\ i \in Nat /\ i \in 1..Len(s)
      BY <1>1, <1>3
    <3>5. i + m \in 1..Len(s)
      BY <3>1, <3>4, <1>1
    <3> QED BY <3>2, <3>3, <3>5
  <2> QED BY <2>0, <2>1, <2>2
<1> QED BY <1>4, <1>5 DEF r, a, b

\* The history of windows: the new one is last, the others keep their order.
LEMMA WindowsStep ==
  ASSUME NEW s \in Seq(WindowRecord), Len(s) <= MEMORY_CLEAR_STREAK, NEW w \in WindowRecord
  PROVE  LET r == Append(IF Len(s) = MEMORY_CLEAR_STREAK THEN Tail(s) ELSE s, w)
         IN  /\ r \in Seq(WindowRecord)
             /\ Len(r) = IF Len(s) = MEMORY_CLEAR_STREAK THEN Len(s) ELSE Len(s) + 1
             /\ r[Len(r)] = w
             /\ \A k \in 1..(Len(r) - 1) : r[Len(r) - k] = s[Len(s) + 1 - k]
<1> DEFINE t == IF Len(s) = MEMORY_CLEAR_STREAK THEN Tail(s) ELSE s
           r == Append(t, w)
<1>1. Len(s) \in Nat
  OBVIOUS
<1>2. /\ t \in Seq(WindowRecord) /\ Len(t) \in Nat
      /\ Len(t) = IF Len(s) = MEMORY_CLEAR_STREAK THEN Len(s) - 1 ELSE Len(s)
      /\ \A m \in 1..Len(t) : t[m] = s[m + (Len(s) - Len(t))]
  <2>1. CASE Len(s) = MEMORY_CLEAR_STREAK
    <3>1. s # <<>>
      BY <2>1 DEF MEMORY_CLEAR_STREAK
    <3>2. /\ Tail(s) \in Seq(WindowRecord) /\ Len(Tail(s)) = Len(s) - 1
          /\ \A m \in 1..Len(Tail(s)) : Tail(s)[m] = s[m + 1]
      BY <3>1, HeadTailProperties
    <3>3. Len(s) - Len(Tail(s)) = 1 /\ Len(Tail(s)) \in Nat
      BY <3>2, <2>1 DEF MEMORY_CLEAR_STREAK
    <3> QED BY <2>1, <3>2, <3>3
  <2>2. CASE Len(s) # MEMORY_CLEAR_STREAK
    <3>1. t = s /\ Len(s) - Len(t) = 0
      BY <2>2, <1>1
    <3>2. \A m \in 1..Len(s) : m + 0 = m
      BY <1>1
    <3> QED BY <2>2, <1>1, <3>1, <3>2
  <2> QED BY <2>1, <2>2
<1> HIDE DEF t
<1>3. /\ r \in Seq(WindowRecord) /\ Len(r) = Len(t) + 1
      /\ \A m \in 1..Len(r) : r[m] = IF m = Len(t) + 1 THEN w ELSE t[m]
  BY <1>2, AppendProperties
<1>4. Len(r) = IF Len(s) = MEMORY_CLEAR_STREAK THEN Len(s) ELSE Len(s) + 1
  BY <1>1, <1>2, <1>3
<1>5. r[Len(r)] = w
  BY <1>2, <1>3
<1> HIDE DEF r
<1>6. ASSUME NEW k \in 1..(Len(r) - 1)
      PROVE  r[Len(r) - k] = s[Len(s) + 1 - k]
  <2> DEFINE m == Len(r) - k
  <2>1. m \in 1..Len(t) /\ m \in 1..Len(r) /\ m # Len(t) + 1
    BY <1>2, <1>3
  <2>2. m + (Len(s) - Len(t)) = Len(s) + 1 - k
    <3>1. Len(s) \in Nat /\ Len(t) \in Nat /\ k \in Int /\ Len(r) = Len(t) + 1
      BY <1>1, <1>2, <1>3
    <3> QED BY <3>1
  <2> HIDE DEF m
  <2>3. r[m] = s[m + (Len(s) - Len(t))]
    BY <2>1, <1>2, <1>3
  <2> QED BY <2>2, <2>3 DEF m
<1> QED BY <1>3, <1>4, <1>5, <1>6 DEF r, t

\* The windows kept are the latest three at most.
LEMMA LengthFact ==
  ASSUME NEW n \in Nat, n <= 3, NEW m, m = IF n = 3 THEN n ELSE n + 1
  PROVE  m \in 1..3 /\ m <= 3 /\ (n = 3 => m = 3) /\ (n # 3 => m = n + 1)
OBVIOUS

-----------------------------------------------------------------------------
\* What a window does to the streak and the memory.
LEMMA StreakStep ==
  ASSUME Inv, NEW frac \in Fracs, Tick(frac)
  PROVE  /\ windows' \in Seq(WindowRecord) /\ RecentWindows'
         /\ clean_streak' \in 0..(MEMORY_CLEAR_STREAK - 1)
         /\ last_bad' = 0 => clean_streak' = 0
         /\ StreakIsEvidence'
         /\ last_bad # 0 /\ last_bad' = 0 =>
              /\ Len(windows') = MEMORY_CLEAR_STREAK
              /\ \A k \in 1..MEMORY_CLEAR_STREAK :
                    windows'[k].frac < Low /\ windows'[k].at >= last_bad
<1> DEFINE evidence == last_bad # 0 /\ frac < Low /\ offer >= last_bad
           w == [frac |-> frac, at |-> offer]
<1>0. /\ frac \in 0..100 /\ Low \in Nat /\ High \in Nat /\ Low <= High
      /\ offer \in Nat \ {0} /\ last_bad \in Nat /\ clean_streak \in 0..2
      /\ last_bad = 0 => clean_streak = 0
      /\ windows \in Seq(WindowRecord) /\ Len(windows) \in Nat /\ Len(windows) <= 3
      /\ clean_streak <= Len(windows)
  BY ThrottleAssumption DEF ThrottleAssumption, Inv, TypeOK, RecentWindows, StreakIsEvidence,
     MEMORY_CLEAR_STREAK
<1>1. w \in WindowRecord /\ w.frac = frac /\ w.at = offer
  BY <1>0 DEF WindowRecord
<1>2. windows' = Append(IF Len(windows) = MEMORY_CLEAR_STREAK THEN Tail(windows)
                        ELSE windows, w)
  BY DEF Tick
<1> HIDE DEF w
<1>3. /\ windows' \in Seq(WindowRecord)
      /\ Len(windows') = IF Len(windows) = MEMORY_CLEAR_STREAK THEN Len(windows)
                         ELSE Len(windows) + 1
      /\ windows'[Len(windows')] = w
      /\ \A k \in 1..(Len(windows') - 1) :
            windows'[Len(windows') - k] = windows[Len(windows) + 1 - k]
  BY <1>0, <1>1, <1>2, WindowsStep DEF MEMORY_CLEAR_STREAK
<1>4. /\ RecentWindows' /\ Len(windows') \in 1..3
      /\ Len(windows) = 3 => Len(windows') = 3
      /\ Len(windows) # 3 => Len(windows') = Len(windows) + 1
  BY <1>0, <1>3, LengthFact DEF RecentWindows, MEMORY_CLEAR_STREAK
\* The latest windows, when this one is evidence too.
<1>5. ASSUME evidence
      PROVE  /\ clean_streak + 1 <= Len(windows')
             /\ \A k \in 1..(clean_streak + 1) :
                   /\ windows'[Len(windows') + 1 - k].frac < Low
                   /\ windows'[Len(windows') + 1 - k].at >= last_bad
  <2>1. clean_streak + 1 <= Len(windows')
    BY <1>0, <1>4
  <2>2. ASSUME NEW k \in 1..(clean_streak + 1)
        PROVE  /\ windows'[Len(windows') + 1 - k].frac < Low
               /\ windows'[Len(windows') + 1 - k].at >= last_bad
    <3>1. CASE k = 1
      <4>1. Len(windows') + 1 - k = Len(windows')
        BY <3>1, <1>4
      <4> QED BY <4>1, <1>1, <1>3, <1>5
    <3>2. CASE k # 1
      <4> DEFINE j == k - 1
      <4>1. j \in 1..clean_streak /\ j \in 1..(Len(windows') - 1)
            /\ Len(windows') + 1 - k = Len(windows') - j
        BY <3>2, <2>1, <1>0, <1>4
      <4> HIDE DEF j
      <4>2. windows'[Len(windows') - j] = windows[Len(windows) + 1 - j]
        BY <4>1, <1>3
      <4>3. windows[Len(windows) + 1 - j].frac < Low /\ windows[Len(windows) + 1 - j].at >= last_bad
        BY <4>1 DEF Inv, StreakIsEvidence
      <4> QED BY <4>1, <4>2, <4>3
    <3> QED BY <3>1, <3>2
  <2> QED BY <2>1, <2>2
<1>6. CASE Clears(evidence)
  <2>1. evidence /\ clean_streak = 2 /\ clean_streak' = 0
    BY <1>0, <1>6 DEF Clears, Streak, Tick, MEMORY_CLEAR_STREAK
  <2>2. Len(windows') = 3
    BY <2>1, <1>4, <1>5
  <2>3. StreakIsEvidence'
    BY <2>1, <2>2 DEF StreakIsEvidence
  <2>4. \A k \in 1..3 : windows'[k].frac < Low /\ windows'[k].at >= last_bad
    <3>1. SUFFICES ASSUME NEW k \in 1..3
                   PROVE  windows'[k].frac < Low /\ windows'[k].at >= last_bad
      OBVIOUS
    <3>2. 4 - k \in 1..(clean_streak + 1) /\ Len(windows') + 1 - (4 - k) = k
      BY <2>1, <2>2
    <3> QED BY <3>2, <2>1, <1>5
  <2>5. clean_streak' \in 0..(MEMORY_CLEAR_STREAK - 1)
    BY <2>1 DEF MEMORY_CLEAR_STREAK
  <2>6. last_bad' = 0 => clean_streak' = 0
    BY <2>1
  <2>7. /\ Len(windows') = MEMORY_CLEAR_STREAK
        /\ \A k \in 1..MEMORY_CLEAR_STREAK :
              windows'[k].frac < Low /\ windows'[k].at >= last_bad
    BY <2>2, <2>4 DEF MEMORY_CLEAR_STREAK
  <2> QED BY <1>3, <1>4, <2>3, <2>5, <2>6, <2>7
<1>7. CASE ~Clears(evidence) /\ evidence
  <2>1. clean_streak' = clean_streak + 1 /\ clean_streak + 1 <= 2
    BY <1>0, <1>7 DEF Clears, Streak, Tick, MEMORY_CLEAR_STREAK
  <2>2. ~(frac > High)
    BY <1>0, <1>7
  <2>3. last_bad' = last_bad /\ last_bad # 0
    BY <2>2, <1>7 DEF Tick
  <2>4. StreakIsEvidence'
    BY <2>1, <2>3, <1>5, <1>7 DEF StreakIsEvidence
  <2>5. clean_streak' \in 0..2
    BY <2>1, <1>0
  <2> QED BY <1>3, <1>4, <2>3, <2>4, <2>5 DEF MEMORY_CLEAR_STREAK
<1>8. CASE ~evidence
  <2>1. clean_streak' = 0
    BY <1>8 DEF Streak, Tick
  <2>2. last_bad # 0 => last_bad' # 0
    BY <1>0, <1>8 DEF Clears, Streak, Tick, MEMORY_CLEAR_STREAK
  <2>3. StreakIsEvidence'
    BY <2>1, <1>4 DEF StreakIsEvidence
  <2> QED BY <1>3, <1>4, <2>1, <2>2, <2>3 DEF MEMORY_CLEAR_STREAK
<1> QED BY <1>6, <1>7, <1>8

\* What a window does to the targets under way.
LEMMA TargetStep ==
  ASSUME Inv, NEW frac \in Fracs, Tick(frac)
  PROVE  pending' \in Seq(Nat) /\ Positive' /\ TargetsOK' /\ last_bad' \in Nat
<1> DEFINE evidence == last_bad # 0 /\ frac < Low /\ offer >= last_bad
           bad == IF Clears(evidence) THEN 0 ELSE last_bad
           down == frac > High /\ BackOff(frac, offer) < 100 * offer
           up == frac <= High /\ frac < Low /\ offer < Ceiling /\ Climb(offer, bad) > 100 * offer
<1>0. /\ frac \in 0..100 /\ Low \in Nat /\ High \in Nat
      /\ Floor \in Nat /\ 100 <= Floor /\ Ceiling \in Nat
      /\ offer \in Nat \ {0} /\ last_bad \in Nat /\ pending \in Seq(Nat)
      /\ Positive /\ TargetsOK /\ OfferWithinBounds
  BY ThrottleAssumption DEF ThrottleAssumption, Inv, TypeOK
<1>1. bad \in Nat
  BY <1>0
<1>2. /\ touched' = touched
      /\ last_bad' = IF down THEN offer ELSE bad
      /\ pending' = CASE down -> Append(pending, BackOff(frac, offer))
                      [] up -> Append(pending, Climb(offer, bad))
                      [] OTHER -> pending
  BY DEF Tick
<1> HIDE DEF bad
<1>3. last_bad' \in Nat
  BY <1>0, <1>1, <1>2
<1>4. CASE down
  <2> DEFINE t == BackOff(frac, offer)
  <2>1. t \in Nat /\ t >= Floor
    BY <1>0, BackOffFact
  <2>2. pending' = Append(pending, t) /\ t < 100 * offer
    <3>1. ~up
      BY <1>0, <1>4
    <3> QED BY <1>2, <1>4, <3>1
  <2> HIDE DEF t
  <2>3. ~touched => TargetOK(t)
    <3>1. Floor \div 100 <= t \div 100
      BY <2>1, <1>0, DivFact
    <3>2. ~touched => t <= 100 * Ceiling
      BY <2>1, <2>2, <1>0 DEF OfferWithinBounds
    <3> QED BY <3>1, <3>2 DEF TargetOK
  <2>4. t >= 100
    BY <2>1, <1>0
  <2> QED BY <1>0, <1>2, <1>3, <2>1, <2>2, <2>3, <2>4, AppendTarget
<1>5. CASE ~down /\ up
  <2> DEFINE t == Climb(offer, bad)
  <2>1. t \in Nat /\ t <= 100 * Ceiling
    BY <1>0, <1>1, ClimbFact
  <2>2. pending' = Append(pending, t) /\ t > 100 * offer
    BY <1>2, <1>5
  <2> HIDE DEF t
  <2>3. ~touched => TargetOK(t)
    <3>1. t \div 100 >= offer /\ t \div 100 \in Nat /\ Floor \div 100 \in Nat
      BY <2>1, <2>2, <1>0, DivFact
    <3>2. ~touched => Floor \div 100 <= t \div 100
      BY <3>1, <1>0 DEF OfferWithinBounds
    <3> QED BY <3>2, <2>1 DEF TargetOK
  <2>4. t >= 100
    BY <2>1, <2>2, <1>0
  <2> QED BY <1>0, <1>2, <1>3, <2>1, <2>2, <2>3, <2>4, AppendTarget
<1>6. CASE ~down /\ ~up
  <2>1. pending' = pending
    BY <1>2, <1>6
  <2> QED BY <2>1, <1>0, <1>2, <1>3 DEF Positive, TargetsOK
<1> QED BY <1>4, <1>5, <1>6

\* A window keeps the invariant.
LEMMA TickInv == ASSUME Inv, NEW frac \in Fracs, Tick(frac) PROVE Inv'
<1>1. offer' = offer /\ touched' = touched
  BY DEF Tick
<1>2. OfferWithinBounds'
  BY <1>1 DEF Inv, OfferWithinBounds
<1>3. TypeOK'
  BY <1>1, StreakStep, TargetStep DEF Inv, TypeOK
<1> QED BY <1>2, <1>3, StreakStep, TargetStep DEF Inv

\* A write that lands keeps it, whichever lands first.
LEMMA LandInv == ASSUME Inv, NEW i \in 1..Len(pending), WriteLands(i) PROVE Inv'
<1>0. /\ pending \in Seq(Nat) /\ Positive /\ TargetsOK /\ Len(pending) \in Nat
      /\ pending[i] \in Nat /\ pending[i] >= 100 /\ Ceiling \in Nat
  BY ThrottleAssumption DEF ThrottleAssumption, Inv, TypeOK, Positive
<1>1. /\ pending' \in Seq(Nat)
      /\ \A j \in 1..Len(pending') : \E k \in 1..Len(pending) : pending'[j] = pending[k]
  BY <1>0, RemoveTarget DEF WriteLands
<1>2. /\ offer' = pending[i] \div 100
      /\ UNCHANGED <<last_bad, clean_streak, windows, touched>>
  BY DEF WriteLands, Count
<1>3. Positive'
  BY <1>0, <1>1 DEF Positive
<1>4. TargetsOK'
  BY <1>0, <1>1, <1>2 DEF TargetsOK
<1>5. offer' \in Nat \ {0}
  BY <1>0, <1>2, DivFact
<1>6. OfferWithinBounds'
  <2>1. SUFFICES ASSUME ~touched PROVE Floor \div 100 <= offer' /\ offer' <= Ceiling
    BY <1>2 DEF OfferWithinBounds
  <2>2. Floor \div 100 <= pending[i] \div 100 /\ pending[i] <= 100 * Ceiling
    BY <2>1, <1>0 DEF TargetsOK, TargetOK
  <2> QED BY <2>2, <1>0, <1>2, DivFact
<1>7. TypeOK'
  BY <1>1, <1>2, <1>5 DEF Inv, TypeOK
<1>8. RecentWindows' /\ StreakIsEvidence'
  BY <1>2 DEF Inv, RecentWindows, StreakIsEvidence
<1> QED BY <1>3, <1>4, <1>6, <1>7, <1>8 DEF Inv

\* An operator's write keeps it.
LEMMA OperatorInv == ASSUME Inv, NEW v \in Operator, OperatorWrites(v) PROVE Inv'
<1>1. v \in Nat \ {0}
  BY ThrottleAssumption DEF ThrottleAssumption
<1>2. /\ offer' = v /\ touched' = TRUE
      /\ UNCHANGED <<pending, last_bad, clean_streak, windows>>
  BY DEF OperatorWrites
<1>3. TypeOK'
  BY <1>1, <1>2 DEF Inv, TypeOK
<1>4. Positive' /\ TargetsOK' /\ OfferWithinBounds'
  BY <1>2 DEF Inv, Positive, TargetsOK, OfferWithinBounds
<1>5. RecentWindows' /\ StreakIsEvidence'
  BY <1>2 DEF Inv, RecentWindows, StreakIsEvidence
<1> QED BY <1>3, <1>4, <1>5 DEF Inv

\* A stuttering step keeps it.
LEMMA StutterInv == ASSUME Inv, UNCHANGED vars PROVE Inv'
BY DEF Inv, vars, TypeOK, Positive, TargetsOK, TargetOK, OfferWithinBounds, RecentWindows,
   StreakIsEvidence

\* Every step keeps the invariant.
LEMMA InvStep == Inv /\ [Next]_vars => Inv'
<1> SUFFICES ASSUME Inv, [Next]_vars PROVE Inv'
  OBVIOUS
<1>1. CASE Window
  BY <1>1, TickInv DEF Window
<1>2. CASE Landing
  BY <1>2, LandInv DEF Landing
<1>3. CASE \E v \in Operator : OperatorWrites(v)
  BY <1>3, OperatorInv
<1>4. CASE UNCHANGED vars
  BY <1>4, StutterInv
<1> QED BY <1>1, <1>2, <1>3, <1>4 DEF Next

\* The invariant holds throughout.
LEMMA Invariance == Spec => []Inv
BY InvInit, InvStep, PTL DEF Spec

-----------------------------------------------------------------------------
\* The state of the governor stays within its types, whatever windows show.
THEOREM TypeCorrect == Spec => []TypeOK
<1>1. Inv => TypeOK
  BY DEF Inv
<1> QED BY <1>1, Invariance, PTL

\* Until an operator writes, the offer stays between the floor and the
\* authored ceiling, for every throttle: spec and every history of windows.
THEOREM Contained == Spec => []OfferWithinBounds
<1>1. Inv => OfferWithinBounds
  BY DEF Inv
<1> QED BY <1>1, Invariance, PTL

\* The clean streak always counts windows that were clean at or above the
\* congestion point remembered now.
THEOREM StreakSound == Spec => []StreakIsEvidence
<1>1. Inv => StreakIsEvidence
  BY DEF Inv
<1> QED BY <1>1, Invariance, PTL

\* The congestion memory is cleared only by three windows in a row of evidence.
THEOREM MemorySound == Spec => ClearedOnSustainedEvidence
<1> DEFINE A == last_bad # 0 /\ last_bad' = 0 =>
                  /\ Len(windows') = MEMORY_CLEAR_STREAK
                  /\ \A k \in 1..MEMORY_CLEAR_STREAK :
                        windows'[k].frac < Low /\ windows'[k].at >= last_bad
<1>1. Inv /\ [Next]_vars => [A]_vars
  <2> SUFFICES ASSUME Inv, [Next]_vars PROVE A \/ UNCHANGED vars
    OBVIOUS
  <2>1. CASE Window
    BY <2>1, StreakStep DEF Window
  <2>2. CASE Landing
    BY <2>2 DEF Landing, WriteLands
  <2>3. CASE \E v \in Operator : OperatorWrites(v)
    BY <2>3 DEF OperatorWrites
  <2> QED BY <2>1, <2>2, <2>3 DEF Next
<1> QED BY <1>1, Invariance, PTL DEF Spec, ClearedOnSustainedEvidence
=============================================================================
