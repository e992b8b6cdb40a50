-------------------------- MODULE FiberPoolProofs ---------------------------
(***************************************************************************)
(* Proofs about FiberPool, for any writers, targets, authored concurrency  *)
(* and opening offer: its types, that the pool follows the writes of its   *)
(* control, and that the oldest fiber is never told to leave.              *)
(***************************************************************************)
EXTENDS FiberPool, FiniteSetTheorems, SequenceTheorems, TLAPS

-----------------------------------------------------------------------------
(* The newest n of a finite set of positions.                              *)

Above(U, i) == {j \in U : j > i}
Top(U, n) == {i \in U : Cardinality(Above(U, i)) < n}

\* The number of larger members tells the members of a finite set of numbers
\* apart, and runs through all numbers below the size of the set.
LEMMA Ranks ==
    ASSUME NEW U \in SUBSET Nat, IsFiniteSet(U)
    PROVE  [i \in U |-> Cardinality(Above(U, i))]
              \in Bijection(U, 0..(Cardinality(U) - 1))
<1> DEFINE c == Cardinality(U)
           rank == [i \in U |-> Cardinality(Above(U, i))]
<1>1. c \in Nat
  BY FS_CardinalityType
<1>2. ASSUME NEW i \in U
      PROVE  IsFiniteSet(Above(U, i)) /\ Cardinality(Above(U, i)) \in 0..(c - 1)
  <2>1. Above(U, i) \in SUBSET (U \ {i})
    BY DEF Above
  <2>2. IsFiniteSet(U \ {i}) /\ Cardinality(U \ {i}) = c - 1
    BY FS_RemoveElement
  <2>3. IsFiniteSet(Above(U, i)) /\ Cardinality(Above(U, i)) <= c - 1
    BY <2>1, <2>2, FS_Subset
  <2>4. Cardinality(Above(U, i)) \in Nat
    BY <2>3, FS_CardinalityType
  <2> QED BY <1>1, <2>3, <2>4
<1>3. ASSUME NEW i \in U, NEW k \in U, i < k
      PROVE  Cardinality(Above(U, k)) # Cardinality(Above(U, i))
  <2>1. Above(U, k) \in SUBSET Above(U, i)
    <3>1. ASSUME NEW j \in U, j > k PROVE j > i
      <4>1. i \in Nat /\ j \in Nat /\ k \in Nat
        OBVIOUS
      <4> QED BY <1>3, <3>1, <4>1
    <3> QED BY <3>1 DEF Above
  <2>2. k \in Above(U, i) /\ k \notin Above(U, k)
    <3>1. i \in Nat /\ k \in Nat
      OBVIOUS
    <3> QED BY <1>3, <3>1 DEF Above
  <2>3. IsFiniteSet(Above(U, i))
    BY <1>2
  <2>4. Cardinality(Above(U, i)) = Cardinality(Above(U, k)) => Above(U, i) = Above(U, k)
    BY <2>1, <2>3, FS_Subset
  <2> QED BY <2>2, <2>4
<1>4. rank \in [U -> 0..(c - 1)]
  BY <1>2
<1>5. rank \in Injection(U, 0..(c - 1))
  <2>1. ASSUME NEW i \in U, NEW k \in U, rank[i] = rank[k] PROVE i = k
    <3>1. i \in Nat /\ k \in Nat
      OBVIOUS
    <3>2. i < k \/ k < i \/ i = k
      BY <3>1
    <3> QED BY <1>3, <2>1, <3>2
  <2>2. DOMAIN rank = U
    OBVIOUS
  <2> HIDE DEF rank
  <2>3. IsInjective(rank)
    BY <2>1, <2>2 DEF IsInjective
  <2> QED BY <1>4, <2>3 DEF Injection
<1>6. IsFiniteSet(0..(c - 1)) /\ Cardinality(0..(c - 1)) = c
  <2>1. 0 \in Int /\ c - 1 \in Int
    BY <1>1
  <2>2. /\ IsFiniteSet(0..(c - 1))
        /\ Cardinality(0..(c - 1)) = IF 0 > c - 1 THEN 0 ELSE (c - 1) - 0 + 1
    BY <2>1, FS_Interval
  <2> QED BY <1>1, <2>2
<1>7. rank \in Surjection(U, 0..(c - 1))
  <2> HIDE DEF rank
  <2> QED BY <1>5, <1>6, FS_Injection
<1> HIDE DEF rank
<1>8. rank \in Bijection(U, 0..(c - 1))
  BY <1>5, <1>7 DEF Bijection
<1> QED BY <1>8 DEF rank

\* There are n newest positions, or all when there are not as many.
LEMMA TopSize ==
    ASSUME NEW U \in SUBSET Nat, IsFiniteSet(U), NEW n \in Nat
    PROVE  /\ IsFiniteSet(Top(U, n))
           /\ n <= Cardinality(U) => Cardinality(Top(U, n)) = n
           /\ n > Cardinality(U) => Top(U, n) = U
<1> DEFINE c == Cardinality(U)
           rank == [i \in U |-> Cardinality(Above(U, i))]
           N == Top(U, n)
<1>1. c \in Nat
  BY FS_CardinalityType
<1>2. rank \in Bijection(U, 0..(c - 1))
  BY Ranks
<1>3. \A i \in U : rank[i] = Cardinality(Above(U, i))
  OBVIOUS
<1>4. N \in SUBSET U /\ \A i \in U : i \in N <=> rank[i] < n
  BY <1>3 DEF Top
<1> HIDE DEF rank, N
<1>5. /\ rank \in [U -> 0..(c - 1)]
      /\ \A i, k \in U : rank[i] = rank[k] => i = k
      /\ \A t \in 0..(c - 1) : \E i \in U : rank[i] = t
  BY <1>2 DEF Bijection, Injection, Surjection, IsInjective
<1>6. IsFiniteSet(N)
  BY <1>4, FS_Subset
<1>7. ASSUME n <= c PROVE Cardinality(N) = n
  <2> DEFINE r == [i \in N |-> rank[i]]
  <2>1. r \in [N -> 0..(n - 1)]
    <3>1. \A i \in N : rank[i] \in 0..(n - 1)
      BY <1>1, <1>4, <1>5
    <3> QED BY <3>1
  <2>2. \A i, k \in N : r[i] = r[k] => i = k
    BY <1>4, <1>5
  <2>3. \A t \in 0..(n - 1) : \E i \in N : r[i] = t
    <3> SUFFICES ASSUME NEW t \in 0..(n - 1) PROVE \E i \in N : r[i] = t
      OBVIOUS
    <3>1. t \in 0..(c - 1) /\ t < n
      BY <1>1, <1>7
    <3>2. PICK i \in U : rank[i] = t
      BY <1>5, <3>1
    <3>3. i \in N
      BY <1>4, <3>1, <3>2
    <3> QED BY <3>2, <3>3
  <2> HIDE DEF r
  <2>4. DOMAIN r = N
    BY <2>1
  <2>5. r \in Bijection(N, 0..(n - 1))
    BY <2>1, <2>2, <2>3, <2>4 DEF Bijection, Injection, Surjection, IsInjective
  <2>6. ExistsBijection(N, 0..(n - 1))
    BY <2>5 DEF ExistsBijection
  <2>7. Cardinality(0..(n - 1)) = Cardinality(N)
    BY <1>6, <2>6, FS_Bijection
  <2>8. Cardinality(0..(n - 1)) = IF 0 > n - 1 THEN 0 ELSE (n - 1) - 0 + 1
    <3>1. 0 \in Int /\ n - 1 \in Int
      OBVIOUS
    <3> QED BY <3>1, FS_Interval
  <2> QED BY <2>7, <2>8
<1>8. ASSUME n > c PROVE N = U
  <2>1. \A i \in U : rank[i] < n
    BY <1>1, <1>5, <1>8
  <2> QED BY <1>4, <2>1
<1> QED BY <1>6, <1>7, <1>8 DEF N
-----------------------------------------------------------------------------
(* What the operations on the vector do to the fibers that count.          *)

\* As long as only flagged fibers end, an ended one is flagged.
Flagged == ~lost => \A i \in DOMAIN fibers : fibers[i].done => fibers[i].flag

\* The two components of a fiber change one at a time.
LEMMA FiberFields ==
    ASSUME NEW r \in Fiber
    PROVE  /\ r.flag \in BOOLEAN /\ r.done \in BOOLEAN
           /\ [r EXCEPT !.done = TRUE] \in Fiber
           /\ [r EXCEPT !.done = TRUE].flag = r.flag /\ [r EXCEPT !.done = TRUE].done = TRUE
           /\ [r EXCEPT !.flag = TRUE] \in Fiber
           /\ [r EXCEPT !.flag = TRUE].done = r.done /\ [r EXCEPT !.flag = TRUE].flag = TRUE
           /\ New \in Fiber /\ New.flag = FALSE /\ New.done = FALSE
BY DEF Fiber, New

\* The vector is a function on its positions, finitely many of which count.
LEMMA PoolShape ==
    ASSUME fibers \in Seq(Fiber)
    PROVE  /\ Len(fibers) \in Nat /\ DOMAIN fibers = 1..Len(fibers)
           /\ \A i \in DOMAIN fibers : fibers[i] \in Fiber
           /\ Unflagged \in SUBSET (1..Len(fibers)) /\ Unflagged \in SUBSET Nat
           /\ IsFiniteSet(Unflagged) /\ active_count \in Nat
<1>1. /\ Len(fibers) \in Nat /\ DOMAIN fibers = 1..Len(fibers)
      /\ \A i \in DOMAIN fibers : fibers[i] \in Fiber
  OBVIOUS
<1>2. Unflagged \in SUBSET (1..Len(fibers)) /\ Unflagged \in SUBSET Nat
  BY <1>1 DEF Unflagged
<1>3. IsFiniteSet(1..Len(fibers))
  BY <1>1, FS_Interval
<1>4. IsFiniteSet(Unflagged)
  BY <1>2, <1>3, FS_Subset
<1>5. active_count \in Nat
  BY <1>4, FS_CardinalityType DEF active_count
<1> QED BY <1>1, <1>2, <1>4, <1>5

\* A function on 1..n into the fibers is a vector.
LEMMA IsVector ==
    ASSUME NEW n \in Nat, NEW s \in [1..n -> Fiber]
    PROVE  s \in Seq(Fiber) /\ Len(s) = n /\ DOMAIN s = 1..n
<1>1. s \in Seq(Fiber)
  BY SeqDef
<1>2. DOMAIN s = 1..n
  OBVIOUS
<1>3. Len(s) \in Nat /\ DOMAIN s = 1..Len(s)
  BY <1>1
<1>4. Len(s) = n
  BY <1>2, <1>3
<1> QED BY <1>1, <1>2, <1>4

\* spawn_one adds one fiber that counts, behind the others.
LEMMA Appended ==
    ASSUME fibers \in Seq(Fiber), Flagged, OldestStays,
           fibers' = Append(fibers, New), lost' = lost
    PROVE  /\ fibers' \in Seq(Fiber) /\ active_count' = active_count + 1
           /\ Flagged' /\ OldestStays'
<1>0. /\ Len(fibers) \in Nat /\ DOMAIN fibers = 1..Len(fibers)
      /\ \A i \in DOMAIN fibers : fibers[i] \in Fiber
      /\ Unflagged \in SUBSET (1..Len(fibers)) /\ IsFiniteSet(Unflagged)
  BY PoolShape
<1>1. New \in Fiber /\ New.flag = FALSE /\ New.done = FALSE
  BY DEF New, Fiber
<1>2. /\ fibers' \in Seq(Fiber) /\ Len(fibers') = Len(fibers) + 1
      /\ DOMAIN fibers' = 1..(Len(fibers) + 1)
      /\ fibers'[Len(fibers) + 1] = New
      /\ \A i \in 1..Len(fibers) : fibers'[i] = fibers[i]
  BY <1>1
<1>3. Unflagged' = Unflagged \cup {Len(fibers) + 1}
  BY <1>0, <1>1, <1>2 DEF Unflagged
<1>4. Len(fibers) + 1 \notin Unflagged
  BY <1>0
<1>5. active_count' = active_count + 1
  BY <1>0, <1>3, <1>4, FS_AddElement DEF active_count
<1>6. Flagged'
  BY <1>0, <1>1, <1>2 DEF Flagged
<1>7. OldestStays'
  <2>1. CASE fibers = <<>>
    <3>1. fibers'[1] = New
      BY <1>2, <2>1
    <3> QED BY <1>1, <3>1 DEF OldestStays
  <2>2. CASE fibers # <<>>
    <3>1. 1 \in 1..Len(fibers)
      BY <2>2
    <3> QED BY <1>2, <2>2, <3>1 DEF OldestStays
  <2> QED BY <2>1, <2>2
<1> QED BY <1>2, <1>5, <1>6, <1>7

\* A fiber that ends still counts unless it was flagged.
LEMMA Ended ==
    ASSUME fibers \in Seq(Fiber), Flagged, OldestStays, NEW k \in DOMAIN fibers,
           fibers' = [fibers EXCEPT ![k].done = TRUE], lost' = (lost \/ ~fibers[k].flag)
    PROVE  /\ fibers' \in Seq(Fiber) /\ active_count' = active_count
           /\ Flagged' /\ OldestStays' /\ (~lost' => ~lost)
<1>0. /\ Len(fibers) \in Nat /\ DOMAIN fibers = 1..Len(fibers)
      /\ \A i \in DOMAIN fibers : fibers[i] \in Fiber
  BY PoolShape
<1>1. [fibers[k] EXCEPT !.done = TRUE] \in Fiber
      /\ [fibers[k] EXCEPT !.done = TRUE].flag = fibers[k].flag
  BY <1>0, FiberFields
<1>2. /\ DOMAIN fibers' = DOMAIN fibers
      /\ fibers'[k] = [fibers[k] EXCEPT !.done = TRUE]
      /\ \A i \in DOMAIN fibers \ {k} : fibers'[i] = fibers[i]
  BY <1>0
<1>3. fibers' \in [1..Len(fibers) -> Fiber]
  BY <1>0, <1>1, <1>2
<1>4. fibers' \in Seq(Fiber)
  BY <1>0, <1>3, IsVector
<1>5. \A i \in DOMAIN fibers : fibers'[i].flag = fibers[i].flag
  BY <1>1, <1>2
<1>6. Unflagged' = Unflagged
  BY <1>2, <1>5 DEF Unflagged
<1>7. active_count' = active_count
  BY <1>6 DEF active_count
<1>8. ASSUME ~lost' PROVE ~lost /\ fibers[k].flag
  BY <1>8
<1>9. Flagged'
  <2> SUFFICES ASSUME ~lost', NEW i \in DOMAIN fibers, fibers'[i].done
               PROVE  fibers'[i].flag
    BY <1>2 DEF Flagged
  <2>1. CASE i = k
    BY <1>5, <1>8, <2>1
  <2>2. CASE i # k
    BY <1>2, <1>8, <2>2 DEF Flagged
  <2> QED BY <2>1, <2>2
<1>10. OldestStays'
  <2> SUFFICES ASSUME ~lost', fibers' # <<>> PROVE ~fibers'[1].flag
    BY DEF OldestStays
  <2>1. 1 \in DOMAIN fibers /\ fibers # <<>>
    BY <1>0
  <2>2. ~fibers[1].flag
    BY <1>8, <2>1 DEF OldestStays
  <2> QED BY <1>5, <2>1, <2>2
<1> QED BY <1>4, <1>7, <1>8, <1>9, <1>10

\* Reaping takes no fiber that counts as long as only flagged ones have ended,
\* and never adds one; the order of the others stays.
LEMMA Reaped ==
    ASSUME fibers \in Seq(Fiber), Flagged, OldestStays, lost' = lost,
           NEW from \in [1..Cardinality(Remaining) -> Remaining],
           \A j, k \in DOMAIN from : j < k => from[j] < from[k],
           fibers' = [k \in DOMAIN from |-> fibers[from[k]]]
    PROVE  /\ fibers' \in Seq(Fiber) /\ active_count' \in Nat /\ active_count' <= active_count
           /\ ~lost => active_count' = active_count
           /\ Flagged' /\ OldestStays'
<1> DEFINE R == Remaining
           c == Cardinality(R)
           V == Unflagged \cap R
           W == {k \in 1..c : ~fibers[from[k]].flag}
<1>0. /\ Len(fibers) \in Nat /\ DOMAIN fibers = 1..Len(fibers)
      /\ \A i \in DOMAIN fibers : fibers[i] \in Fiber
      /\ Unflagged \in SUBSET (1..Len(fibers)) /\ IsFiniteSet(Unflagged)
      /\ active_count \in Nat
  BY PoolShape
<1>1. R \in SUBSET (1..Len(fibers)) /\ \A i \in R : ~fibers[i].done
  BY <1>0 DEF Remaining
<1>2. IsFiniteSet(1..Len(fibers))
  BY <1>0, FS_Interval
<1>3. IsFiniteSet(R) /\ c \in Nat
  <2>1. IsFiniteSet(R)
    BY <1>1, <1>2, FS_Subset
  <2> QED BY <2>1, FS_CardinalityType
<1>4. from \in [1..c -> R] /\ DOMAIN from = 1..c
  OBVIOUS
<1> HIDE DEF R
<1>5. \A j, k \in 1..c : from[j] = from[k] => j = k
  <2> SUFFICES ASSUME NEW j \in 1..c, NEW k \in 1..c, from[j] = from[k] PROVE j = k
    OBVIOUS
  <2>1. j \in Nat /\ k \in Nat /\ from[j] \in Nat /\ from[k] \in Nat
    <3>1. from[j] \in 1..Len(fibers) /\ from[k] \in 1..Len(fibers)
      BY <1>1, <1>4
    <3> QED BY <1>0, <1>3, <3>1
  <2>2. (j < k => from[j] < from[k]) /\ (k < j => from[k] < from[j])
    BY <1>4
  <2> QED BY <2>1, <2>2
<1>6. from \in Injection(1..c, R)
  BY <1>4, <1>5 DEF Injection, IsInjective
<1>7. Cardinality(1..c) = c
  <2>1. Cardinality(1..c) = IF 1 > c THEN 0 ELSE c - 1 + 1
    <3>1. 1 \in Int /\ c \in Int
      BY <1>3
    <3> HIDE DEF c
    <3> QED BY <3>1, FS_Interval
  <2> QED BY <1>3, <2>1
<1>8. from \in Surjection(1..c, R)
  BY <1>3, <1>6, <1>7, FS_Injection
<1>9. \A i \in R : \E k \in 1..c : from[k] = i
  BY <1>8 DEF Surjection
<1>10. fibers' = [k \in 1..c |-> fibers[from[k]]]
  BY <1>4
<1>11. \A k \in 1..c : /\ from[k] \in R /\ from[k] \in DOMAIN fibers
                       /\ fibers[from[k]] \in Fiber
                       /\ fibers'[k] = fibers[from[k]]
  BY <1>0, <1>1, <1>4, <1>10
<1>12. fibers' \in [1..c -> Fiber]
  BY <1>10, <1>11
<1>13. fibers' \in Seq(Fiber) /\ DOMAIN fibers' = 1..c
  BY <1>3, <1>12, IsVector
<1>14. Unflagged' = W
  BY <1>11, <1>13 DEF Unflagged
<1>15. Cardinality(V) \in Nat /\ Cardinality(V) <= active_count
  <2>1. V \in SUBSET Unflagged
    OBVIOUS
  <2>2. IsFiniteSet(V) /\ Cardinality(V) <= active_count
    BY <1>0, <2>1, FS_Subset DEF active_count
  <2> QED BY <2>2, FS_CardinalityType
<1>16. ExistsBijection(W, V)
  <2> DEFINE g == [k \in W |-> from[k]]
  <2>1. g \in [W -> V]
    <3>1. \A k \in W : from[k] \in V
      BY <1>11 DEF Unflagged
    <3> QED BY <3>1
  <2>2. \A j, k \in W : g[j] = g[k] => j = k
    BY <1>5
  <2>3. \A i \in V : \E k \in W : g[k] = i
    <3> SUFFICES ASSUME NEW i \in V PROVE \E k \in W : g[k] = i
      OBVIOUS
    <3>1. PICK k \in 1..c : from[k] = i
      BY <1>9
    <3>2. k \in W
      BY <3>1 DEF Unflagged
    <3> QED BY <3>1, <3>2
  <2> HIDE DEF g, W, V
  <2>4. DOMAIN g = W
    BY <2>1
  <2>5. g \in Bijection(W, V)
    BY <2>1, <2>2, <2>3, <2>4 DEF Bijection, Injection, Surjection, IsInjective
  <2> QED BY <2>5 DEF ExistsBijection
<1>17. Cardinality(V) = Cardinality(W)
  <2>1. W \in SUBSET (1..c) /\ IsFiniteSet(1..c)
    BY <1>3, FS_Interval
  <2>2. IsFiniteSet(W)
    BY <2>1, FS_Subset
  <2> HIDE DEF W, V
  <2> QED BY <1>16, <2>2, FS_Bijection
<1>18. active_count' = Cardinality(V)
  BY <1>14, <1>17 DEF active_count
<1>19. ASSUME ~lost PROVE V = Unflagged
  <2>1. \A i \in Unflagged : i \in R
    BY <1>19 DEF Unflagged, Flagged, R, Remaining
  <2> QED BY <2>1
<1>20. ~lost => active_count' = active_count
  BY <1>18, <1>19 DEF active_count
<1>21. Flagged'
  BY <1>1, <1>11, <1>13 DEF Flagged
<1>22. OldestStays'
  <2> SUFFICES ASSUME ~lost, fibers' # <<>> PROVE ~fibers'[1].flag
    BY DEF OldestStays
  <2>1. 1 \in 1..c
    BY <1>3, <1>13
  <2>2. from[1] \in 1..Len(fibers)
    BY <1>0, <1>11, <2>1
  <2>3. 1 \in DOMAIN fibers /\ fibers # <<>>
    BY <1>0, <2>2
  <2>4. ~fibers[1].flag
    BY <2>3 DEF OldestStays
  <2>5. 1 \in R
    BY <2>3, <2>4 DEF R, Remaining, Flagged
  <2>6. PICK k \in 1..c : from[k] = 1
    BY <1>9, <2>5
  <2>7. k = 1
    <3>1. 1 < k => from[1] < from[k]
      BY <1>4, <2>1
    <3>2. k \in Nat /\ from[1] \in Nat /\ from[1] >= 1 /\ k >= 1
      BY <1>0, <1>3, <2>2
    <3> QED BY <2>6, <3>1, <3>2
  <2> QED BY <1>11, <2>1, <2>4, <2>6, <2>7
<1> QED BY <1>13, <1>15, <1>18, <1>20, <1>21, <1>22

\* A scale-down flags as many fibers as it has counted too many, or all when so
\* many have gone; with one to keep, the oldest is not among them.
LEMMA Surplus ==
    ASSUME fibers \in Seq(Fiber), Flagged, OldestStays, lost' = lost, NEW n \in Nat,
           ~lost => n < active_count,
           fibers' = [i \in DOMAIN fibers |->
                        IF i \in Newest(n) THEN [fibers[i] EXCEPT !.flag = TRUE] ELSE fibers[i]]
    PROVE  /\ fibers' \in Seq(Fiber)
           /\ n <= active_count => active_count' = active_count - n
           /\ n > active_count => active_count' = 0
           /\ Flagged' /\ OldestStays'
<1> DEFINE N == Newest(n)
<1>0. /\ Len(fibers) \in Nat /\ DOMAIN fibers = 1..Len(fibers)
      /\ \A i \in DOMAIN fibers : fibers[i] \in Fiber
      /\ Unflagged \in SUBSET (1..Len(fibers)) /\ IsFiniteSet(Unflagged)
      /\ Unflagged \in SUBSET Nat /\ active_count \in Nat
  BY PoolShape
<1>1. N = Top(Unflagged, n)
  BY DEF Newest, Top, Above
<1>2. /\ n <= active_count => Cardinality(N) = n
      /\ n > active_count => N = Unflagged
  BY <1>0, <1>1, TopSize DEF active_count
<1>3. N \in SUBSET Unflagged
  BY DEF Newest
<1> HIDE DEF N
<1>4. /\ DOMAIN fibers' = DOMAIN fibers
      /\ \A i \in DOMAIN fibers : i \in N => fibers'[i] = [fibers[i] EXCEPT !.flag = TRUE]
      /\ \A i \in DOMAIN fibers : i \notin N => fibers'[i] = fibers[i]
  BY DEF N
<1>5. \A i \in DOMAIN fibers :
          /\ fibers'[i] \in Fiber /\ fibers'[i].done = fibers[i].done
          /\ fibers'[i].flag <=> fibers[i].flag \/ i \in N
  <2> SUFFICES ASSUME NEW i \in DOMAIN fibers
               PROVE  /\ fibers'[i] \in Fiber /\ fibers'[i].done = fibers[i].done
                      /\ fibers'[i].flag <=> fibers[i].flag \/ i \in N
    OBVIOUS
  <2>1. /\ [fibers[i] EXCEPT !.flag = TRUE] \in Fiber
        /\ [fibers[i] EXCEPT !.flag = TRUE].done = fibers[i].done
        /\ [fibers[i] EXCEPT !.flag = TRUE].flag = TRUE
    BY <1>0, FiberFields
  <2>2. CASE i \in N
    BY <1>4, <2>1, <2>2
  <2>3. CASE i \notin N
    BY <1>0, <1>4, <2>3
  <2> QED BY <2>2, <2>3
<1>6. fibers' \in [1..Len(fibers) -> Fiber]
  <2>1. fibers' = [i \in 1..Len(fibers) |-> fibers'[i]]
    BY <1>0
  <2> QED BY <1>0, <1>5, <2>1
<1>7. fibers' \in Seq(Fiber)
  BY <1>0, <1>6, IsVector
<1>8. Unflagged' = Unflagged \ N
  BY <1>4, <1>5 DEF Unflagged
<1>9. active_count' = active_count - Cardinality(Unflagged \cap N)
  BY <1>0, <1>8, FS_Difference DEF active_count
<1>10. Unflagged \cap N = N
  BY <1>3
<1>11. /\ n <= active_count => active_count' = active_count - n
       /\ n > active_count => active_count' = 0
  <2>1. active_count = Cardinality(Unflagged)
    BY DEF active_count
  <2>2. active_count' = active_count - Cardinality(N)
    BY <1>9, <1>10
  <2>3. CASE n <= active_count
    BY <1>0, <1>2, <2>2, <2>3
  <2>4. CASE n > active_count
    <3>1. Cardinality(N) = active_count
      BY <1>2, <2>1, <2>4
    <3> QED BY <1>0, <2>2, <2>4, <3>1
  <2> QED BY <1>0, <2>3, <2>4
<1>12. Flagged'
  BY <1>4, <1>5 DEF Flagged
<1>13. OldestStays'
  <2> SUFFICES ASSUME ~lost, fibers' # <<>> PROVE ~fibers'[1].flag
    BY DEF OldestStays
  <2>1. 1 \in DOMAIN fibers /\ fibers # <<>>
    <3>1. Len(fibers') # 0 /\ Len(fibers') \in Nat /\ DOMAIN fibers' = 1..Len(fibers')
      BY <1>7
    <3> QED BY <1>0, <1>4, <3>1
  <2>2. ~fibers[1].flag
    BY <2>1 DEF OldestStays
  <2>3. 1 \in Unflagged
    BY <2>1, <2>2 DEF Unflagged
  <2>4. {j \in Unflagged : j > 1} = Unflagged \ {1}
    BY <1>0
  <2>5. Cardinality(Unflagged \ {1}) = active_count - 1
    <3>1. Cardinality(Unflagged \ {1})
            = IF 1 \in Unflagged THEN Cardinality(Unflagged) - 1 ELSE Cardinality(Unflagged)
      BY <1>0, FS_RemoveElement
    <3> QED BY <2>3, <3>1 DEF active_count
  <2>6. 1 \notin N
    <3>1. 1 \in N => Cardinality(Unflagged \ {1}) < n
      BY <2>4 DEF N, Newest
    <3> QED BY <1>0, <2>5, <3>1
  <2> QED BY <1>5, <2>1, <2>2, <2>6
<1> QED BY <1>7, <1>11, <1>12, <1>13
-----------------------------------------------------------------------------
(* The inductive invariant.                                                *)

Busy == {"count", "grow", "shrink", "commit"}

\* The holder of the control's lock is the writer under way.
Serial ==
    /\ \A w \in Writers : pc[w] \in Busy <=> lock = w
    /\ lock = None => ~late
    /\ settled /\ lock # None => late

\* Only a running phase is written to late, with the applier in place; and the
\* governor writes once it is built.
Begun ==
    /\ late \/ settled => startup = "running"
    /\ startup # "attached" => registered
    /\ startup \in {"attached", "registered"} => pc[Governor] = "idle"

\* Between the count of a resize and its change fibers may come as long as the
\* phase starts, and go when they are lost; a late resize sees only the latter.
Resizing ==
    \A w \in Writers :
       /\ pc[w] = "shrink" => active[w] > target[w]
       /\ pc[w] \in {"grow", "shrink"} => /\ late => active_count <= active[w]
                                          /\ ~lost => active_count >= active[w]
       /\ pc[w] = "commit" /\ late => /\ active_count <= target[w]
                                      /\ ~lost => active_count = target[w]

Inv ==
    /\ TypeOK /\ Serial /\ Begun /\ Resizing
    /\ Flagged /\ OldestStays /\ PoolFollowsWrites

\* The constants of one instance.
LEMMA Constants ==
    /\ Governor \in Writers /\ None \notin Writers /\ Governor \notin Operators
    /\ Operators \subseteq Writers
    /\ Concurrency \in Nat \ {0} /\ Opening \in 1..Concurrency
    /\ Targets \subseteq Nat \ {0}
BY PoolAssumption DEF PoolAssumption, Writers

\* The pool starts empty and the control at the authored concurrency.
LEMMA InvInit == Init => Inv
<1> SUFFICES ASSUME Init PROVE Inv
  OBVIOUS
<1>1. TypeOK
  <2>1. /\ fibers \in Seq(Fiber) /\ startup = "attached" /\ registered = FALSE
        /\ lock \in Writers \cup {None}
        /\ pc \in [Writers -> {"idle", "waiting", "count", "grow", "shrink", "commit"}]
        /\ \A w \in Writers : pc[w] # "grow"
    BY DEF Init
  <2>2. /\ seeding \in 0..Opening /\ committed \in Nat \ {0}
        /\ target \in [Writers -> Nat \ {0}] /\ active \in [Writers -> Nat]
    BY Constants DEF Init
  <2>3. {lost, late, settled} \subseteq BOOLEAN
    BY DEF Init
  <2> QED BY <2>1, <2>2, <2>3 DEF TypeOK
<1>2. Serial /\ Begun /\ Resizing
  BY Constants DEF Init, Serial, Begun, Resizing, Busy
<1>3. Flagged /\ OldestStays /\ PoolFollowsWrites
  BY DEF Init, Flagged, OldestStays, PoolFollowsWrites
<1> QED BY <1>1, <1>2, <1>3 DEF Inv

\* A step on the vector alone: the count moves as the late resizes and the
\* committed value allow.
LEMMA VectorStep ==
    ASSUME Inv, fibers' \in Seq(Fiber), active_count' \in Nat, Flagged', OldestStays',
           lost' \in BOOLEAN, ~lost' => ~lost,
           UNCHANGED <<startup, registered, control>>, seeding' \in 0..Opening,
           startup = "running" => active_count' <= active_count,
           ~lost' => active_count' >= active_count
    PROVE  Inv'
<1>1. active_count \in Nat
  BY PoolShape DEF Inv, TypeOK
<1>2. TypeOK'
  <2>1. late \in BOOLEAN /\ settled \in BOOLEAN /\ late' = late /\ settled' = settled
    BY DEF Inv, TypeOK, control
  <2>2. {lost', late', settled'} \subseteq BOOLEAN
    BY <2>1
  <2> QED BY <2>2 DEF Inv, TypeOK, control
<1>3. Serial' /\ Begun'
  BY DEF Inv, Serial, Begun, control
<1>4. Resizing'
  <2> SUFFICES ASSUME NEW w \in Writers
               PROVE  /\ pc[w] = "shrink" => active[w] > target[w]
                      /\ pc[w] \in {"grow", "shrink"} =>
                            /\ late => active_count' <= active[w]
                            /\ ~lost' => active_count' >= active[w]
                      /\ pc[w] = "commit" /\ late =>
                            /\ active_count' <= target[w]
                            /\ ~lost' => active_count' = target[w]
    BY DEF Resizing, control
  <2>1. active[w] \in Nat /\ target[w] \in Nat
    BY DEF Inv, TypeOK
  <2>2. late => startup = "running"
    BY DEF Inv, Begun
  <2> QED BY <1>1, <2>1, <2>2 DEF Inv, Resizing
<1>5. PoolFollowsWrites'
  <2>1. settled => startup = "running"
    BY DEF Inv, Begun
  <2>2. committed \in Nat
    BY DEF Inv, TypeOK
  <2> QED BY <1>1, <2>1, <2>2 DEF Inv, PoolFollowsWrites, control
<1> QED BY <1>2, <1>3, <1>4, <1>5 DEF Inv

\* The start of the phase, the ends of fibers and the reaping keep the invariant.
LEMMA InvPool ==
    ASSUME Inv,
           \/ RegisterApplier \/ BuildGovernor \/ SpawnInitial \/ ReapFinished
           \/ \E i \in DOMAIN fibers : FiberEnds(i)
    PROVE  Inv'
<1>0. /\ fibers \in Seq(Fiber) /\ Flagged /\ OldestStays /\ active_count \in Nat
      /\ lost \in BOOLEAN /\ seeding \in 0..Opening
  BY PoolShape DEF Inv, TypeOK
<1>1. CASE RegisterApplier
  <2>1. /\ UNCHANGED <<fibers, lost, seeding, control>> /\ startup = "attached"
        /\ startup' = "registered" /\ registered' = TRUE
    BY <1>1 DEF RegisterApplier
  <2>2. active_count' = active_count
    BY <2>1 DEF active_count, Unflagged
  <2>3. TypeOK'
    BY <2>1 DEF Inv, TypeOK, control
  <2>4. Serial' /\ Begun'
    BY <2>1 DEF Inv, Serial, Begun, control
  <2>5. Resizing' /\ Flagged' /\ OldestStays' /\ PoolFollowsWrites'
    BY <2>1, <2>2 DEF Inv, Resizing, Flagged, OldestStays, PoolFollowsWrites, control
  <2> QED BY <2>3, <2>4, <2>5 DEF Inv
<1>2. CASE BuildGovernor
  <2>1. /\ UNCHANGED <<fibers, registered, committed, lock, active, lost, late, settled>>
        /\ startup = "registered" /\ startup' = "seeding" /\ seeding' = Opening
    BY <1>2 DEF BuildGovernor
  <2>2. active_count' = active_count
    BY <2>1 DEF active_count, Unflagged
  <2>3. pc[Governor] = "idle" /\ registered
    BY <2>1 DEF Inv, Begun
  <2>4. /\ pc' \in [Writers -> {"idle", "waiting", "count", "grow", "shrink", "commit"}]
        /\ target' \in [Writers -> Nat \ {0}]
        /\ pc'[Governor] \in {"idle", "waiting"}
        /\ \A w \in Writers \ {Governor} : pc'[w] = pc[w] /\ target'[w] = target[w]
    <3>1. Governor \in Writers /\ Opening \in Nat \ {0}
      BY Constants DEF Writers
    <3>2. CASE Opening < Concurrency
      <4>1. pc' = [pc EXCEPT ![Governor] = "waiting"] /\ target' = [target EXCEPT ![Governor] = Opening]
        BY <1>2, <3>2 DEF BuildGovernor
      <4> QED BY <3>1, <4>1 DEF Inv, TypeOK
    <3>3. CASE ~(Opening < Concurrency)
      <4>1. pc' = pc /\ target' = target
        BY <1>2, <3>3 DEF BuildGovernor
      <4> QED BY <2>3, <4>1 DEF Inv, TypeOK
    <3> QED BY <3>2, <3>3
  <2>5. TypeOK'
    <3>1. \A w \in Writers : pc'[w] = "grow" => active'[w] < target'[w]
      BY <2>1, <2>4 DEF Inv, TypeOK
    <3>2. seeding' \in 0..Opening
      BY <2>1, Constants
    <3> QED BY <2>1, <2>4, <3>1, <3>2 DEF Inv, TypeOK
  <2>6. Serial' /\ Begun'
    <3>1. \A w \in Writers : pc'[w] \in Busy <=> pc[w] \in Busy
      BY <2>3, <2>4 DEF Busy
    <3> QED BY <2>1, <2>3, <3>1 DEF Inv, Serial, Begun
  <2>7. Resizing'
    BY <2>1, <2>2, <2>4 DEF Inv, Resizing
  <2>8. Flagged' /\ OldestStays' /\ PoolFollowsWrites'
    BY <2>1, <2>2 DEF Inv, Flagged, OldestStays, PoolFollowsWrites
  <2> QED BY <2>5, <2>6, <2>7, <2>8 DEF Inv
<1>3. CASE SpawnInitial
  <2>1. CASE seeding = 0
    <3>1. /\ UNCHANGED <<fibers, seeding, registered, control, lost>>
          /\ startup = "seeding" /\ startup' = "running"
      BY <1>3, <2>1 DEF SpawnInitial
    <3>2. active_count' = active_count
      BY <3>1 DEF active_count, Unflagged
    <3>3. TypeOK'
      BY <3>1 DEF Inv, TypeOK, control
    <3>4. Serial' /\ Begun'
      BY <3>1 DEF Inv, Serial, Begun, control
    <3>5. Resizing' /\ Flagged' /\ OldestStays' /\ PoolFollowsWrites'
      BY <3>1, <3>2 DEF Inv, Resizing, Flagged, OldestStays, PoolFollowsWrites, control
    <3> QED BY <3>3, <3>4, <3>5 DEF Inv
  <2>2. CASE seeding # 0
    <3>1. /\ fibers' = Append(fibers, New) /\ seeding' = seeding - 1 /\ startup = "seeding"
          /\ UNCHANGED <<startup, registered, control, lost>>
      BY <1>3, <2>2 DEF SpawnInitial
    <3>2. /\ fibers' \in Seq(Fiber) /\ active_count' = active_count + 1
          /\ Flagged' /\ OldestStays'
      BY <1>0, <3>1, Appended
    <3>3. seeding' \in 0..Opening /\ active_count' \in Nat /\ active_count' >= active_count
      BY <1>0, <2>2, <3>1, <3>2, Constants
    <3>4. lost' \in BOOLEAN /\ (~lost' => ~lost)
      BY <1>0, <3>1
    <3>5. startup # "running"
      BY <3>1
    <3> QED BY <3>1, <3>2, <3>3, <3>4, <3>5, VectorStep
  <2> QED BY <2>1, <2>2
<1>4. CASE ReapFinished
  <2>1. PICK from \in [1..Cardinality(Remaining) -> Remaining] :
           /\ \A j, k \in DOMAIN from : j < k => from[j] < from[k]
           /\ fibers' = [k \in DOMAIN from |-> fibers[from[k]]]
    BY <1>4 DEF ReapFinished
  <2>2. UNCHANGED <<startup, seeding, registered, control, lost>>
    BY <1>4 DEF ReapFinished
  <2>3. /\ fibers' \in Seq(Fiber) /\ active_count' \in Nat /\ active_count' <= active_count
        /\ ~lost => active_count' = active_count
        /\ Flagged' /\ OldestStays'
    BY <1>0, <2>1, <2>2, Reaped
  <2>4. lost' \in BOOLEAN /\ (~lost' => ~lost) /\ seeding' \in 0..Opening
        /\ (~lost' => active_count' >= active_count)
    BY <1>0, <2>2, <2>3
  <2> QED BY <2>2, <2>3, <2>4, VectorStep
<1>5. CASE \E i \in DOMAIN fibers : FiberEnds(i)
  <2>1. PICK i \in DOMAIN fibers : FiberEnds(i)
    BY <1>5
  <2>2. /\ fibers' = [fibers EXCEPT ![i].done = TRUE] /\ lost' = (lost \/ ~fibers[i].flag)
        /\ UNCHANGED <<startup, seeding, registered, control>>
    BY <2>1 DEF FiberEnds
  <2>3. /\ fibers' \in Seq(Fiber) /\ active_count' = active_count
        /\ Flagged' /\ OldestStays' /\ (~lost' => ~lost)
    BY <1>0, <2>2, Ended
  <2>4. lost' \in BOOLEAN
    BY <2>2
  <2>5. /\ active_count' \in Nat /\ active_count' <= active_count
        /\ active_count' >= active_count /\ seeding' \in 0..Opening
    BY <1>0, <2>2, <2>3
  <2> QED BY <2>2, <2>3, <2>4, <2>5, VectorStep
<1> QED BY <1>1, <1>2, <1>3, <1>4, <1>5

\* So does every step of a write.
LEMMA InvWrite ==
    ASSUME Inv, NEW w \in Writers, WriteStep(w) \/ (w \in Operators /\ CallSet(w))
    PROVE  Inv'
<1>0. /\ fibers \in Seq(Fiber) /\ Flagged /\ OldestStays /\ active_count \in Nat
      /\ lost \in BOOLEAN /\ late \in BOOLEAN /\ settled \in BOOLEAN
      /\ active[w] \in Nat /\ target[w] \in Nat \ {0}
      /\ None \notin Writers
  BY PoolShape, Constants DEF Inv, TypeOK
<1> USE DEF Busy
<1>1. CASE w \in Operators /\ CallSet(w)
  <2>1. /\ UNCHANGED <<fibers, startup, seeding, registered, committed, lock, active, lost, late,
                       settled>>
        /\ pc[w] = "idle" /\ pc' = [pc EXCEPT ![w] = "waiting"] /\ w # Governor
    BY <1>1, Constants DEF CallSet
  <2>2. PICK v \in Targets : target' = [target EXCEPT ![w] = v]
    BY <1>1 DEF CallSet
  <2>3. active_count' = active_count
    BY <2>1 DEF active_count, Unflagged
  <2>4. /\ pc'[w] = "waiting"
        /\ \A u \in Writers \ {w} : pc'[u] = pc[u] /\ target'[u] = target[u]
    BY <2>1, <2>2 DEF Inv, TypeOK
  <2>5. TypeOK'
    <3>1. target' \in [Writers -> Nat \ {0}]
      BY <2>2, Constants DEF Inv, TypeOK
    <3>2. \A u \in Writers : pc'[u] = "grow" => active'[u] < target'[u]
      BY <2>1, <2>4 DEF Inv, TypeOK
    <3> QED BY <2>1, <3>1, <3>2 DEF Inv, TypeOK
  <2>6. Serial' /\ Begun'
    BY <2>1, <2>4, Constants DEF Inv, Serial, Begun
  <2>7. Resizing'
    BY <2>1, <2>3, <2>4 DEF Inv, Resizing
  <2>8. Flagged' /\ OldestStays' /\ PoolFollowsWrites'
    BY <2>1, <2>3 DEF Inv, Flagged, OldestStays, PoolFollowsWrites
  <2> QED BY <2>5, <2>6, <2>7, <2>8 DEF Inv
<1>2. CASE Admit(w)
  <2>1. /\ UNCHANGED <<fibers, startup, seeding, registered, committed, target, active, lost,
                       settled>>
        /\ pc[w] = "waiting" /\ lock = None /\ lock' = w
        /\ pc' = [pc EXCEPT ![w] = IF registered THEN "count" ELSE "commit"]
        /\ late' = (startup = "running")
    BY <1>2 DEF Admit, Unlocked
  <2>2. active_count' = active_count
    BY <2>1 DEF active_count, Unflagged
  <2>3. /\ pc'[w] \in {"count", "commit"} /\ (registered => pc'[w] = "count")
        /\ \A u \in Writers \ {w} : pc'[u] = pc[u]
    BY <2>1 DEF Inv, TypeOK
  <2>4. \A u \in Writers \ {w} : pc'[u] \notin Busy
    BY <1>0, <2>1, <2>3 DEF Inv, Serial
  <2>5. TypeOK'
    <3>1. {lost', late', settled'} \subseteq BOOLEAN
      BY <1>0, <2>1
    <3>2. pc' \in [Writers -> {"idle", "waiting", "count", "grow", "shrink", "commit"}]
      BY <2>1 DEF Inv, TypeOK
    <3>3. \A u \in Writers : pc'[u] = "grow" => active'[u] < target'[u]
      BY <2>3, <2>4
    <3> QED BY <2>1, <3>1, <3>2, <3>3 DEF Inv, TypeOK
  <2>6. Serial' /\ Begun'
    <3>1. \A u \in Writers : pc'[u] \in Busy <=> lock' = u
      BY <2>1, <2>3, <2>4
    <3>2. settled => late'
      BY <2>1 DEF Inv, Begun
    <3>3. startup \in {"attached", "registered"} => w # Governor
      BY <2>1 DEF Inv, Begun
    <3> QED BY <1>0, <2>1, <2>3, <3>1, <3>2, <3>3, Constants DEF Inv, Serial, Begun
  <2>7. Resizing'
    <3>1. late' => registered
      BY <2>1 DEF Inv, Begun
    <3> QED BY <2>3, <2>4, <3>1 DEF Resizing
  <2>8. Flagged' /\ OldestStays' /\ PoolFollowsWrites'
    BY <1>0, <2>1 DEF Inv, Flagged, OldestStays, PoolFollowsWrites
  <2> QED BY <2>5, <2>6, <2>7, <2>8 DEF Inv
\* The writer under way holds the lock, and no other is under way.
<1>3. ASSUME pc[w] \in Busy
      PROVE  lock = w /\ lock # None /\ \A u \in Writers \ {w} : pc[u] \notin Busy
  BY <1>0, <1>3 DEF Inv, Serial
<1>4. CASE CountActive(w)
  <2>1. /\ UNCHANGED <<fibers, startup, seeding, registered, committed, lock, target, lost, late,
                       settled>>
        /\ pc[w] = "count" /\ active' = [active EXCEPT ![w] = active_count]
        /\ pc' = [pc EXCEPT ![w] = CASE target[w] = active_count -> "commit"
                                     [] target[w] > active_count -> "grow"
                                     [] OTHER -> "shrink"]
    BY <1>4 DEF CountActive
  <2>2. active_count' = active_count
    BY <2>1 DEF active_count, Unflagged
  <2>3. /\ active'[w] = active_count /\ pc'[w] \in {"commit", "grow", "shrink"}
        /\ pc'[w] = "commit" => target[w] = active_count
        /\ pc'[w] = "grow" => target[w] > active_count
        /\ pc'[w] = "shrink" => target[w] < active_count
        /\ \A u \in Writers \ {w} : pc'[u] = pc[u] /\ active'[u] = active[u]
    <3>1. active'[w] = active_count /\ \A u \in Writers \ {w} : pc'[u] = pc[u] /\ active'[u] = active[u]
      BY <2>1 DEF Inv, TypeOK
    <3>2. pc'[w] = CASE target[w] = active_count -> "commit"
                     [] target[w] > active_count -> "grow"
                     [] OTHER -> "shrink"
      BY <2>1 DEF Inv, TypeOK
    <3>3. CASE target[w] = active_count
      BY <1>0, <3>1, <3>2, <3>3
    <3>4. CASE target[w] > active_count
      BY <1>0, <3>1, <3>2, <3>4
    <3>5. CASE target[w] < active_count
      BY <1>0, <3>1, <3>2, <3>5
    <3> QED BY <1>0, <3>3, <3>4, <3>5
  <2>4. \A u \in Writers \ {w} : pc'[u] \notin Busy
    BY <1>3, <2>1, <2>3
  <2>5. TypeOK'
    <3>1. pc' \in [Writers -> {"idle", "waiting", "count", "grow", "shrink", "commit"}]
      <4>1. pc \in [Writers -> {"idle", "waiting", "count", "grow", "shrink", "commit"}]
        BY DEF Inv, TypeOK
      <4>2. PICK x : pc' = [pc EXCEPT ![w] = x]
        BY <2>1
      <4>3. x = pc'[w]
        BY <4>1, <4>2
      <4> QED BY <2>3, <4>1, <4>2, <4>3
    <3>2. active' \in [Writers -> Nat]
      BY <1>0, <2>1 DEF Inv, TypeOK
    <3>3. \A u \in Writers : pc'[u] = "grow" => active'[u] < target'[u]
      BY <1>0, <2>1, <2>3, <2>4
    <3> QED BY <2>1, <3>1, <3>2, <3>3 DEF Inv, TypeOK
  <2>6. Serial' /\ Begun'
    <3>1. \A u \in Writers : pc'[u] \in Busy <=> lock' = u
      BY <1>3, <2>1, <2>3, <2>4
    <3>2. startup \in {"attached", "registered"} => w # Governor
      BY <2>1 DEF Inv, Begun
    <3> QED BY <2>1, <2>3, <3>1, <3>2, Constants DEF Inv, Serial, Begun
  <2>7. Resizing'
    BY <1>0, <2>1, <2>2, <2>3, <2>4 DEF Resizing
  <2>8. Flagged' /\ OldestStays' /\ PoolFollowsWrites'
    BY <1>0, <2>1, <2>2 DEF Inv, Flagged, OldestStays, PoolFollowsWrites
  <2> QED BY <2>5, <2>6, <2>7, <2>8 DEF Inv
<1>5. CASE Grow(w)
  <2>1. /\ UNCHANGED <<startup, seeding, registered, committed, lock, target, lost, late, settled>>
        /\ pc[w] = "grow" /\ fibers' = Append(fibers, New)
        /\ active' = [active EXCEPT ![w] = active[w] + 1]
        /\ pc' = [pc EXCEPT ![w] = IF active[w] + 1 = target[w] THEN "commit" ELSE "grow"]
    BY <1>5 DEF Grow, Grown
  <2>2. /\ fibers' \in Seq(Fiber) /\ active_count' = active_count + 1
        /\ Flagged' /\ OldestStays'
    BY <1>0, <2>1, Appended
  <2>3. /\ active'[w] = active[w] + 1 /\ pc'[w] \in {"commit", "grow"}
        /\ (pc'[w] = "commit" <=> active[w] + 1 = target[w])
        /\ \A u \in Writers \ {w} : pc'[u] = pc[u] /\ active'[u] = active[u]
    BY <2>1 DEF Inv, TypeOK
  <2>4. \A u \in Writers \ {w} : pc'[u] \notin Busy
    BY <1>3, <2>1, <2>3
  <2>5. active[w] < target[w]
    BY <2>1 DEF Inv, TypeOK
  <2>6. TypeOK'
    <3>1. pc' \in [Writers -> {"idle", "waiting", "count", "grow", "shrink", "commit"}]
      BY <2>1 DEF Inv, TypeOK
    <3>2. active' \in [Writers -> Nat]
      BY <1>0, <2>1 DEF Inv, TypeOK
    <3>3. \A u \in Writers : pc'[u] = "grow" => active'[u] < target'[u]
      BY <1>0, <2>1, <2>3, <2>4, <2>5
    <3> QED BY <2>1, <2>2, <3>1, <3>2, <3>3 DEF Inv, TypeOK
  <2>7. Serial' /\ Begun'
    <3>1. \A u \in Writers : pc'[u] \in Busy <=> lock' = u
      BY <1>3, <2>1, <2>3, <2>4
    <3>2. startup \in {"attached", "registered"} => w # Governor
      BY <2>1 DEF Inv, Begun
    <3> QED BY <2>1, <2>3, <3>1, <3>2, Constants DEF Inv, Serial, Begun
  <2>8. Resizing'
    <3>1. (late => active_count <= active[w]) /\ (~lost => active_count >= active[w])
      BY <2>1 DEF Inv, Resizing
    <3> QED BY <1>0, <2>1, <2>2, <2>3, <2>4, <3>1 DEF Resizing
  <2>9. PoolFollowsWrites'
    BY <1>3, <2>1 DEF PoolFollowsWrites
  <2> QED BY <2>2, <2>6, <2>7, <2>8, <2>9 DEF Inv
<1>6. CASE Shrink(w)
  <2> DEFINE n == active[w] - target[w]
  <2>1. /\ UNCHANGED <<startup, seeding, registered, committed, lock, target, active, lost, late,
                       settled>>
        /\ pc[w] = "shrink" /\ pc' = [pc EXCEPT ![w] = "commit"]
        /\ fibers' = [i \in DOMAIN fibers |->
                        IF i \in Newest(n) THEN [fibers[i] EXCEPT !.flag = TRUE] ELSE fibers[i]]
    BY <1>6 DEF Shrink
  <2>2. /\ active[w] > target[w] /\ (late => active_count <= active[w])
        /\ (~lost => active_count >= active[w])
    BY <2>1 DEF Inv, Resizing
  <2>3. n \in Nat /\ (~lost => n < active_count)
    BY <1>0, <2>2
  <2> HIDE DEF n
  <2>4. /\ fibers' \in Seq(Fiber)
        /\ n <= active_count => active_count' = active_count - n
        /\ n > active_count => active_count' = 0
        /\ Flagged' /\ OldestStays'
    BY <1>0, <2>1, <2>3, Surplus
  <2>5. late => active_count' <= target[w] /\ (~lost => active_count' = target[w])
    BY <1>0, <2>2, <2>3, <2>4 DEF n
  <2>6. pc'[w] = "commit" /\ \A u \in Writers \ {w} : pc'[u] = pc[u]
    BY <2>1 DEF Inv, TypeOK
  <2>7. \A u \in Writers \ {w} : pc'[u] \notin Busy
    BY <1>3, <2>1, <2>6
  <2>8. TypeOK'
    <3>1. pc' \in [Writers -> {"idle", "waiting", "count", "grow", "shrink", "commit"}]
      BY <2>1 DEF Inv, TypeOK
    <3>2. \A u \in Writers : pc'[u] # "grow"
      BY <2>6, <2>7
    <3> QED BY <2>1, <2>4, <3>1, <3>2 DEF Inv, TypeOK
  <2>9. Serial' /\ Begun'
    <3>1. \A u \in Writers : pc'[u] \in Busy <=> lock' = u
      BY <1>3, <2>1, <2>6, <2>7
    <3>2. startup \in {"attached", "registered"} => w # Governor
      BY <2>1 DEF Inv, Begun
    <3> QED BY <2>1, <2>6, <3>1, <3>2, Constants DEF Inv, Serial, Begun
  <2>10. Resizing'
    BY <2>1, <2>5, <2>6, <2>7 DEF Resizing
  <2>11. PoolFollowsWrites'
    BY <1>3, <2>1 DEF PoolFollowsWrites
  <2> QED BY <2>4, <2>8, <2>9, <2>10, <2>11 DEF Inv
<1>7. CASE Commit(w)
  <2>1. /\ UNCHANGED <<fibers, startup, seeding, registered, lost>>
        /\ pc[w] = "commit" /\ committed' = target[w] /\ lock' = None
        /\ pc' = [pc EXCEPT ![w] = "idle"] /\ target' = [target EXCEPT ![w] = Concurrency]
        /\ active' = [active EXCEPT ![w] = 0]
        /\ settled' = (settled \/ late) /\ late' = FALSE
    BY <1>7 DEF Commit
  <2>2. active_count' = active_count
    BY <2>1 DEF active_count, Unflagged
  <2>3. pc'[w] = "idle" /\ \A u \in Writers \ {w} : pc'[u] = pc[u]
    BY <2>1 DEF Inv, TypeOK
  <2>4. \A u \in Writers : pc'[u] \notin Busy
    BY <1>3, <2>1, <2>3
  <2>5. TypeOK'
    <3>1. {lost', late', settled'} \subseteq BOOLEAN
      BY <1>0, <2>1
    <3>2. pc' \in [Writers -> {"idle", "waiting", "count", "grow", "shrink", "commit"}]
      BY <2>1 DEF Inv, TypeOK
    <3>3. /\ target' \in [Writers -> Nat \ {0}] /\ active' \in [Writers -> Nat]
          /\ committed' \in Nat \ {0}
      BY <1>0, <2>1, Constants DEF Inv, TypeOK
    <3>4. \A u \in Writers : pc'[u] # "grow"
      BY <2>4
    <3> QED BY <2>1, <3>1, <3>2, <3>3, <3>4 DEF Inv, TypeOK
  <2>6. settled' => late
    BY <1>3, <2>1 DEF Inv, Serial
  <2>7. Serial' /\ Begun'
    <3>1. \A u \in Writers : pc'[u] \in Busy <=> lock' = u
      BY <1>0, <2>1, <2>4
    <3>2. startup \in {"attached", "registered"} => pc'[Governor] = "idle"
      BY <2>3, Constants DEF Inv, Begun
    <3> QED BY <2>1, <2>6, <3>1, <3>2 DEF Inv, Serial, Begun
  <2>8. Resizing'
    BY <2>4 DEF Resizing
  <2>9. Flagged' /\ OldestStays'
    BY <1>0, <2>1 DEF Flagged, OldestStays
  <2>10. PoolFollowsWrites'
    BY <2>1, <2>2, <2>6 DEF Inv, Resizing, PoolFollowsWrites
  <2> QED BY <2>5, <2>7, <2>8, <2>9, <2>10 DEF Inv
<1> QED BY <1>1, <1>2, <1>4, <1>5, <1>6, <1>7 DEF WriteStep

\* Every step keeps the invariant.
LEMMA InvStep == Inv /\ [Next]_vars => Inv'
<1> SUFFICES ASSUME Inv, [Next]_vars PROVE Inv'
  OBVIOUS
<1>1. CASE Next
  <2>1. ASSUME NEW w \in Operators, CallSet(w) PROVE Inv'
    BY <2>1, InvWrite, Constants
  <2> QED BY <1>1, <2>1, InvWrite, InvPool DEF Next
<1>2. CASE UNCHANGED vars
  <2>1. active_count' = active_count
    BY <1>2 DEF vars, active_count, Unflagged
  <2>2. TypeOK' /\ Serial' /\ Begun'
    BY <1>2 DEF vars, Inv, TypeOK, Serial, Begun
  <2>3. Resizing' /\ Flagged' /\ OldestStays' /\ PoolFollowsWrites'
    BY <1>2, <2>1 DEF vars, Inv, Resizing, Flagged, OldestStays, PoolFollowsWrites
  <2> QED BY <2>2, <2>3 DEF Inv
<1> QED BY <1>1, <1>2

\* The invariant holds in every state.
LEMMA InvAlways == Spec => []Inv
BY InvInit, InvStep, PTL DEF Spec

\* Every state is within its types, and a resize starts no more fibers than its
\* target asks for.
THEOREM TypeCorrect == Spec => []TypeOK
<1>1. Inv => TypeOK
  BY DEF Inv
<1> QED BY <1>1, InvAlways, PTL

\* However writers, the governor's opening write, the start of the phase and the
\* reaping interleave, once a write has run its course on the running phase the
\* pool has as many active fibers as the control's value says.
THEOREM PoolFollows == Spec => []PoolFollowsWrites
<1>1. Inv => PoolFollowsWrites
  BY DEF Inv
<1> QED BY <1>1, InvAlways, PTL

\* No scale-down tells the pool's oldest fiber to leave.
THEOREM OldestIsKept == Spec => []OldestStays
<1>1. Inv => OldestStays
  BY DEF Inv
<1> QED BY <1>1, InvAlways, PTL
=============================================================================
