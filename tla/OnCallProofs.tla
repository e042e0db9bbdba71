---------------------------- MODULE OnCallProofs ----------------------------
(***************************************************************************)
(* Proofs about OnCall for any rotations, shifts, overrides and users, and  *)
(* any number of edits while a question is being answered.                  *)
(***************************************************************************)
EXTENDS OnCall, FiniteSetTheorems, WellFoundedInduction, TLAPS

-----------------------------------------------------------------------------
(* Numbers.                                                                 *)

\* A set of natural numbers that is not empty has a least element.
LEMMA LeastElement ==
  ASSUME NEW T \in SUBSET Nat, T # {}
  PROVE  \E m \in T : \A k \in T : m <= k
<1>1. PICK m \in T : \A k \in T : <<k, m>> \notin OpToRel(<, Nat)
  BY WFMin, NatLessThanWellFounded
<1>2. ASSUME NEW k \in T PROVE m <= k
  <2>1. k \in Nat /\ m \in Nat
    OBVIOUS
  <2>2. ~(k < m)
    BY <1>1, <2>1 DEF OpToRel
  <2>. QED  BY <2>1, <2>2
<1>. QED  BY <1>2

\* Induction along 0..n, said of sets.
LEMMA ClimbTo ==
  ASSUME NEW n \in Nat, NEW G, 0 \in G, \A i \in 1..n : i - 1 \in G => i \in G
  PROVE  \A i \in 0..n : i \in G
<1> DEFINE T == {i \in 0..n : i \notin G}
<1> SUFFICES ASSUME T # {} PROVE FALSE
  OBVIOUS
<1>1. PICK m \in T : \A k \in T : m <= k
  <2>1. T \in SUBSET Nat
    OBVIOUS
  <2> HIDE DEF T
  <2>. QED  BY <2>1, LeastElement
<1>2. m \in 1..n
  BY <1>1
<1>3. m - 1 \in 0..n /\ m - 1 < m
  BY <1>2
<1>4. m - 1 \in G
  BY <1>1, <1>3
<1>. QED  BY <1>1, <1>2, <1>4

\* A greater multiple is greater by a multiple.
LEMMA Multiples ==
  ASSUME NEW a \in Nat, NEW b \in Nat, NEW d \in Nat, a < b
  PROVE  a * d + d <= b * d
<1>1. \E c \in Nat : b = (a + 1) + c
  <2>1. b - (a + 1) \in Nat /\ b = (a + 1) + (b - (a + 1))
    OBVIOUS
  <2>. QED  BY <2>1
<1>2. PICK c \in Nat : b = (a + 1) + c
  BY <1>1
<1>3. b * d = (a * d + d) + c * d /\ c * d \in Nat /\ a * d \in Nat
  BY <1>2
<1>. QED  BY <1>3

\* Division by a number is what the code's integer division does: it finds the
\* multiple below.
LEMMA Quotient ==
  ASSUME NEW q \in Nat, NEW d \in Nat \ {0}, NEW e \in 0..(d - 1)
  PROVE  (q * d + e) \div d = q
<1> DEFINE a == q * d + e
<1> DEFINE w == a \div d
<1>1. q * d \in Nat /\ a \in Nat
  OBVIOUS
<1>2. w \in Nat /\ w * d <= a /\ a < w * d + d /\ w * d \in Nat
  <2>1. a = d * (a \div d) + (a % d) /\ a % d \in 0..(d - 1) /\ a \div d \in Int
    BY <1>1
  <2>2. w \in Nat
    BY <1>1
  <2>3. w * d = d * (a \div d) /\ w * d \in Nat
    BY <2>2
  <2>. QED  BY <1>1, <2>1, <2>2, <2>3
<1>3. ~(w < q)
  <2>1. w < q => w * d + d <= q * d
    BY <1>2, Multiples
  <2>. QED  BY <1>1, <1>2, <2>1
<1>4. ~(q < w)
  <2>1. q < w => q * d + d <= w * d
    BY <1>2, Multiples
  <2>. QED  BY <1>1, <1>2, <2>1
<1>5. w = q
  BY <1>2, <1>3, <1>4
<1>. QED  BY <1>5

\* Every number is a multiple and a rest.
LEMMA Division ==
  ASSUME NEW a \in Nat, NEW d \in Nat \ {0}
  PROVE  \E q \in Nat, e \in 0..(d - 1) : a = q * d + e /\ a \div d = q
<1>1. a = d * (a \div d) + (a % d) /\ a % d \in 0..(d - 1) /\ a \div d \in Nat
  OBVIOUS
<1>2. a = (a \div d) * d + (a % d)
  BY <1>1
<1>. QED  BY <1>1, <1>2

\* The turn after the last one is the first.
LEMMA NextTurn ==
  ASSUME NEW q \in Nat, NEW n \in Nat \ {0}
  PROVE  /\ q % n \in 0..(n - 1)
         /\ (q + 1) % n = IF (q % n) + 1 = n THEN 0 ELSE (q % n) + 1
<1>1. q % n \in 0..(n - 1) /\ (q + 1) % n \in 0..(n - 1)
  OBVIOUS
<1>2. PICK c \in Nat, e \in 0..(n - 1) : q = c * n + e /\ q \div n = c
  BY Division
<1>3. c * n \in Nat
  OBVIOUS
<1>4. q % n = e
  <2>1. q = n * (q \div n) + (q % n)
    OBVIOUS
  <2>2. n * (q \div n) = c * n
    BY <1>2
  <2>. QED  BY <1>1, <1>2, <1>3, <2>1, <2>2
<1>5. CASE e + 1 < n
  <2>1. q + 1 = c * n + (e + 1) /\ e + 1 \in 0..(n - 1)
    BY <1>2, <1>3, <1>5
  <2>2. (q + 1) \div n = c
    BY <2>1, Quotient
  <2>3. q + 1 = n * ((q + 1) \div n) + ((q + 1) % n)
    OBVIOUS
  <2>4. n * ((q + 1) \div n) = c * n
    BY <2>2
  <2>. QED  BY <1>1, <1>3, <1>4, <1>5, <2>1, <2>3, <2>4
<1>6. CASE e + 1 = n
  <2>1. q + 1 = (c + 1) * n + 0 /\ (c + 1) * n \in Nat
    BY <1>2, <1>3, <1>6
  <2>2. (q + 1) \div n = c + 1
    BY <2>1, Quotient
  <2>3. q + 1 = n * ((q + 1) \div n) + ((q + 1) % n)
    OBVIOUS
  <2>4. n * ((q + 1) \div n) = (c + 1) * n
    BY <2>2
  <2>. QED  BY <1>1, <1>4, <1>6, <2>1, <2>3, <2>4
<1>. QED  BY <1>2, <1>5, <1>6

-----------------------------------------------------------------------------
(* Ranks: how many of a finite set of numbers come before one of them.       *)

Before(S, p) == {q \in S : q < p}

Rank(S, p) == Cardinality(Before(S, p))

\* Ranks are counted from 0 and grow with the numbers.
LEMMA RankOrder ==
  ASSUME NEW S \in SUBSET Nat, IsFiniteSet(S), NEW p \in S
  PROVE  /\ Rank(S, p) \in 0..(Cardinality(S) - 1)
         /\ \A q \in S : p < q => Rank(S, p) < Rank(S, q)
<1>1. Cardinality(S) \in Nat /\ Before(S, p) \in SUBSET S
  BY FS_CardinalityType DEF Before
<1>2. IsFiniteSet(Before(S, p)) /\ Cardinality(Before(S, p)) \in Nat
  BY <1>1, FS_Subset, FS_CardinalityType
<1>3. Cardinality(Before(S, p)) < Cardinality(S)
  <2>1. Cardinality(Before(S, p)) <= Cardinality(S)
    BY <1>1, FS_Subset
  <2>2. Before(S, p) # S
    BY DEF Before
  <2>3. Cardinality(S) # Cardinality(Before(S, p))
    BY <1>1, <2>2, FS_Subset
  <2>. QED  BY <1>1, <1>2, <2>1, <2>3
<1>4. ASSUME NEW q \in S, p < q PROVE Rank(S, p) < Rank(S, q)
  <2>1. Before(S, q) \in SUBSET S
    BY DEF Before
  <2>2. IsFiniteSet(Before(S, q)) /\ Cardinality(Before(S, q)) \in Nat
    BY <2>1, FS_Subset, FS_CardinalityType
  <2>3. Before(S, p) \in SUBSET Before(S, q) /\ p \in Before(S, q) \ Before(S, p)
    <3>1. p \in Nat /\ q \in Nat /\ \A x \in S : x \in Nat
      OBVIOUS
    <3>2. \A x \in S : x < p => x < q
      BY <1>4, <3>1
    <3>3. ~(p < p)
      BY <3>1
    <3>. QED  BY <1>4, <3>2, <3>3 DEF Before
  <2>4. Cardinality(Before(S, p)) <= Cardinality(Before(S, q))
    BY <2>2, <2>3, FS_Subset
  <2>5. Cardinality(Before(S, q)) # Cardinality(Before(S, p))
    BY <2>2, <2>3, FS_Subset
  <2>. QED  BY <1>2, <2>2, <2>4, <2>5 DEF Rank
<1>. QED  BY <1>1, <1>2, <1>3, <1>4 DEF Rank

\* A rank belongs to one number only.
LEMMA RankIsUnique ==
  ASSUME NEW S \in SUBSET Nat, IsFiniteSet(S), NEW p \in S, NEW q \in S
  PROVE  Rank(S, p) = Rank(S, q) => p = q
<1>1. Rank(S, p) \in Nat /\ Rank(S, q) \in Nat /\ p \in Nat /\ q \in Nat
  <2>1. Cardinality(S) \in Nat
    BY FS_CardinalityType
  <2>. QED  BY <2>1, RankOrder
<1>2. p < q => Rank(S, p) < Rank(S, q)
  BY RankOrder
<1>3. q < p => Rank(S, q) < Rank(S, p)
  BY RankOrder
<1>. QED  BY <1>1, <1>2, <1>3

\* Every rank below the size of the set is somebody's.
LEMMA RankIsTaken ==
  ASSUME NEW S \in SUBSET Nat, IsFiniteSet(S), S # {}
  PROVE  \A k \in 0..(Cardinality(S) - 1) : \E p \in S : Rank(S, p) = k
<1> DEFINE G == {k \in Nat : \E p \in S : Rank(S, p) = k}
<1>1. Cardinality(S) \in Nat /\ Cardinality(S) # 0
  BY FS_CardinalityType, FS_EmptySet
<1>2. 0 \in G
  <2>1. PICK m \in S : \A k \in S : m <= k
    BY LeastElement
  <2>2. Before(S, m) = {}
    <3>1. \A k \in S : ~(k < m)
      BY <2>1
    <3>. QED  BY <3>1 DEF Before
  <2>. QED  BY <2>2, FS_EmptySet DEF Rank
<1>3. ASSUME NEW k \in 1..(Cardinality(S) - 1), k - 1 \in G PROVE k \in G
  <2>1. PICK p \in S : Rank(S, p) = k - 1
    BY <1>3
  <2>2. Before(S, p) \in SUBSET S /\ p \notin Before(S, p)
    BY DEF Before
  <2>3. IsFiniteSet(Before(S, p))
    BY <2>2, FS_Subset
  <2>4. Cardinality(Before(S, p) \cup {p}) = k
    <3>1. Cardinality(Before(S, p)) = k - 1 /\ k \in Nat
      BY <1>1, <1>3, <2>1 DEF Rank
    <3>2. Cardinality(Before(S, p) \cup {p}) = Cardinality(Before(S, p)) + 1
      BY <2>2, <2>3, FS_AddElement
    <3>. QED  BY <3>1, <3>2
  <2>5. \E q \in S : p < q
    <3>1. Before(S, p) \cup {p} # S
      BY <1>1, <1>3, <2>4
    <3>2. PICK q \in S : q \notin Before(S, p) \cup {p}
      BY <2>2, <3>1
    <3>. QED  BY <3>2 DEF Before
  <2>6. PICK q \in {x \in S : p < x} : \A x \in {y \in S : p < y} : q <= x
    BY <2>5, LeastElement
  <2>7. Before(S, q) = Before(S, p) \cup {p}
    <3>1. p \in Nat /\ q \in S /\ q \in Nat /\ p < q /\ \A x \in S : x \in Nat
      BY <2>6
    <3>2. \A x \in S : x < q <=> (x < p \/ x = p)
      BY <2>6, <3>1
    <3>. QED  BY <3>2 DEF Before
  <2>8. Rank(S, q) = k
    BY <2>4, <2>7 DEF Rank
  <2>. QED  BY <2>6, <2>8
<1> HIDE DEF G
<1>4. \A k \in 0..(Cardinality(S) - 1) : k \in G
  BY <1>1, <1>2, <1>3, ClimbTo
<1>. QED  BY <1>4 DEF G

-----------------------------------------------------------------------------
(* Shifts.                                                                  *)

\* The arithmetic of durations yields durations, and leaves alone what is one.
LEMMA WrapExact ==
  ASSUME NEW x \in Nat
  PROVE  Wrap(x) \in Int /\ (x <= MaxDuration => Wrap(x) = x)
<1> DEFINE m == 2 * (MaxDuration + 1)
<1> DEFINE y == x + MaxDuration + 1
<1>1. m \in Nat \ {0} /\ y \in Nat /\ MaxDuration \in Nat
  BY DurationAssumption
<1>2. y % m \in Nat
  BY <1>1
<1>3. ASSUME x <= MaxDuration PROVE y % m = y
  <2>1. y \in 0..(m - 1)
    BY <1>1, <1>3
  <2>2. (0 * m + y) \div m = 0 /\ 0 * m + y = y
    BY <1>1, <2>1, Quotient
  <2>3. y = m * (y \div m) + (y % m)
    BY <1>1
  <2>4. m * (y \div m) = 0
    BY <1>1, <2>2
  <2>. QED  BY <1>1, <1>2, <2>3, <2>4
<1>4. Wrap(x) = (y % m) - MaxDuration - 1
  BY DEF Wrap
<1> HIDE DEF m
<1>. QED  BY <1>1, <1>2, <1>3, <1>4

\* A shift has a length, and participants have finitely many positions.
LEMMA ShiftTypes ==
  ASSUME NEW r \in Rotation
  PROVE  /\ Asked(r) \in Nat /\ ShiftDuration(r) \in Int /\ Start[r] \in Nat
         /\ \A t \in Nat : t >= Start[r] => Elapsed(r, t) \in Nat
         /\ Taken(r) \in SUBSET Nat /\ Taken(r) \subseteq Position /\ IsFiniteSet(Taken(r))
<1>1. Length[r] \in Nat /\ Start[r] \in Nat /\ Day \in Nat /\ Hour \in Nat
  BY RotationAssumption, TimeAssumption
<1>2. /\ Length[r] * Day \in Nat /\ Length[r] * 7 \in Nat /\ Length[r] * 7 * Day \in Nat
      /\ Length[r] * Hour \in Nat
  BY <1>1
<1>3. Length[r] * Day * Hour \in Nat /\ Length[r] * 7 * Day * Hour \in Nat
  BY <1>1, <1>2
<1>4. Asked(r) \in Nat
  BY <1>2, <1>3 DEF Asked
<1>5. ShiftDuration(r) \in Int
  BY <1>4, WrapExact DEF ShiftDuration
<1>6. ASSUME NEW t \in Nat, t >= Start[r] PROVE Elapsed(r, t) \in Nat
  BY <1>1, <1>6, DurationAssumption DEF Elapsed
<1>7. Taken(r) \in SUBSET Position
  BY DEF Taken
<1>8. IsFiniteSet(Taken(r))
  BY <1>7, PositionAssumption, FS_Subset
<1>. QED  BY <1>1, <1>4, <1>5, <1>6, <1>7, <1>8, PositionAssumption

\* As long as the end of the next shift can be told, durations are exact.
LEMMA Exact ==
  ASSUME NEW r \in Rotation, NEW t \in Nat, Turning(r, t),
         t - Start[r] + Asked(r) <= MaxDuration
  PROVE  /\ ShiftDuration(r) = Asked(r)
         /\ \A x \in Nat : Start[r] <= x /\ x <= t + Asked(r) =>
              Elapsed(r, x) = x - Start[r] /\ Runs(r, x)
<1>1. /\ Asked(r) \in Nat \ {0} /\ Start[r] \in Nat /\ t - Start[r] \in Nat
      /\ MaxDuration \in Nat
  BY ShiftTypes, DurationAssumption DEF Turning
<1>2. ShiftDuration(r) = Asked(r)
  BY <1>1, WrapExact DEF ShiftDuration
<1>3. ASSUME NEW x \in Nat, Start[r] <= x, x <= t + Asked(r)
      PROVE  Elapsed(r, x) = x - Start[r] /\ Runs(r, x)
  <2>1. Elapsed(r, x) = x - Start[r]
    BY <1>1, <1>3 DEF Elapsed
  <2>2. Runs(r, x)
    BY <1>1, <1>2, <1>3 DEF Runs, Turning
  <2>. QED  BY <2>1, <2>2
<1>. QED  BY <1>2, <1>3

\* The participant whose turn it is, and nobody else, is on shift.
LEMMA OnShiftIs ==
  ASSUME NEW r \in Rotation, NEW t, NEW p \in Taken(r), Turn(r, p) = Index(r, t)
  PROVE  OnShift(r, t) = {parts[r][p]}
<1>1. ASSUME NEW q \in Taken(r), Turn(r, q) = Index(r, t) PROVE q = p
  <2>1. Rank(Taken(r), q) = Rank(Taken(r), p)
    BY <1>1 DEF Turn, Rank, Before
  <2>. QED  BY <2>1, ShiftTypes, RankIsUnique
<1>. QED  BY <1>1 DEF OnShift

\* Every turn is somebody's.
LEMMA TurnIsTaken ==
  ASSUME NEW r \in Rotation, Taken(r) # {}
  PROVE  /\ Cardinality(Taken(r)) \in Nat \ {0}
         /\ \A k \in 0..(Cardinality(Taken(r)) - 1) : \E p \in Taken(r) : Turn(r, p) = k
<1>1. Cardinality(Taken(r)) \in Nat /\ Cardinality(Taken(r)) # 0
  BY ShiftTypes, FS_CardinalityType, FS_EmptySet
<1>2. ASSUME NEW k \in 0..(Cardinality(Taken(r)) - 1) PROVE \E p \in Taken(r) : Turn(r, p) = k
  <2>1. \E p \in Taken(r) : Rank(Taken(r), p) = k
    BY ShiftTypes, RankIsTaken
  <2>. QED  BY <2>1 DEF Rank, Before, Turn
<1>. QED  BY <1>1, <1>2

\* A rotation that runs has somebody on shift.
LEMMA SomebodyIsOnShift ==
  ASSUME NEW r \in Rotation, NEW t \in Nat, Runs(r, t)
  PROVE  \E p \in Taken(r) : Turn(r, p) = Index(r, t) /\ OnShift(r, t) = {parts[r][p]}
<1> DEFINE d == ShiftDuration(r)
<1> DEFINE n == Cardinality(Taken(r))
<1>1. d \in Nat \ {0} /\ n \in Nat \ {0} /\ Elapsed(r, t) \in Nat
  BY ShiftTypes, TurnIsTaken DEF Runs
<1>2. Elapsed(r, t) \div d \in Nat
  BY <1>1
<1>3. Index(r, t) \in 0..(n - 1)
  BY <1>1, <1>2, NextTurn DEF Index
<1>4. PICK p \in Taken(r) : Turn(r, p) = Index(r, t)
  BY <1>3, TurnIsTaken DEF Runs
<1>. QED  BY <1>4, OnShiftIs

\* Turns follow one another by the shift: the next one comes one shift later,
\* all of a shift is one turn, and the rotation starts with the first.
LEMMA IndexSteps ==
  ASSUME NEW r \in Rotation, NEW t \in Nat, Turning(r, t),
         t - Start[r] + Asked(r) <= MaxDuration
  PROVE  LET d   == Asked(r)
             n   == Cardinality(Taken(r))
             at0 == Start[r] + ((t - Start[r]) \div d) * d
         IN /\ Index(r, t) \in 0..(n - 1)
            /\ Index(r, t + d) = IF Index(r, t) + 1 = n THEN 0 ELSE Index(r, t) + 1
            /\ Index(r, at0) = Index(r, t)
            /\ Index(r, Start[r]) = 0
            /\ Runs(r, t) /\ Runs(r, t + d) /\ Runs(r, at0) /\ Runs(r, Start[r])
<1> DEFINE d == Asked(r)
<1> DEFINE n == Cardinality(Taken(r))
<1>1. d \in Nat \ {0} /\ n \in Nat \ {0} /\ Start[r] \in Nat /\ t - Start[r] \in Nat
  BY ShiftTypes, TurnIsTaken DEF Turning
<1>2. PICK q \in Nat, e \in 0..(d - 1) :
        t - Start[r] = q * d + e /\ (t - Start[r]) \div d = q
  BY <1>1, Division
<1>3. q * d \in Nat /\ (q + 1) * d = q * d + d
  BY <1>1
<1>4. /\ ShiftDuration(r) = d
      /\ \A x \in Nat : Start[r] <= x /\ x <= t + d => Elapsed(r, x) = x - Start[r] /\ Runs(r, x)
  BY Exact
<1> HIDE DEF d
<1>5. /\ t + d \in Nat /\ Start[r] + q * d \in Nat
      /\ Start[r] <= t /\ t <= t + d /\ Start[r] <= t + d
      /\ Start[r] <= Start[r] + q * d /\ Start[r] + q * d <= t + d
  BY <1>1, <1>2, <1>3
<1>6. /\ Elapsed(r, t) = t - Start[r]
      /\ Elapsed(r, t + d) = (t + d) - Start[r]
      /\ Elapsed(r, Start[r] + q * d) = (Start[r] + q * d) - Start[r]
      /\ Elapsed(r, Start[r]) = Start[r] - Start[r]
      /\ Runs(r, t) /\ Runs(r, t + d) /\ Runs(r, Start[r] + q * d) /\ Runs(r, Start[r])
  <2>1. t + d <= t + d /\ Start[r] <= Start[r]
    BY <1>1, <1>5
  <2>. QED  BY <1>1, <1>4, <1>5, <2>1
<1>7. Index(r, t) = q % n
  BY <1>2, <1>4, <1>6 DEF Index
<1>8. Index(r, t + d) = (q + 1) % n
  <2>1. (t + d) - Start[r] = (q + 1) * d + e
    <3>1. (t + d) - Start[r] = (t - Start[r]) + d
      BY <1>1
    <3>2. e \in Nat
      BY <1>1
    <3>3. (q * d + e) + d = (q * d + d) + e
      BY <1>1, <1>3, <3>2
    <3>. QED  BY <1>2, <1>3, <3>1, <3>3
  <2>2. q + 1 \in Nat /\ ((q + 1) * d + e) \div d = q + 1
    <3>1. q + 1 \in Nat
      OBVIOUS
    <3>. QED  BY <1>1, <3>1, Quotient
  <2>. QED  BY <1>4, <1>6, <2>1, <2>2 DEF Index
<1>9. Index(r, Start[r] + q * d) = q % n
  <2>1. (Start[r] + q * d) - Start[r] = q * d + 0 /\ 0 \in 0..(d - 1)
    BY <1>1, <1>3
  <2>2. (q * d + 0) \div d = q
    BY <1>1, <2>1, Quotient
  <2>. QED  BY <1>4, <1>6, <2>1, <2>2 DEF Index
<1>10. Index(r, Start[r]) = 0
  <2>1. Start[r] - Start[r] = 0 * d + 0 /\ 0 \in 0..(d - 1)
    BY <1>1
  <2>2. (0 * d + 0) \div d = 0
    BY <1>1, <2>1, Quotient
  <2>3. 0 % n = 0
    BY <1>1
  <2>. QED  BY <1>4, <1>6, <2>1, <2>2, <2>3 DEF Index
<1>11. /\ q % n \in 0..(n - 1)
       /\ (q + 1) % n = IF (q % n) + 1 = n THEN 0 ELSE (q % n) + 1
  BY <1>1, NextTurn
<1>12. Start[r] + ((t - Start[r]) \div d) * d = Start[r] + q * d
  BY <1>2
<1>13. /\ Index(r, t) \in 0..(n - 1)
       /\ Index(r, t + d) = IF Index(r, t) + 1 = n THEN 0 ELSE Index(r, t) + 1
       /\ Index(r, Start[r] + ((t - Start[r]) \div d) * d) = Index(r, t)
       /\ Index(r, Start[r]) = 0
       /\ Runs(r, t) /\ Runs(r, t + d)
       /\ Runs(r, Start[r] + ((t - Start[r]) \div d) * d) /\ Runs(r, Start[r])
  <2> HIDE DEF n
  <2>. QED  BY <1>6, <1>7, <1>8, <1>9, <1>10, <1>11, <1>12
<1>. QED  BY <1>13 DEF d

\* Positions come in the order of their turns, and the last is followed by the
\* first.
Follows(r, p, q) ==
  \/ p < q /\ \A x \in Taken(r) : x <= p \/ x >= q
  \/ \A x \in Taken(r) : q <= x /\ x <= p

\* Whose turn is next is the next one by position.
LEMMA NextByPosition ==
  ASSUME NEW r \in Rotation, NEW p \in Taken(r), NEW q \in Taken(r),
         Turn(r, q) = IF Turn(r, p) + 1 = Cardinality(Taken(r)) THEN 0 ELSE Turn(r, p) + 1
  PROVE  Follows(r, p, q)
<1> DEFINE n == Cardinality(Taken(r))
<1>1. /\ n \in Nat \ {0}
      /\ \A x \in Taken(r) : x \in Nat /\ Turn(r, x) \in 0..(n - 1)
      /\ \A x, y \in Taken(r) : x < y => Turn(r, x) < Turn(r, y)
  <2>1. n \in Nat \ {0} /\ Taken(r) \in SUBSET Nat
    BY ShiftTypes, TurnIsTaken
  <2>2. ASSUME NEW x \in Taken(r)
        PROVE  /\ Turn(r, x) \in 0..(n - 1)
               /\ \A y \in Taken(r) : x < y => Turn(r, x) < Turn(r, y)
    <3>1. /\ Rank(Taken(r), x) \in 0..(n - 1)
          /\ \A y \in Taken(r) : x < y => Rank(Taken(r), x) < Rank(Taken(r), y)
      BY <2>1, ShiftTypes, RankOrder
    <3>. QED  BY <3>1 DEF Turn, Rank, Before
  <2>. QED  BY <2>1, <2>2
<1> HIDE DEF n
<1>2. CASE Turn(r, p) + 1 = n
  <2>1. Turn(r, q) = 0
    BY <1>2 DEF n
  <2>2. ASSUME NEW x \in Taken(r) PROVE q <= x /\ x <= p
    <3>1. ~(x < q)
      BY <1>1, <2>1
    <3>2. ~(p < x)
      BY <1>1, <1>2
    <3>. QED  BY <1>1, <3>1, <3>2
  <2>. QED  BY <2>2 DEF Follows
<1>3. CASE Turn(r, p) + 1 # n
  <2>1. Turn(r, q) = Turn(r, p) + 1
    BY <1>3 DEF n
  <2>2. p < q
    <3>1. ~(q < p) /\ p # q
      BY <1>1, <2>1
    <3>. QED  BY <1>1, <3>1
  <2>3. ASSUME NEW x \in Taken(r) PROVE x <= p \/ x >= q
    <3>1. ~(p < x /\ x < q)
      BY <1>1, <2>1
    <3>. QED  BY <1>1, <3>1
  <2>. QED  BY <2>2, <2>3 DEF Follows
<1>. QED  BY <1>2, <1>3

\* Shifts are taken in turn whatever participants a rotation has.
LEMMA TakenInTurn ==
  ASSUME NEW r \in Rotation, NEW t \in Nat, Turning(r, t),
         t - Start[r] + Asked(r) <= MaxDuration
  PROVE  TakenInOrder(r, t)
<1> DEFINE d   == Asked(r)
<1> DEFINE n   == Cardinality(Taken(r))
<1> DEFINE at0 == Start[r] + ((t - Start[r]) \div d) * d
<1>1. Taken(r) # {}
  BY DEF Turning
<1>2. n \in Nat \ {0} /\ \A k \in 0..(n - 1) : \E p \in Taken(r) : Turn(r, p) = k
  BY <1>1, TurnIsTaken
<1>3. /\ Index(r, t) \in 0..(n - 1)
      /\ Index(r, t + d) = IF Index(r, t) + 1 = n THEN 0 ELSE Index(r, t) + 1
      /\ Index(r, at0) = Index(r, t)
      /\ Index(r, Start[r]) = 0
      /\ Runs(r, t) /\ Runs(r, t + d) /\ Runs(r, at0) /\ Runs(r, Start[r])
  BY IndexSteps
<1> HIDE DEF d, n, at0
<1>4. PICK p \in Taken(r) : Turn(r, p) = Index(r, t)
  BY <1>2, <1>3
<1>5. Index(r, t + d) \in 0..(n - 1)
  BY <1>2, <1>3
<1>6. PICK q \in Taken(r) : Turn(r, q) = Index(r, t + d)
  BY <1>2, <1>5
<1>7. Follows(r, p, q)
  BY <1>3, <1>4, <1>6, NextByPosition DEF n
<1>8. /\ OnShifts(r, t) = {parts[r][p]} /\ OnShifts(r, t + d) = {parts[r][q]}
      /\ OnShifts(r, at0) = {parts[r][p]}
  BY <1>3, <1>4, <1>6, OnShiftIs DEF OnShifts
<1>9. OnShifts(r, Start[r]) =
        {parts[r][x] : x \in {y \in Taken(r) : \A z \in Taken(r) : y <= z}}
  <2>1. PICK f \in Taken(r) : \A x \in Taken(r) : f <= x
    BY <1>1, ShiftTypes, LeastElement
  <2>2. \A x \in Taken(r) : x \in Nat
    BY ShiftTypes
  <2>3. Turn(r, f) = 0
    <3>1. {x \in Taken(r) : x < f} = {}
      BY <2>1, <2>2
    <3>. QED  BY <3>1, FS_EmptySet DEF Turn
  <2>4. OnShifts(r, Start[r]) = {parts[r][f]}
    BY <1>3, <2>3, OnShiftIs DEF OnShifts
  <2>5. {y \in Taken(r) : \A z \in Taken(r) : y <= z} = {f}
    BY <2>1, <2>2
  <2>. QED  BY <2>4, <2>5
<1>. QED  BY <1>7, <1>8, <1>9 DEF d, at0, Follows, TakenInOrder

-----------------------------------------------------------------------------
(* Overrides.                                                               *)

\* ReplaceAll goes through the overrides one after the other: the recursion in
\* its definition has a solution.
LEMMA ReplaceAllSteps ==
  ASSUME NEW S, NEW n \in Nat, NEW f, DOMAIN f = 1..n
  PROVE  \E after :
           /\ after[0] = S
           /\ \A i \in 1..n : after[i] = Replace(after[i - 1], f[i])
           /\ ReplaceAll(S, f) = after[n]
<1> DEFINE D(g, m) == g = [i \in 0..m |-> IF i = 0 THEN S ELSE Replace(g[i - 1], f[i])]
<1> DEFINE G == {m \in Nat : \E g : D(g, m)}
<1>1. 0 \in G
  <2>1. D([i \in 0..0 |-> S], 0)
    OBVIOUS
  <2>. QED  BY <2>1
<1>2. ASSUME NEW m \in 1..n, m - 1 \in G PROVE m \in G
  <2>1. PICK g : D(g, m - 1)
    BY <1>2
  <2> DEFINE h == [i \in 0..m |-> IF i = 0 THEN S ELSE Replace(g[i - 1], f[i])]
  <2>2. ASSUME NEW i \in 1..m PROVE h[i - 1] = g[i - 1]
    <3>1. i - 1 \in 0..m /\ i - 1 \in 0..(m - 1)
      OBVIOUS
    <3>2. h[i - 1] = IF i - 1 = 0 THEN S ELSE Replace(g[(i - 1) - 1], f[i - 1])
      BY <3>1
    <3>3. g[i - 1] = IF i - 1 = 0 THEN S ELSE Replace(g[(i - 1) - 1], f[i - 1])
      BY <2>1, <3>1
    <3>. QED  BY <3>2, <3>3
  <2>3. \A i \in 0..m : (IF i = 0 THEN S ELSE Replace(g[i - 1], f[i]))
                        = (IF i = 0 THEN S ELSE Replace(h[i - 1], f[i]))
    <3> HIDE DEF h
    <3>. QED  BY <2>2
  <2>4. D(h, m)
    <3>1. h = [i \in 0..m |-> IF i = 0 THEN S ELSE Replace(g[i - 1], f[i])]
      OBVIOUS
    <3> HIDE DEF h
    <3>. QED  BY <2>3, <3>1
  <2>5. m \in Nat
    OBVIOUS
  <2> HIDE DEF D, h
  <2>. QED  BY <2>4, <2>5
<1>3. \E g : D(g, n)
  <2> HIDE DEF D
  <2>1. \A m \in 0..n : m \in G
    <3> HIDE DEF G
    <3>. QED  BY <1>1, <1>2, ClimbTo
  <2>. QED  BY <2>1
<1>4. D(CHOOSE g : D(g, n), n)
  <2> HIDE DEF D
  <2>. QED  BY <1>3
<1>5. Cardinality(DOMAIN f) = n
  BY FS_Interval
<1>6. ReplaceAll(S, f) = (CHOOSE g : D(g, n))[n]
  BY <1>5 DEF ReplaceAll
<1>7. ASSUME NEW a, D(a, n)
      PROVE  a[0] = S /\ \A i \in 1..n : a[i] = Replace(a[i - 1], f[i])
  <2>1. \A i \in 0..n : a[i] = IF i = 0 THEN S ELSE Replace(a[i - 1], f[i])
    BY <1>7
  <2>. QED  BY <2>1
<1> HIDE DEF D
<1>. QED  BY <1>4, <1>6, <1>7

\* Finitely many overrides are in force.
LEMMA ActiveIsFinite ==
  ASSUME NEW t
  PROVE  IsFiniteSet(Active(t))
<1>1. Active(t) \in SUBSET Override
  BY DEF Active
<1>. QED  BY <1>1, OverrideAssumption, FS_Subset

\* Every override in force has its place in the order.
LEMMA OrdersCover ==
  ASSUME NEW t, NEW f \in Orders(Active(t)), NEW o \in Active(t)
  PROVE  \E i \in 1..Cardinality(Active(t)) : f[i] = o
<1> DEFINE A == Active(t)
<1> DEFINE n == Cardinality(A)
<1> SUFFICES ASSUME \A i \in 1..n : f[i] # o PROVE FALSE
  OBVIOUS
<1>1. n \in Nat /\ f \in [1..n -> A] /\ \A i, j \in 1..n : i < j => f[i] # f[j]
  BY ActiveIsFinite, FS_CardinalityType DEF Orders
<1>2. IsFiniteSet(A \ {o}) /\ Cardinality(A \ {o}) = n - 1
  BY ActiveIsFinite, FS_RemoveElement
<1>3. f \in Injection(1..n, A \ {o})
  <2>1. f \in [1..n -> A \ {o}]
    BY <1>1
  <2>2. ASSUME NEW i \in 1..n, NEW j \in 1..n, f[i] = f[j] PROVE i = j
    BY <1>1, <2>2
  <2> HIDE DEF n, A
  <2>. QED  BY <2>1, <2>2 DEF Injection, IsInjective
<1>4. IsFiniteSet(1..n) /\ Cardinality(1..n) = n
  BY <1>1, FS_Interval
<1>5. Cardinality(1..n) <= Cardinality(A \ {o})
  BY <1>2, <1>3, <1>4, FS_Injection
<1>. QED  BY <1>1, <1>2, <1>4, <1>5

\* The overrides put in only those who take over, and never leave nobody; one
\* that starts after all others in force takes out whom it replaces.
LEMMA Overridden ==
  ASSUME NEW S, NEW t, NEW f \in Orders(Active(t))
  PROVE  /\ ReplaceAll(S, f) \subseteq S \cup TakingOver(t)
         /\ S # {} => ReplaceAll(S, f) # {}
         /\ \A o \in Override :
              /\ o \in Active(t) /\ \A p \in Active(t) \ {o} : From[p] < From[o]
              /\ over[o].replace # over[o].by
              => over[o].replace \notin ReplaceAll(S, f)
<1> DEFINE n == Cardinality(Active(t))
<1>1. n \in Nat /\ f \in [1..n -> Active(t)]
  BY ActiveIsFinite, FS_CardinalityType DEF Orders
<1>2. PICK after :
        /\ after[0] = S
        /\ \A i \in 1..n : after[i] = Replace(after[i - 1], f[i])
        /\ ReplaceAll(S, f) = after[n]
  BY <1>1, ReplaceAllSteps
<1>3. n \in 0..n
  BY <1>1
<1>4. ReplaceAll(S, f) \subseteq S \cup TakingOver(t)
  <2> DEFINE G == {i \in 0..n : after[i] \subseteq S \cup TakingOver(t)}
  <2>1. 0 \in G
    BY <1>1, <1>2
  <2>2. ASSUME NEW i \in 1..n, i - 1 \in G PROVE i \in G
    <3>1. f[i] \in Active(t) /\ after[i] = Replace(after[i - 1], f[i])
      BY <1>1, <1>2
    <3>2. over[f[i]].by \in TakingOver(t)
      BY <3>1 DEF TakingOver
    <3>3. after[i] \subseteq after[i - 1] \cup {over[f[i]].by}
      BY <3>1 DEF Replace
    <3>. QED  BY <1>1, <2>2, <3>2, <3>3
  <2> HIDE DEF G
  <2>3. n \in G
    BY <1>1, <1>3, <2>1, <2>2, ClimbTo
  <2>. QED  BY <1>2, <2>3 DEF G
<1>5. ASSUME S # {} PROVE ReplaceAll(S, f) # {}
  <2> DEFINE G == {i \in 0..n : after[i] # {}}
  <2>1. 0 \in G
    BY <1>1, <1>2, <1>5
  <2>2. ASSUME NEW i \in 1..n, i - 1 \in G PROVE i \in G
    <3>1. after[i] = Replace(after[i - 1], f[i])
      BY <1>2
    <3>2. PICK x : x \in after[i - 1]
      BY <2>2
    <3>3. x \in after[i] \/ over[f[i]].by \in after[i]
      BY <3>1, <3>2 DEF Replace
    <3>4. after[i] # {}
      BY <3>3
    <3>. QED  BY <1>1, <3>4
  <2> HIDE DEF G
  <2>3. n \in G
    BY <1>1, <1>3, <2>1, <2>2, ClimbTo
  <2>. QED  BY <1>2, <2>3 DEF G
<1>6. ASSUME NEW o \in Override, o \in Active(t),
             \A p \in Active(t) \ {o} : From[p] < From[o], over[o].replace # over[o].by
      PROVE  over[o].replace \notin ReplaceAll(S, f)
  <2>1. n # 0 /\ n \in 1..n
    <3>1. n # 0
      BY <1>6, ActiveIsFinite, FS_EmptySet
    <3>. QED  BY <1>1, <3>1
  <2>2. \A i \in 1..n : f[i] = o => i = n
    <3>1. ASSUME NEW i \in 1..n, f[i] = o, i # n PROVE FALSE
      <4>1. i < n
        BY <1>1, <3>1
      <4>2. f[i] # f[n] /\ From[f[i]] <= From[f[n]]
        BY <1>1, <2>1, <3>1, <4>1 DEF Orders
      <4>3. f[n] \in Active(t) \ {o} /\ From[f[n]] \in Nat /\ From[o] \in Nat
        BY <1>1, <2>1, <3>1, <4>2, OverrideAssumption DEF Active
      <4>. QED  BY <1>6, <3>1, <4>2, <4>3
    <3>. QED  BY <3>1
  <2>3. f[n] = o
    <3>1. PICK i \in 1..n : f[i] = o
      BY <1>6, OrdersCover
    <3>. QED  BY <2>2, <3>1
  <2>4. ReplaceAll(S, f) = Replace(after[n - 1], o)
    BY <1>2, <2>1, <2>3
  <2>. QED  BY <1>6, <2>4 DEF Replace
<1>. QED  BY <1>4, <1>5, <1>6

-----------------------------------------------------------------------------
(* The inductive invariant.                                                 *)

\* Rows name rows that are there.
RowsOK ==
  /\ users \subseteq User /\ exists \in BOOLEAN
  /\ rots \subseteq Rotation /\ (rots # {} => exists)
  /\ parts \in [Rotation -> [Position -> users \cup {NULL}]]
  /\ \A r \in Rotation : Taken(r) # {} => r \in rots
  /\ over \in [Override -> [replace : users, by : users] \cup {NULL}]

CallOK ==
  /\ pc \in {"idle", "rotations", "participants", "overrides", "users", "done", "error"}
  /\ at \in Nat /\ todo \subseteq Rotation
  /\ found \subseteq User /\ fetch \subseteq found

\* What the history of a call says of the rows as they are, and of its answer.
Witnessed ==
  pc # "idle" =>
    /\ covered \subseteq rots /\ \A r \in covered : Runs(r, at)
    /\ \A s \in standing : s.id \in Override /\ over[s.id] = s.swap
    /\ \A r \in rots : OnShifts(r, at) \subseteq reasons
    /\ TakingOver(at) \subseteq reasons
    /\ found \subseteq reasons /\ found \subseteq users \cup lost

\* A standing override that was the last was applied.
Applied ==
  \A s \in standing :
    /\ s.swap # NULL /\ InForce(s.id, at)
    /\ \A p \in Override \ {s.id} : InForce(p, at) =>
         [id |-> p, swap |-> NULL] \in standing \/ From[p] < From[s.id]
    /\ s.swap.replace # s.swap.by
    => s.swap.replace \notin found

\* How far the answer is.
Progress ==
  /\ pc \in {"idle", "rotations"} => found = {}
  /\ pc = "participants" => \A r \in covered : r \in todo \/ found # {}
  /\ pc \in {"overrides", "users", "done"} => covered = {} \/ found # {}
  /\ pc \in {"users", "done"} => Applied
  /\ pc = "error" => failed \/ lost # {}

IInv == RowsOK /\ CallOK /\ Witnessed /\ Progress

\* What is computed from the rows stays as long as the rows and the time do.
LEMMA RowsStay ==
  ASSUME UNCHANGED tables
  PROVE  /\ RowsOK => RowsOK'
         /\ \A r : Taken(r)' = Taken(r)
         /\ \A r, t : (Runs(r, t)' <=> Runs(r, t)) /\ OnShifts(r, t)' = OnShifts(r, t)
         /\ \A t : TakingOver(t)' = TakingOver(t)
<1>1. UNCHANGED <<users, exists, rots, parts, over>>
  BY DEF tables
<1>2. \A r : Taken(r)' = Taken(r)
  BY <1>1 DEF Taken
<1>3. RowsOK => RowsOK'
  BY <1>1, <1>2 DEF RowsOK
<1>4. ASSUME NEW r, NEW t
      PROVE  (Runs(r, t)' <=> Runs(r, t)) /\ OnShifts(r, t)' = OnShifts(r, t)
  <2>1. Runs(r, t)' <=> Runs(r, t)
    BY <1>2 DEF Runs, ShiftDuration, Asked, Wrap
  <2>2. OnShift(r, t)' = OnShift(r, t)
    BY <1>1, <1>2 DEF OnShift, Turn, Index, Elapsed, ShiftDuration, Asked, Wrap
  <2>. QED  BY <2>1, <2>2 DEF OnShifts
<1>5. \A t : TakingOver(t)' = TakingOver(t)
  BY <1>1 DEF TakingOver, Active, InForce
<1>. QED  BY <1>2, <1>3, <1>4, <1>5

\* Whoever is on shift or takes over is a user there is.
LEMMA AnswersAreUsers ==
  ASSUME RowsOK, NEW t
  PROVE  /\ \A r \in Rotation : OnShifts(r, t) \subseteq users
         /\ TakingOver(t) \subseteq users
<1>1. ASSUME NEW r \in Rotation PROVE OnShifts(r, t) \subseteq users
  <2>1. \A p \in Taken(r) : parts[r][p] \in users
    BY DEF Taken, RowsOK
  <2>. QED  BY <2>1 DEF OnShifts, OnShift
<1>2. TakingOver(t) \subseteq users
  <2>1. \A o \in Active(t) : over[o] \in [replace : users, by : users]
    BY DEF Active, RowsOK
  <2>. QED  BY <2>1 DEF TakingOver
<1>. QED  BY <1>1, <1>2

-----------------------------------------------------------------------------
(* Edits.                                                                   *)

\* Every edit keeps the foreign keys; deleting a user takes along every row
\* that names the user.
LEMMA EditKeepsRows == ASSUME RowsOK, Edit PROVE RowsOK'
<1>1. ASSUME NEW r \in Rotation, CreateRotation(r) PROVE RowsOK'
  <2>1. UNCHANGED <<users, exists, parts, over>> /\ rots' = rots \cup {r} /\ exists
    BY <1>1 DEF CreateRotation
  <2>2. \A q : Taken(q)' = Taken(q)
    BY <2>1 DEF Taken
  <2>. QED  BY <2>1, <2>2 DEF RowsOK
<1>2. ASSUME NEW r \in Rotation, DeleteRotation(r) PROVE RowsOK'
  <2>1. /\ UNCHANGED <<users, exists, over>> /\ rots' = rots \ {r}
        /\ parts' = [parts EXCEPT ![r] = [p \in Position |-> NULL]]
    BY <1>2 DEF DeleteRotation
  <2>2. parts' \in [Rotation -> [Position -> users \cup {NULL}]]
    BY <2>1 DEF RowsOK
  <2>3. ASSUME NEW q \in Rotation, Taken(q)' # {} PROVE q \in rots'
    <3>1. q # r
      BY <2>1, <2>3 DEF Taken, RowsOK
    <3>2. Taken(q)' = Taken(q)
      BY <2>1, <3>1 DEF Taken, RowsOK
    <3>. QED  BY <2>1, <2>3, <3>1, <3>2 DEF RowsOK
  <2>. QED  BY <2>1, <2>2, <2>3 DEF RowsOK
<1>3. ASSUME NEW r \in Rotation, NEW p \in Position, NEW u \in users \cup {NULL}, r \in rots,
             parts' = [parts EXCEPT ![r][p] = u], UNCHANGED <<users, exists, rots, over>>
      PROVE  RowsOK'
  <2>1. parts' \in [Rotation -> [Position -> users \cup {NULL}]]
    BY <1>3 DEF RowsOK
  <2>2. ASSUME NEW q \in Rotation, Taken(q)' # {} PROVE q \in rots
    <3>1. q # r => Taken(q)' = Taken(q)
      BY <1>3 DEF Taken, RowsOK
    <3>. QED  BY <1>3, <2>2, <3>1 DEF RowsOK
  <2>. QED  BY <1>3, <2>1, <2>2 DEF RowsOK
<1>4. ASSUME NEW r \in Rotation, NEW p \in Position, NEW u \in User, CreateParticipant(r, p, u)
      PROVE  RowsOK'
  BY <1>3, <1>4 DEF CreateParticipant
<1>5. ASSUME NEW r \in Rotation, NEW p \in Position, DeleteParticipant(r, p) PROVE RowsOK'
  <2>1. r \in rots
    BY <1>5 DEF DeleteParticipant, RowsOK, Taken
  <2>. QED  BY <1>3, <1>5, <2>1 DEF DeleteParticipant
<1>6. ASSUME NEW o \in Override, DeleteOverride(o) \/ \E s \in Swap : CreateOverride(o, s)
      PROVE  RowsOK'
  <2>1. PICK v \in [replace : users, by : users] \cup {NULL} :
          over' = [over EXCEPT ![o] = v] /\ UNCHANGED <<users, exists, rots, parts>>
    BY <1>6 DEF DeleteOverride, CreateOverride, Swap
  <2>2. \A q : Taken(q)' = Taken(q)
    BY <2>1 DEF Taken
  <2>. QED  BY <2>1, <2>2 DEF RowsOK
<1>7. ASSUME NEW u \in User, DeleteUser(u) PROVE RowsOK'
  <2>1. /\ UNCHANGED <<exists, rots>> /\ users' = users \ {u}
        /\ parts' = [r \in Rotation |-> [p \in Position |->
                       IF parts[r][p] = u THEN NULL ELSE parts[r][p]]]
        /\ over' = [o \in Override |->
                      IF over[o] # NULL /\ u \in {over[o].replace, over[o].by}
                      THEN NULL ELSE over[o]]
    BY <1>7 DEF DeleteUser
  <2>2. parts' \in [Rotation -> [Position -> users' \cup {NULL}]]
    BY <2>1 DEF RowsOK
  <2>3. over' \in [Override -> [replace : users', by : users'] \cup {NULL}]
    <3>1. ASSUME NEW o \in Override PROVE over'[o] \in [replace : users', by : users'] \cup {NULL}
      BY <2>1 DEF RowsOK
    <3>2. DOMAIN over' = Override /\ over' = [o \in Override |-> over'[o]]
      BY <2>1
    <3>. QED  BY <3>1, <3>2
  <2>4. ASSUME NEW q \in Rotation PROVE Taken(q)' \subseteq Taken(q)
    BY <2>1 DEF Taken
  <2>. QED  BY <2>1, <2>2, <2>3, <2>4 DEF RowsOK
<1>8. CASE DeleteSchedule
  <2>1. /\ users' = users /\ exists' = FALSE /\ rots' = {}
        /\ parts' = [r \in Rotation |-> [p \in Position |-> NULL]]
        /\ over' = [o \in Override |-> NULL]
    BY <1>8 DEF DeleteSchedule
  <2>2. \A q \in Rotation : Taken(q)' = {}
    BY <2>1 DEF Taken
  <2>. QED  BY <2>1, <2>2 DEF RowsOK
<1>. QED  BY <1>1, <1>2, <1>4, <1>5, <1>6, <1>7, <1>8 DEF Edit

\* An edit during a call leaves less that was there all along, and more reasons.
LEMMA ObserveMeans ==
  ASSUME Calling, Observe
  PROVE  /\ covered' \subseteq covered /\ covered' \subseteq rots'
         /\ \A r \in covered' : Runs(r, at)'
         /\ standing' \subseteq standing /\ \A s \in standing' : over'[s.id] = s.swap
         /\ reasons \subseteq reasons' /\ TakingOver(at)' \subseteq reasons'
         /\ \A r \in rots' : OnShifts(r, at)' \subseteq reasons'
         /\ lost \subseteq lost' /\ users \subseteq users' \cup lost'
         /\ failed' = failed
<1>1. /\ covered' = {r \in covered : r \in rots' /\ Runs(r, at)'}
      /\ standing' = {s \in standing : over'[s.id] = s.swap}
      /\ reasons' = reasons \cup (UNION {OnShifts(r, at) : r \in rots})' \cup TakingOver(at)'
      /\ lost' = lost \cup (users \ users')
      /\ failed' = failed
  BY DEF Observe
<1>2. \A r \in rots' : OnShifts(r, at)' \subseteq reasons'
  BY <1>1
<1>. QED  BY <1>1, <1>2

\* An edit keeps what is known of the call it falls into.
LEMMA EditIInv == ASSUME IInv, Edit PROVE IInv'
<1>1. RowsOK'
  BY EditKeepsRows DEF IInv
<1>2. /\ UNCHANGED <<pc, at, todo, found, fetch>> /\ pc \notin {"done", "error"} /\ Observe
  BY DEF Edit, resolver
<1>3. CallOK'
  BY <1>2 DEF IInv, CallOK
<1>4. CASE ~Calling
  <2>1. pc = "idle"
    BY <1>2, <1>4 DEF Calling, IInv, CallOK
  <2>. QED  BY <1>1, <1>2, <1>3, <2>1 DEF IInv, Witnessed, Progress
<1>5. CASE Calling
  <2>1. /\ covered' \subseteq covered /\ covered' \subseteq rots'
        /\ \A r \in covered' : Runs(r, at)'
        /\ standing' \subseteq standing /\ \A s \in standing' : over'[s.id] = s.swap
        /\ reasons \subseteq reasons' /\ TakingOver(at)' \subseteq reasons'
        /\ \A r \in rots' : OnShifts(r, at)' \subseteq reasons'
        /\ lost \subseteq lost' /\ users \subseteq users' \cup lost'
        /\ failed' = failed
    BY <1>2, <1>5, ObserveMeans
  <2>2. pc # "idle"
    BY <1>5 DEF Calling
  <2>3. Witnessed'
    BY <1>2, <2>1, <2>2 DEF IInv, Witnessed
  <2>4. Applied => Applied'
    <3>1. \A o : InForce(o, at)' <=> InForce(o, at)
      BY <1>2 DEF InForce
    <3>. QED  BY <1>2, <2>1, <3>1 DEF Applied
  <2>5. Progress'
    BY <1>2, <2>1, <2>4 DEF IInv, Progress
  <2>. QED  BY <1>1, <1>3, <2>3, <2>5 DEF IInv
<1>. QED  BY <1>4, <1>5

-----------------------------------------------------------------------------
(* The steps of a call.                                                     *)

\* When the question comes in, what there is has been there all along.
LEMMA AskIInv == ASSUME IInv, NEW t \in Time, Ask(t) PROVE IInv'
<1>1. /\ pc = "idle" /\ pc' = "rotations" /\ at' = t
      /\ covered' = {r \in rots : Runs(r, t)}
      /\ standing' = {[id |-> o, swap |-> over[o]] : o \in Override}
      /\ reasons' = (UNION {OnShifts(r, t) : r \in rots}) \cup TakingOver(t)
      /\ UNCHANGED <<tables, todo, found, fetch, edits, failed, lost>>
  BY DEF Ask
<1>2. /\ RowsOK' /\ rots' = rots /\ over' = over
      /\ \A r : (Runs(r, t)' <=> Runs(r, t)) /\ OnShifts(r, t)' = OnShifts(r, t)
      /\ TakingOver(t)' = TakingOver(t)
  BY <1>1, RowsStay DEF IInv, tables
<1>3. found' = {}
  BY <1>1 DEF IInv, Progress
<1>4. CallOK'
  BY <1>1, TimeAssumption DEF IInv, CallOK
<1>5. Witnessed'
  <2>1. \A r \in covered' : Runs(r, t)'
    BY <1>1, <1>2
  <2>2. \A r \in rots' : OnShifts(r, t)' \subseteq reasons'
    BY <1>1, <1>2
  <2>3. TakingOver(t)' \subseteq reasons'
    <3>1. TakingOver(t) \subseteq reasons'
      BY <1>1
    <3>2. TakingOver(t)' = TakingOver(t)
      BY <1>2
    <3>. QED  BY <3>1, <3>2
  <2>4. \A s \in standing' : s.id \in Override /\ over'[s.id] = s.swap
    BY <1>1, <1>2
  <2>5. \A r : (Runs(r, at)' <=> Runs(r, t)') /\ OnShifts(r, at)' = OnShifts(r, t)'
    BY <1>1 DEF OnShifts, OnShift, Runs, Index, Elapsed
  <2>6. TakingOver(at)' = TakingOver(t)'
    BY <1>1 DEF TakingOver, Active, InForce
  <2>. QED  BY <1>1, <1>2, <1>3, <2>1, <2>2, <2>3, <2>4, <2>5, <2>6 DEF Witnessed
<1>6. Progress'
  BY <1>1, <1>3 DEF Progress
<1>. QED  BY <1>2, <1>4, <1>5, <1>6 DEF IInv

\* Steps of a call that leave the history alone: what is known of the rows stays.
LEMMA CallKeeps ==
  ASSUME IInv, pc # "idle", UNCHANGED <<tables, at, history>>
  PROVE  /\ RowsOK'
         /\ covered' \subseteq rots' /\ \A r \in covered' : Runs(r, at)'
         /\ \A s \in standing' : s.id \in Override /\ over'[s.id] = s.swap
         /\ \A r \in rots' : OnShifts(r, at)' \subseteq reasons'
         /\ TakingOver(at)' \subseteq reasons'
         /\ users' \cup lost' = users \cup lost
<1>1. UNCHANGED <<users, rots, over, at, covered, standing, reasons, lost>>
  BY DEF tables, history
<1>2. /\ RowsOK' /\ TakingOver(at)' = TakingOver(at)
      /\ \A r : (Runs(r, at)' <=> Runs(r, at)) /\ OnShifts(r, at)' = OnShifts(r, at)
  <2>1. /\ RowsOK' /\ \A t : TakingOver(t)' = TakingOver(t)
        /\ \A r, t : (Runs(r, t)' <=> Runs(r, t)) /\ OnShifts(r, t)' = OnShifts(r, t)
    BY RowsStay DEF IInv
  <2>2. \A r : (Runs(r, at)' <=> Runs(r, at)) /\ OnShifts(r, at)' = OnShifts(r, at)
    BY <1>1, <2>1 DEF OnShifts, OnShift, Runs, Index, Elapsed
  <2>3. TakingOver(at)' = TakingOver(at)
    BY <1>1, <2>1 DEF TakingOver, Active, InForce
  <2>. QED  BY <2>1, <2>2, <2>3
<1>. QED  BY <1>1, <1>2 DEF IInv, Witnessed

\* A rotation that runs has started, so its participants will be read.
LEMMA ListRotationsIInv == ASSUME IInv, ListRotations PROVE IInv'
<1>1. /\ pc = "rotations" /\ todo' = {r \in rots : at >= Start[r]}
      /\ pc' = IF todo' = {} THEN "overrides" ELSE "participants"
      /\ UNCHANGED <<tables, at, found, fetch, history>>
  BY DEF ListRotations
<1>2. found = {} /\ UNCHANGED covered
  BY <1>1 DEF IInv, Progress, history
<1>3. covered \subseteq todo'
  BY <1>1 DEF IInv, Witnessed, Runs
<1>4. CallOK'
  BY <1>1 DEF IInv, CallOK, RowsOK
<1>5. Witnessed' /\ RowsOK'
  BY <1>1, <1>2, CallKeeps DEF Witnessed
<1>6. Progress'
  BY <1>1, <1>2, <1>3 DEF Progress
<1>. QED  BY <1>4, <1>5, <1>6 DEF IInv

\* A rotation that ran all along puts somebody into the answer.
LEMMA ListParticipantsIInv ==
  ASSUME IInv, NEW r \in Rotation, ListParticipants(r) PROVE IInv'
<1>1. /\ pc = "participants" /\ r \in todo /\ todo' = todo \ {r}
      /\ found' = found \cup OnShifts(r, at)
      /\ pc' = IF todo' = {} THEN "overrides" ELSE "participants"
      /\ UNCHANGED <<tables, at, fetch, history>>
  BY DEF ListParticipants
<1>2. /\ RowsOK' /\ OnShifts(r, at) \subseteq users /\ UNCHANGED covered
      /\ users' = users /\ reasons' = reasons /\ lost' = lost
  BY <1>1, CallKeeps, AnswersAreUsers DEF IInv, history, tables
<1>3. OnShifts(r, at) \subseteq reasons
  <2>1. CASE r \in rots
    BY <1>1, <2>1 DEF IInv, Witnessed
  <2>2. CASE r \notin rots
    BY <2>2 DEF IInv, RowsOK, OnShifts, Runs
  <2>. QED  BY <2>1, <2>2
<1>4. r \in covered => found' # {}
  <2>1. ASSUME r \in covered PROVE OnShifts(r, at) # {}
    <3>1. Runs(r, at) /\ at \in Nat
      BY <1>1, <2>1 DEF IInv, Witnessed, CallOK
    <3>2. OnShift(r, at) # {}
      BY <3>1, SomebodyIsOnShift
    <3>. QED  BY <3>1, <3>2 DEF OnShifts
  <2>. QED  BY <1>1, <2>1
<1>5. CallOK'
  BY <1>1, <1>2 DEF IInv, CallOK, RowsOK
<1>6. Witnessed'
  <2>1. found' \subseteq reasons' /\ found' \subseteq users' \cup lost'
    BY <1>1, <1>2, <1>3 DEF IInv, Witnessed
  <2>. QED  BY <1>1, <2>1, CallKeeps DEF Witnessed
<1>7. Progress'
  BY <1>1, <1>2, <1>4 DEF IInv, Progress
<1>. QED  BY <1>2, <1>5, <1>6, <1>7 DEF IInv

\* The overrides in force keep the answer from becoming empty, bring in only who
\* takes over, and one that stood and is the last takes effect.
LEMMA ListActiveOverridesIInv == ASSUME IInv, ListActiveOverrides PROVE IInv'
<1>1. /\ pc = "overrides" /\ fetch' = found'
      /\ pc' = IF found' = {} THEN "done" ELSE "users"
      /\ UNCHANGED <<tables, at, todo, history>>
      /\ \E f \in Orders(Active(at)) : found' = ReplaceAll(found, f)
  BY DEF ListActiveOverrides
<1>2. PICK f \in Orders(Active(at)) : found' = ReplaceAll(found, f)
  BY <1>1
<1>3. /\ found' \subseteq found \cup TakingOver(at)
      /\ found # {} => found' # {}
      /\ \A o \in Override :
           /\ o \in Active(at) /\ \A p \in Active(at) \ {o} : From[p] < From[o]
           /\ over[o].replace # over[o].by
           => over[o].replace \notin found'
  BY <1>2, Overridden
<1>4. /\ TakingOver(at) \subseteq users /\ TakingOver(at) \subseteq reasons
      /\ users' = users /\ reasons' = reasons /\ lost' = lost /\ users \subseteq User
      /\ covered' = covered /\ standing' = standing
  BY <1>1, AnswersAreUsers DEF IInv, Witnessed, RowsOK, history, tables
<1>5. found' \subseteq reasons' /\ found' \subseteq users' \cup lost' /\ found' \subseteq User
  BY <1>1, <1>3, <1>4 DEF IInv, Witnessed, CallOK
<1>6. CallOK'
  BY <1>1, <1>5 DEF IInv, CallOK
<1>7. Witnessed' /\ RowsOK'
  BY <1>1, <1>5, CallKeeps DEF Witnessed
<1>8. Applied'
  <2>1. ASSUME NEW s \in standing, s.swap # NULL, InForce(s.id, at),
               \A p \in Override \ {s.id} : InForce(p, at) =>
                 [id |-> p, swap |-> NULL] \in standing \/ From[p] < From[s.id],
               s.swap.replace # s.swap.by
        PROVE  s.swap.replace \notin found'
    <3>1. s.id \in Override /\ over[s.id] = s.swap
      BY <1>1 DEF IInv, Witnessed
    <3>2. ASSUME NEW o \in Active(at) \ {s.id} PROVE From[o] < From[s.id]
      <4>1. o \in Override \ {s.id} /\ over[o] # NULL /\ InForce(o, at)
        BY DEF Active
      <4>2. ASSUME [id |-> o, swap |-> NULL] \in standing PROVE FALSE
        <5>1. over[[id |-> o, swap |-> NULL].id] = [id |-> o, swap |-> NULL].swap
          BY <1>1, <4>2 DEF IInv, Witnessed
        <5>. QED  BY <4>1, <5>1
      <4>. QED  BY <2>1, <4>1, <4>2
    <3>3. s.id \in Active(at)
      BY <2>1, <3>1 DEF Active
    <3>. QED  BY <1>3, <2>1, <3>1, <3>2, <3>3
  <2>2. \A o : InForce(o, at)' <=> InForce(o, at)
    BY <1>1 DEF InForce
  <2>. QED  BY <1>4, <2>1, <2>2 DEF Applied
<1>9. Progress'
  BY <1>1, <1>3, <1>4, <1>8 DEF IInv, Progress
<1>. QED  BY <1>6, <1>7, <1>9 DEF IInv

\* The users of the answer are there, or were deleted during the call.
LEMMA GetUserIInv == ASSUME IInv, NEW u \in User, GetUser(u) PROVE IInv'
<1>1. /\ pc = "users" /\ u \in fetch /\ fetch' = fetch \ {u}
      /\ pc' = IF u \notin users THEN "error" ELSE IF fetch' = {} THEN "done" ELSE "users"
      /\ UNCHANGED <<tables, at, todo, found, history>>
  BY DEF GetUser
<1>2. UNCHANGED <<covered, standing, reasons, lost, failed>>
  BY <1>1 DEF history
<1>3. CallOK'
  BY <1>1 DEF IInv, CallOK
<1>4. Witnessed' /\ RowsOK'
  <2>1. found' \subseteq reasons' /\ found' \subseteq users \cup lost
    BY <1>1, <1>2 DEF IInv, Witnessed
  <2>. QED  BY <1>1, <2>1, CallKeeps DEF Witnessed
<1>5. u \notin users => lost # {}
  BY <1>1 DEF IInv, Witnessed, CallOK
<1>6. Applied'
  <2>1. Applied /\ \A o : InForce(o, at)' <=> InForce(o, at)
    BY <1>1 DEF IInv, Progress, InForce
  <2>. QED  BY <1>1, <1>2, <2>1 DEF Applied
<1>7. Progress'
  BY <1>1, <1>2, <1>5, <1>6 DEF IInv, Progress
<1>. QED  BY <1>3, <1>4, <1>7 DEF IInv

\* A query that fails is the cause of the error.
LEMMA QueryFailsIInv == ASSUME IInv, QueryFails PROVE IInv'
<1>1. /\ pc # "idle" /\ pc' = "error" /\ failed'
      /\ UNCHANGED <<tables, at, todo, found, fetch, edits, covered, standing, reasons, lost>>
  BY Zenon DEF QueryFails, Calling
<1>2. CallOK'
  BY <1>1 DEF IInv, CallOK
<1>3. Witnessed' /\ RowsOK'
  <2>1. UNCHANGED <<users, rots, over>>
    BY <1>1 DEF tables
  <2>2. /\ RowsOK' /\ \A t : TakingOver(t)' = TakingOver(t)
        /\ \A r, t : (Runs(r, t)' <=> Runs(r, t)) /\ OnShifts(r, t)' = OnShifts(r, t)
    BY <1>1, RowsStay DEF IInv
  <2>3. \A r : (Runs(r, at)' <=> Runs(r, at)) /\ OnShifts(r, at)' = OnShifts(r, at)
    BY <1>1, <2>2 DEF OnShifts, OnShift, Runs, Index, Elapsed
  <2>4. TakingOver(at)' = TakingOver(at)
    BY <1>1, <2>2 DEF TakingOver, Active, InForce
  <2>. QED  BY <1>1, <2>1, <2>2, <2>3, <2>4 DEF IInv, Witnessed
<1>4. Progress'
  BY <1>1 DEF Progress
<1>. QED  BY <1>2, <1>3, <1>4 DEF IInv

\* The next question starts from nothing.
LEMMA ReturnIInv == ASSUME IInv, Return PROVE IInv'
<1>1. /\ pc' = "idle" /\ at' = 0 /\ todo' = {} /\ found' = {} /\ fetch' = {}
      /\ UNCHANGED tables
  BY DEF Return
<1>2. RowsOK'
  BY <1>1, RowsStay DEF IInv
<1>. QED  BY <1>1, <1>2 DEF IInv, CallOK, Witnessed, Progress

-----------------------------------------------------------------------------

\* The inductive invariant holds of an empty schedule.
LEMMA InitIInv == Init => IInv
<1> SUFFICES ASSUME Init PROVE IInv
  OBVIOUS
<1>1. \A r \in Rotation : Taken(r) = {}
  BY DEF Init, Taken
<1>2. RowsOK
  BY <1>1 DEF Init, RowsOK
<1>. QED  BY <1>2 DEF Init, IInv, CallOK, Witnessed, Progress

\* Every edit and every step of a call keeps the inductive invariant.
LEMMA NextIInv == IInv /\ [Next]_vars => IInv'
<1> SUFFICES ASSUME IInv, [Next]_vars PROVE IInv'
  OBVIOUS
<1>1. CASE Edit
  BY <1>1, EditIInv
<1>2. CASE Resolve
  BY <1>2, AskIInv, ListRotationsIInv, ListParticipantsIInv, ListActiveOverridesIInv,
     GetUserIInv, QueryFailsIInv, ReturnIInv DEF Resolve
<1>3. CASE UNCHANGED vars
  <2>1. /\ UNCHANGED <<tables, at, history>> /\ UNCHANGED <<pc, todo, found, fetch>>
        /\ UNCHANGED <<covered, standing, reasons, lost, failed, users>>
    BY <1>3 DEF vars, resolver, history, tables
  <2>2. RowsOK'
    BY <2>1, RowsStay DEF IInv
  <2>3. CallOK'
    BY <2>1 DEF IInv, CallOK
  <2>4. Witnessed'
    BY <2>1, CallKeeps DEF IInv, Witnessed
  <2>5. Applied => Applied'
    <3>1. \A o : InForce(o, at)' <=> InForce(o, at)
      BY <2>1 DEF InForce
    <3>. QED  BY <2>1, <3>1 DEF Applied
  <2>6. Progress'
    BY <2>1, <2>5 DEF IInv, Progress
  <2>. QED  BY <2>2, <2>3, <2>4, <2>6 DEF IInv
<1>. QED  BY <1>1, <1>2, <1>3 DEF Next

\* The inductive invariant: the rows, the call, its history and its progress.
THEOREM Invariance == Spec => []IInv
<1>. QED  BY InitIInv, NextIInv, PTL DEF Spec

\* Type correctness: in particular every edit keeps the foreign keys.
THEOREM TypeCorrect == Spec => []TypeOK
<1>1. IInv => TypeOK
  BY DEF IInv, RowsOK, CallOK, TypeOK
<1>. QED  BY <1>1, Invariance, PTL

\* The rotation arithmetic of the resolver is right for every number of
\* participants, at any positions, for every start and shift length whose
\* durations can be told.
THEOREM ShiftsAlwaysInTurn == Spec => []ShiftsInTurn
<1>1. IInv => ShiftsInTurn
  <2> SUFFICES ASSUME IInv, NEW r \in rots, NEW t \in Time,
                      Turning(r, t), t - Start[r] + Asked(r) <= MaxDuration
               PROVE  TakenInOrder(r, t)
    BY DEF ShiftsInTurn
  <2>1. r \in Rotation /\ t \in Nat
    BY TimeAssumption DEF IInv, RowsOK
  <2>. QED  BY <2>1, TakenInTurn
<1>. QED  BY <1>1, Invariance, PTL

\* A schedule with somebody on shift all along is never answered with nobody.
THEOREM SomebodyAlwaysAnswers == Spec => []SomebodyAnswers
<1>1. IInv => SomebodyAnswers
  BY DEF IInv, Progress, SomebodyAnswers
<1>. QED  BY <1>1, Invariance, PTL

\* A call fails only for a query that failed or a user who was deleted.
THEOREM ErrorsHaveACause == Spec => []ErrorHasCause
<1>1. IInv => ErrorHasCause
  BY DEF IInv, Progress, ErrorHasCause
<1>. QED  BY <1>1, Invariance, PTL

\* Nobody is in the answer whom no moment of the call puts on call.
THEOREM EverybodyAlwaysHasAReason == Spec => []EverybodyHasAReason
<1>1. IInv => EverybodyHasAReason
  BY DEF IInv, Witnessed, EverybodyHasAReason
<1>. QED  BY <1>1, Invariance, PTL

\* An override that stood and starts after all others in force takes out whom it
\* replaces, for any rotations and any other overrides.
THEOREM StandingOverridesHold == Spec => []StandingOverrideHolds
<1>1. IInv => StandingOverrideHolds
  BY DEF IInv, Progress, Applied, StandingOverrideHolds
<1>. QED  BY <1>1, Invariance, PTL
=============================================================================
