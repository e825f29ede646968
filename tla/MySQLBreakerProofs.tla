------------------------- MODULE MySQLBreakerProofs -------------------------
(***************************************************************************)
(* What the circuit breaker promises, for any number of workers, any       *)
(* cooldowns and any number of failures, outages and cancelled calls.      *)
(***************************************************************************)
EXTENDS MySQLBreaker, FiniteSetTheorems, TLAPS

-----------------------------------------------------------------------------
(* Induction over the naturals, for sets instead of predicates. *)

\* Initial segments are finite sets, and those are well founded.
LEMMA LeastNumber ==
    ASSUME NEW T \in SUBSET Nat, T # {}
    PROVE  \E m \in T : \A k \in T : m <= k
<1>. DEFINE U == {0..n : n \in T}
            R == StrictSubsetOrdering(Nat)
<1>1. \A n \in Nat : 0..n \in FiniteSubsetsOf(Nat)
  <2>. SUFFICES ASSUME NEW n \in Nat PROVE 0..n \in FiniteSubsetsOf(Nat)
    OBVIOUS
  <2>1. 0..n \in SUBSET Nat
    OBVIOUS
  <2>2. IsFiniteSet(0..n)
    BY FS_Interval
  <2>. QED BY <2>1, <2>2 DEF FiniteSubsetsOf
<1>2. U \subseteq FiniteSubsetsOf(Nat) /\ U # {}
  BY <1>1
<1>3. IsWellFoundedOn(R, FiniteSubsetsOf(Nat))
  BY FS_StrictSubsetOrderingWellFounded
<1>4. \E x \in U : \A y \in U : ~ (<<y, x>> \in R)
  <2>. HIDE DEF U, R
  <2>. QED BY <1>2, <1>3, WFMin
<1>5. PICK m \in T : \A k \in T : ~ (<<0..k, 0..m>> \in R)
  BY <1>4
<1>6. ASSUME NEW k \in T, ~(m <= k) PROVE FALSE
  <2>1. m \in Nat /\ k \in Nat /\ k < m
    BY <1>6
  <2>2. 0..k \subseteq 0..m /\ m \in 0..m /\ m \notin 0..k
    BY <2>1
  <2>3. 0..k \in SUBSET Nat /\ 0..m \in SUBSET Nat /\ 0..k # 0..m
    BY <2>1, <2>2
  <2>4. <<0..k, 0..m>> \in R
    BY <2>2, <2>3 DEF StrictSubsetOrdering
  <2>. QED BY <1>5, <2>4
<1>. QED BY <1>6

LEMMA SetInduction ==
    ASSUME NEW S \in SUBSET Nat, 0 \in S, \A n \in S : n + 1 \in S
    PROVE  \A n \in Nat : n \in S
<1>. SUFFICES ASSUME Nat \ S # {} PROVE FALSE
  OBVIOUS
<1>1. PICK m \in Nat \ S : \A k \in Nat \ S : m <= k
  <2>1. Nat \ S \in SUBSET Nat
    OBVIOUS
  <2>. QED BY <2>1, LeastNumber
<1>2. m # 0 /\ m - 1 \in Nat /\ m - 1 < m
  BY <1>1
<1>3. m - 1 \in S
  BY <1>1, <1>2
<1>4. (m - 1) + 1 \in S
  BY <1>3
<1>. QED BY <1>1, <1>2, <1>4

\* Iterating a function from a start value.
LEMMA Iteration ==
    ASSUME NEW a \in Nat, NEW G \in [Nat -> Nat]
    PROVE  \E f \in [Nat -> Nat] : f[0] = a /\ \A n \in Nat : f[n + 1] = G[f[n]]
<1>. DEFINE Upto(n) == {g \in [0..n -> Nat] :
                          g[0] = a /\ \A i \in 0..n : i + 1 \in 0..n => g[i + 1] = G[g[i]]}
            S == {n \in Nat : Upto(n) # {}}
<1>1. \A n \in Nat : n \in S
  <2>1. 0 \in S
    <3>. DEFINE g == [i \in 0..0 |-> a]
    <3>1. g \in [0..0 -> Nat] /\ g[0] = a
      OBVIOUS
    <3>2. \A i \in 0..0 : i + 1 \notin 0..0
      OBVIOUS
    <3>. HIDE DEF g
    <3>. QED BY <3>1, <3>2
  <2>2. ASSUME NEW n \in S PROVE n + 1 \in S
    <3>1. PICK g \in Upto(n) : TRUE
      BY <2>2
    <3>. DEFINE h == [i \in 0..(n + 1) |-> IF i <= n THEN g[i] ELSE G[g[n]]]
    <3>2. n \in Nat /\ g \in [0..n -> Nat] /\ g[0] = a
      BY <3>1
    <3>3. \A i \in 0..(n + 1) : (i <= n => i \in 0..n) /\ (~(i <= n) => i = n + 1)
      BY <3>2
    <3>4. n \in 0..n /\ 0 \in 0..(n + 1) /\ 0 <= n
      BY <3>2
    <3>5. h \in [0..(n + 1) -> Nat] /\ h[0] = a
      BY <3>2, <3>3, <3>4
    <3>6. ASSUME NEW i \in 0..(n + 1), i + 1 \in 0..(n + 1) PROVE h[i + 1] = G[h[i]]
      <4>1. i \in Nat /\ i <= n /\ i \in 0..n
        BY <3>2, <3>6
      <4>2. h[i] = g[i]
        BY <4>1
      <4>3. CASE i + 1 <= n
        <5>1. i + 1 \in 0..n
          BY <3>2, <4>1, <4>3
        <5>2. g[i + 1] = G[g[i]]
          BY <3>1, <4>1, <5>1
        <5>3. h[i + 1] = g[i + 1]
          BY <3>6, <4>3
        <5>. HIDE DEF h
        <5>. QED BY <4>2, <5>2, <5>3
      <4>4. CASE ~(i + 1 <= n)
        <5>1. i = n
          BY <3>2, <4>1, <4>4
        <5>2. h[i + 1] = G[g[n]]
          BY <3>6, <4>4
        <5>. HIDE DEF h
        <5>. QED BY <4>2, <5>1, <5>2
      <4>. QED BY <4>3, <4>4
    <3>. HIDE DEF h
    <3>7. h \in Upto(n + 1)
      BY <3>5, <3>6
    <3>8. n + 1 \in Nat
      BY <3>2
    <3>. HIDE DEF Upto
    <3>. QED BY <3>7, <3>8
  <2>3. S \in SUBSET Nat
    OBVIOUS
  <2>. HIDE DEF S
  <2>. QED BY <2>1, <2>2, <2>3, SetInduction
<1>2. \A n \in Nat : \E g : g \in Upto(n)
  BY <1>1
<1>. DEFINE part(n) == CHOOSE g : g \in Upto(n)
<1>3. \A n \in Nat : part(n) \in Upto(n)
  BY <1>2
<1>. HIDE DEF part
<1>4. \A n \in Nat : /\ part(n) \in [0..n -> Nat] /\ part(n)[0] = a
                     /\ \A i \in 0..n : i + 1 \in 0..n => part(n)[i + 1] = G[part(n)[i]]
  BY <1>3
<1>. HIDE DEF Upto
\* Two approximations agree where both are defined.
<1>. DEFINE Agree == {i \in Nat : \A m, n \in Nat : i <= m /\ i <= n => part(m)[i] = part(n)[i]}
<1>5. \A i \in Nat : i \in Agree
  <2>1. 0 \in Agree
    BY <1>4
  <2>2. ASSUME NEW i \in Agree PROVE i + 1 \in Agree
    <3>. SUFFICES ASSUME NEW m \in Nat, NEW n \in Nat, i + 1 <= m, i + 1 <= n
                  PROVE  part(m)[i + 1] = part(n)[i + 1]
      OBVIOUS
    <3>1. i \in Nat /\ i <= m /\ i <= n
      OBVIOUS
    <3>2. i \in 0..m /\ i \in 0..n /\ i + 1 \in 0..m /\ i + 1 \in 0..n
      BY <3>1
    <3>3. part(m)[i] = part(n)[i]
      BY <2>2, <3>1
    <3>4. part(m)[i + 1] = G[part(m)[i]]
      BY <1>4, <3>2
    <3>5. part(n)[i + 1] = G[part(n)[i]]
      BY <1>4, <3>2
    <3>. QED BY <3>3, <3>4, <3>5
  <2>3. Agree \in SUBSET Nat
    OBVIOUS
  <2>. HIDE DEF Agree
  <2>. QED BY <2>1, <2>2, <2>3, SetInduction
<1>. DEFINE f == [n \in Nat |-> part(n)[n]]
<1>6. \A n \in Nat : n \in 0..n /\ n + 1 \in 0..(n + 1) /\ n \in 0..(n + 1) /\ n + 1 \in Nat
                   /\ n <= n + 1 /\ n <= n
  OBVIOUS
<1>7. f \in [Nat -> Nat] /\ f[0] = a
  BY <1>4, <1>6
<1>8. ASSUME NEW n \in Nat PROVE f[n + 1] = G[f[n]]
  <2>1. part(n + 1)[n + 1] = G[part(n + 1)[n]]
    BY <1>4, <1>6
  <2>2. part(n + 1)[n] = part(n)[n]
    BY <1>5, <1>6
  <2>. QED BY <1>6, <2>1, <2>2
<1>. HIDE DEF f
<1>. QED BY <1>7, <1>8

-----------------------------------------------------------------------------
(* The recursion of cooldown and of its published schedule. *)

LEMMA Bounds ==
    /\ BreakerMin \in Nat /\ BreakerMin > 0 /\ BreakerMax \in Nat /\ BreakerMin <= BreakerMax
    /\ MaxFailures \in Nat /\ MaxOutages \in Nat /\ MaxCancels \in Nat /\ MaxElapsed \in Nat
    /\ IsFiniteSet(Worker)
BY BoundsAssumption

\* The value at n of the function that f approximates.
DelayAt(f, n) == IF n <= 1 THEN BreakerMin
                 ELSE IF f[n - 1] < BreakerMax THEN 2 * f[n - 1] ELSE f[n - 1]
DoubledAt(f, n) == IF n = 0 THEN BreakerMin ELSE 2 * f[n - 1]

\* Both recursions have a solution, so each definition satisfies its equation.
LEMMA DelayUnfolds ==
    ASSUME NEW n \in Nat
    PROVE  Delay[n] = DelayAt(Delay, n)
<1>. DEFINE G == [x \in Nat |-> IF x < BreakerMax THEN 2 * x ELSE x]
<1>1. G \in [Nat -> Nat]
  BY Bounds
<1>2. PICK f \in [Nat -> Nat] : f[0] = BreakerMin /\ \A i \in Nat : f[i + 1] = G[f[i]]
  <2>. HIDE DEF G
  <2>. QED BY <1>1, Bounds, Iteration
<1>. DEFINE F == [i \in Nat |-> IF i = 0 THEN BreakerMin ELSE f[i - 1]]
<1>3. ASSUME NEW i \in Nat PROVE F[i] = DelayAt(F, i)
  <2>1. CASE i <= 1
    BY <1>2, <2>1 DEF DelayAt
  <2>2. CASE i > 1
    <3>1. i - 1 \in Nat /\ i - 2 \in Nat /\ i - 1 # 0 /\ i # 0 /\ (i - 2) + 1 = i - 1 /\ (i - 1) - 1 = i - 2
          /\ ~(i <= 1)
      BY <2>2
    <3>2. F[i] = f[i - 1] /\ F[i - 1] = f[i - 2]
      BY <3>1
    <3>3. f[i - 1] = G[f[i - 2]]
      BY <1>2, <3>1
    <3>4. f[i - 2] \in Nat
      BY <1>2, <3>1
    <3>5. G[f[i - 2]] = IF f[i - 2] < BreakerMax THEN 2 * f[i - 2] ELSE f[i - 2]
      BY <3>4
    <3>. HIDE DEF F, G
    <3>. QED BY <3>1, <3>2, <3>3, <3>5 DEF DelayAt
  <2>. QED BY <2>1, <2>2
<1>4. F = [i \in Nat |-> DelayAt(F, i)]
  <2>1. F = [i \in Nat |-> F[i]]
    OBVIOUS
  <2>. HIDE DEF F
  <2>. QED BY <1>3, <2>1
<1>5. Delay = [i \in Nat |-> DelayAt(Delay, i)]
  <2>. HIDE DEF F
  <2>. QED BY <1>4 DEF Delay, DelayAt
<1>6. [i \in Nat |-> DelayAt(Delay, i)][n] = DelayAt(Delay, n)
  OBVIOUS
<1>. QED BY <1>5, <1>6

LEMMA DoubledUnfolds ==
    ASSUME NEW n \in Nat
    PROVE  Doubled[n] = DoubledAt(Doubled, n)
<1>. DEFINE G == [x \in Nat |-> 2 * x]
<1>1. G \in [Nat -> Nat]
  OBVIOUS
<1>2. PICK f \in [Nat -> Nat] : f[0] = BreakerMin /\ \A i \in Nat : f[i + 1] = G[f[i]]
  <2>. HIDE DEF G
  <2>. QED BY <1>1, Bounds, Iteration
<1>3. ASSUME NEW i \in Nat PROVE f[i] = DoubledAt(f, i)
  <2>1. CASE i = 0
    BY <1>2, <2>1 DEF DoubledAt
  <2>2. CASE i > 0
    <3>1. i - 1 \in Nat /\ i # 0 /\ (i - 1) + 1 = i
      BY <2>2
    <3>2. f[i] = G[f[i - 1]] /\ f[i - 1] \in Nat
      BY <1>2, <3>1
    <3>3. G[f[i - 1]] = 2 * f[i - 1]
      BY <3>2
    <3>. HIDE DEF G
    <3>. QED BY <3>1, <3>2, <3>3 DEF DoubledAt
  <2>. QED BY <2>1, <2>2
<1>4. f = [i \in Nat |-> DoubledAt(f, i)]
  <2>1. f = [i \in Nat |-> f[i]]
    BY <1>2
  <2>. QED BY <1>3, <2>1
<1>5. Doubled = [i \in Nat |-> DoubledAt(Doubled, i)]
  BY <1>4 DEF Doubled, DoubledAt
<1>6. [i \in Nat |-> DoubledAt(Doubled, i)][n] = DoubledAt(Doubled, n)
  OBVIOUS
<1>. QED BY <1>5, <1>6

\* The loop agrees with the schedule until it reaches breakerMax, and past
\* that both are cut off there.
LEMMA LoopFollowsSchedule ==
    ASSUME NEW n \in Nat
    PROVE  /\ Doubled[n] \in Nat /\ Delay[n + 1] \in Nat
           /\ Delay[n + 1] >= BreakerMin
           /\ \/ Delay[n + 1] = Doubled[n]
              \/ Delay[n + 1] >= BreakerMax /\ Doubled[n] >= BreakerMax
<1>. DEFINE S == {i \in Nat : /\ Doubled[i] \in Nat /\ Delay[i + 1] \in Nat
                              /\ Delay[i + 1] >= BreakerMin
                              /\ \/ Delay[i + 1] = Doubled[i]
                                 \/ Delay[i + 1] >= BreakerMax /\ Doubled[i] >= BreakerMax}
<1>1. 0 \in S
  <2>1. 0 + 1 = 1 /\ Delay[1] = DelayAt(Delay, 1) /\ Doubled[0] = DoubledAt(Doubled, 0)
    BY DelayUnfolds, DoubledUnfolds
  <2>2. Delay[0 + 1] = BreakerMin /\ Doubled[0] = BreakerMin
    BY <2>1 DEF DelayAt, DoubledAt
  <2>. QED BY <2>2, Bounds
<1>2. ASSUME NEW i \in S PROVE i + 1 \in S
  <2>1. i \in Nat /\ i + 1 \in Nat /\ (i + 1) + 1 \in Nat /\ ((i + 1) + 1) - 1 = i + 1
        /\ ~((i + 1) + 1 <= 1) /\ i + 1 # 0 /\ (i + 1) - 1 = i
    OBVIOUS
  <2>2. Doubled[i + 1] = 2 * Doubled[i]
    BY <2>1, DoubledUnfolds DEF DoubledAt
  <2>3. Delay[(i + 1) + 1] = IF Delay[i + 1] < BreakerMax THEN 2 * Delay[i + 1] ELSE Delay[i + 1]
    BY <2>1, DelayUnfolds DEF DelayAt
  <2>4. /\ Doubled[i] \in Nat /\ Delay[i + 1] \in Nat
        /\ Delay[i + 1] >= BreakerMin
        /\ \/ Delay[i + 1] = Doubled[i]
           \/ Delay[i + 1] >= BreakerMax /\ Doubled[i] >= BreakerMax
    OBVIOUS
  <2>5. /\ Doubled[i + 1] \in Nat /\ Delay[(i + 1) + 1] \in Nat
        /\ Delay[(i + 1) + 1] >= BreakerMin
        /\ \/ Delay[(i + 1) + 1] = Doubled[i + 1]
           \/ Delay[(i + 1) + 1] >= BreakerMax /\ Doubled[i + 1] >= BreakerMax
    BY <2>2, <2>3, <2>4, Bounds
  <2>. QED BY <2>1, <2>5
<1>3. S \in SUBSET Nat
  OBVIOUS
<1>4. n \in S
  <2>. HIDE DEF S
  <2>. QED BY <1>1, <1>2, <1>3, SetInduction
<1>. QED BY <1>4

\* What the breaker waits after the n-th consecutive failure is what the
\* schedule promises, between breakerMin and breakerMax.
LEMMA CooldownIsSchedule ==
    ASSUME NEW n \in Nat, n > 0
    PROVE  /\ Cooldown(n) = Schedule(n)
           /\ Cooldown(n) \in BreakerMin..BreakerMax
<1>1. n - 1 \in Nat /\ (n - 1) + 1 = n
  OBVIOUS
<1>2. /\ Doubled[n - 1] \in Nat /\ Delay[n] \in Nat
      /\ Delay[n] >= BreakerMin
      /\ \/ Delay[n] = Doubled[n - 1]
         \/ Delay[n] >= BreakerMax /\ Doubled[n - 1] >= BreakerMax
  BY <1>1, LoopFollowsSchedule
<1>. QED BY <1>2, Bounds DEF Cooldown, Schedule, Least

LEMMA CooldownRange ==
    ASSUME NEW n \in Nat, n > 0
    PROVE  /\ Cooldown(n) \in Nat
           /\ BreakerMin <= Cooldown(n) /\ Cooldown(n) <= BreakerMax
<1>1. Cooldown(n) \in BreakerMin..BreakerMax
  BY CooldownIsSchedule
<1>. HIDE DEF Cooldown
<1>. QED BY <1>1, Bounds

-----------------------------------------------------------------------------
(* The invariant. *)

\* Every call that will still report a failure has its place in the bound.
RoomInv == failures + Cardinality(Pending) <= MaxFailures

\* Since the last failure or probe the breaker has waited what hold lacks of
\* the cooldown.
HoldInv ==
    failures > 0 => /\ hold <= Cooldown(failures)
                    /\ quiet + hold >= Cooldown(failures)

\* The calls that may still fail, and those that failed, are the workers' own
\* at the time the breaker opened and P probes, which used up P times
\* breakerMin; the next probe is due after another breakerMin.
Busy == {w \in Worker : call[w] \in {"calling", "unreachable"}}
Paced(P, f, b, e, h) ==
    /\ f + b <= Cardinality(Worker) + P
    /\ P * BreakerMin <= e
    /\ P * BreakerMin + BreakerMin <= e + h
PacedInv ==
    failures > 0 /\ elapsed < MaxElapsed =>
        \E P \in 0..elapsed : Paced(P, failures, Cardinality(Busy), elapsed, hold)

Inv == TypeOK /\ RoomInv /\ HoldInv /\ PacedInv

-----------------------------------------------------------------------------
(* Counting the calls. *)

LEMMA Finite ==
    /\ IsFiniteSet(Busy) /\ Cardinality(Busy) \in Nat
    /\ IsFiniteSet(Pending) /\ Cardinality(Pending) \in Nat
    /\ Cardinality(Busy) <= Cardinality(Worker)
    /\ Cardinality(Worker) \in Nat
<1>1. Busy \subseteq Worker /\ Pending \subseteq Worker
  BY DEF Busy, Pending
<1>. QED BY <1>1, Bounds, FS_Subset, FS_CardinalityType

LEMMA FiniteNext ==
    /\ IsFiniteSet(Busy') /\ Cardinality(Busy') \in Nat
    /\ IsFiniteSet(Pending') /\ Cardinality(Pending') \in Nat
<1>1. Busy' \subseteq Worker /\ Pending' \subseteq Worker
  BY DEF Busy, Pending
<1>. QED BY <1>1, Bounds, FS_Subset, FS_CardinalityType

\* A call that starts is one more that may fail; none fails by starting.
LEMMA AdmitCounts ==
    ASSUME TypeOK, NEW w \in Worker, Admit(w)
    PROVE  /\ Cardinality(Busy') = Cardinality(Busy) + 1
           /\ Pending' = Pending
<1>1. Busy' = Busy \cup {w} /\ w \notin Busy /\ Pending' = Pending
  BY DEF TypeOK, Admit, Busy, Pending
<1>. QED BY <1>1, Finite, FS_AddElement

LEMMA InnerReturnsCounts ==
    ASSUME TypeOK, RoomInv, NEW w \in Worker, InnerReturns(w)
    PROVE  /\ Cardinality(Busy') <= Cardinality(Busy)
           /\ failures + Cardinality(Pending') <= MaxFailures
<1>1. Busy' \subseteq Busy
  BY DEF TypeOK, InnerReturns, Busy
<1>2. Cardinality(Busy') <= Cardinality(Busy)
  BY <1>1, Finite, FS_Subset
<1>3. \/ Pending' = Pending
      \/ Pending' = Pending \cup {w} /\ w \notin Pending /\ failures + Cardinality(Pending) < MaxFailures
  BY DEF TypeOK, InnerReturns, Pending
<1>4. CASE Pending' = Pending
  BY <1>2, <1>4 DEF RoomInv
<1>5. CASE Pending' = Pending \cup {w} /\ w \notin Pending /\ failures + Cardinality(Pending) < MaxFailures
  <2>1. Cardinality(Pending') = Cardinality(Pending) + 1
    BY <1>5, Finite, FS_AddElement
  <2>2. failures \in Nat
    BY Bounds DEF TypeOK
  <2>. QED BY <1>2, <1>5, <2>1, <2>2, Finite, Bounds
<1>. QED BY <1>3, <1>4, <1>5

LEMMA ReportCounts ==
    ASSUME TypeOK, NEW w \in Worker, Report(w)
    PROVE  /\ call[w] = "unreachable" =>
                /\ Cardinality(Busy') + 1 = Cardinality(Busy)
                /\ Cardinality(Pending') + 1 = Cardinality(Pending)
           /\ call[w] # "unreachable" => Busy' = Busy /\ Pending' = Pending
<1>1. CASE call[w] = "unreachable"
  <2>1. Busy' = Busy \ {w} /\ w \in Busy /\ Pending' = Pending \ {w} /\ w \in Pending
    BY <1>1 DEF TypeOK, Report, Busy, Pending
  <2>2. /\ Cardinality(Busy') = Cardinality(Busy) - 1
        /\ Cardinality(Pending') = Cardinality(Pending) - 1
    BY <2>1, Finite, FS_RemoveElement
  <2>. QED BY <1>1, <2>2, Finite
<1>2. CASE call[w] # "unreachable"
  BY <1>2 DEF TypeOK, Report, Busy, Pending
<1>. QED BY <1>1, <1>2

-----------------------------------------------------------------------------
(* Arithmetic of the pacing argument. *)

LEMMA Product ==
    ASSUME NEW p \in Nat
    PROVE  /\ p * BreakerMin \in Nat
           /\ (p + 1) * BreakerMin = p * BreakerMin + BreakerMin
           /\ p <= p * BreakerMin
BY Bounds

LEMMA Quotient ==
    ASSUME NEW p \in Nat, NEW e \in Nat, p * BreakerMin <= e
    PROVE  p <= e \div BreakerMin /\ e \div BreakerMin \in Nat
BY Bounds

\* A probe moves the next one by breakerMin at least.
LEMMA ProbeTakesTime ==
    ASSUME NEW p \in Nat, NEW f \in Nat, NEW b \in Nat, NEW e \in Nat, NEW c \in Nat,
           Paced(p, f, b, e, 0), BreakerMin <= c
    PROVE  p + 1 \in 0..e /\ Paced(p + 1, f, b + 1, e, c)
<1>1. /\ f + b <= Cardinality(Worker) + p
      /\ p * BreakerMin + BreakerMin <= e
  BY DEF Paced
<1>2. (p + 1) * BreakerMin = p * BreakerMin + BreakerMin /\ p + 1 <= (p + 1) * BreakerMin
      /\ (p + 1) * BreakerMin \in Nat
  BY Product
<1>3. (p + 1) * BreakerMin <= e
  BY <1>1, <1>2
<1>4. p + 1 \in 0..e
  BY <1>2, <1>3
<1>5. (p + 1) * BreakerMin + BreakerMin <= e + c
  BY <1>2, <1>3, Bounds
<1>6. f + (b + 1) <= Cardinality(Worker) + (p + 1)
  BY <1>1, Finite
<1>. QED BY <1>3, <1>4, <1>5, <1>6 DEF Paced

\* A failure reported in time, and time passing, keep the pace.
LEMMA FailureKeepsPace ==
    ASSUME NEW p \in Nat, NEW f \in Nat, NEW b \in Nat, NEW b2 \in Nat, NEW e \in Nat,
           NEW h \in Nat, NEW c \in Nat,
           Paced(p, f, b, e, h), b2 + 1 = b, BreakerMin <= c
    PROVE  Paced(p, f + 1, b2, e, c)
<1>1. f + b <= Cardinality(Worker) + p /\ p * BreakerMin <= e
  BY DEF Paced
<1>2. p * BreakerMin \in Nat
  BY Product
<1>3. p * BreakerMin + BreakerMin <= e + c
  BY <1>1, <1>2, Bounds
<1>4. (f + 1) + b2 <= Cardinality(Worker) + p
  BY <1>1, Finite
<1>. QED BY <1>1, <1>3, <1>4 DEF Paced

LEMMA TimeKeepsPace ==
    ASSUME NEW p \in Nat, NEW f \in Nat, NEW b \in Nat, NEW e \in Nat, NEW h \in Nat,
           Paced(p, f, b, e, h)
    PROVE  Paced(p, f, b, e + 1, IF h > 0 THEN h - 1 ELSE 0)
<1>1. /\ f + b <= Cardinality(Worker) + p /\ p * BreakerMin <= e
      /\ p * BreakerMin + BreakerMin <= e + h
  BY DEF Paced
<1>2. p * BreakerMin \in Nat
  BY Product
<1>3. p * BreakerMin + BreakerMin <= (e + 1) + (IF h > 0 THEN h - 1 ELSE 0)
  BY <1>1, <1>2, Bounds
<1>4. p * BreakerMin <= e + 1
  BY <1>1, <1>2
<1>. QED BY <1>1, <1>3, <1>4 DEF Paced

LEMMA FewerKeepPace ==
    ASSUME NEW p \in Nat, NEW f \in Nat, NEW b \in Nat, NEW b2 \in Nat, NEW e \in Nat, NEW h \in Nat,
           Paced(p, f, b, e, h), b2 <= b
    PROVE  Paced(p, f, b2, e, h)
<1>1. f + b <= Cardinality(Worker) + p
  BY DEF Paced
<1>2. f + b2 <= Cardinality(Worker) + p
  BY <1>1, Finite
<1>. QED BY <1>2 DEF Paced

-----------------------------------------------------------------------------
(* The invariant holds initially and every action keeps it. *)

LEMMA Numbers ==
    ASSUME TypeOK
    PROVE  failures \in Nat /\ hold \in Nat /\ elapsed \in Nat /\ quiet \in Nat
           /\ hold <= BreakerMax /\ quiet <= BreakerMax /\ elapsed <= MaxElapsed
           /\ failures <= MaxFailures
BY Bounds DEF TypeOK

LEMMA InitInv == Init => Inv
<1>. SUFFICES ASSUME Init PROVE Inv
  OBVIOUS
<1>1. TypeOK
  BY Bounds DEF Init, TypeOK
<1>2. Pending = {}
  BY DEF Init, Pending
<1>3. RoomInv
  BY <1>2, Bounds, FS_EmptySet DEF Init, RoomInv
<1>. QED BY <1>1, <1>3 DEF Init, Inv, HoldInv, PacedInv

LEMMA AdmitKeeps ==
    ASSUME Inv, NEW w \in Worker, Admit(w)
    PROVE  Inv'
<1>. TypeOK /\ RoomInv /\ HoldInv /\ PacedInv
  BY DEF Inv
<1>0. /\ Cardinality(Busy') = Cardinality(Busy) + 1
      /\ Pending' = Pending
  BY AdmitCounts
<1>1. /\ failures' = failures /\ elapsed' = elapsed
      /\ call' = [call EXCEPT ![w] = "calling"]
      /\ up' = up /\ outages' = outages /\ cancels' = cancels
  BY DEF Admit, server
<1>2. RoomInv'
  BY <1>0, <1>1 DEF RoomInv
<1>3. CASE failures = 0
  <2>1. hold' = hold /\ quiet' = quiet
    BY <1>3 DEF Admit
  <2>2. TypeOK'
    BY <1>1, <2>1 DEF TypeOK
  <2>. QED BY <1>1, <1>2, <1>3, <2>2 DEF Inv, HoldInv, PacedInv
<1>4. CASE failures # 0
  <2>1. failures \in Nat /\ failures > 0 /\ elapsed \in Nat
    BY <1>4, Numbers
  <2>2. hold = 0 /\ hold' = Cooldown(failures) /\ quiet' = 0
    BY <1>4, <2>1 DEF Admit
  <2>3. Cooldown(failures) \in Nat /\ BreakerMin <= Cooldown(failures) /\ Cooldown(failures) <= BreakerMax
    BY <2>1, CooldownRange
  <2>. HIDE DEF Cooldown
  <2>4. hold' \in 0..BreakerMax /\ quiet' \in 0..BreakerMax
    BY <2>2, <2>3, Bounds
  <2>5. TypeOK'
    BY <1>1, <2>4 DEF TypeOK
  <2>6. HoldInv'
    BY <1>1, <2>2, <2>3 DEF HoldInv
  <2>7. PacedInv'
    <3>. SUFFICES ASSUME elapsed < MaxElapsed
                  PROVE  \E P \in 0..elapsed : Paced(P, failures, Cardinality(Busy'), elapsed, hold')
      BY <1>1 DEF PacedInv
    <3>1. PICK P \in 0..elapsed : Paced(P, failures, Cardinality(Busy), elapsed, hold)
      BY <2>1 DEF PacedInv
    <3>2. P \in Nat
      BY <2>1
    <3>3. P + 1 \in 0..elapsed /\ Paced(P + 1, failures, Cardinality(Busy) + 1, elapsed, hold')
      BY <2>1, <2>2, <2>3, <3>1, <3>2, Finite, ProbeTakesTime
    <3>. QED BY <1>0, <3>3
  <2>. QED BY <1>2, <2>5, <2>6, <2>7 DEF Inv
<1>. QED BY <1>3, <1>4

LEMMA InnerReturnsKeeps ==
    ASSUME Inv, NEW w \in Worker, InnerReturns(w)
    PROVE  Inv'
<1>. TypeOK /\ RoomInv /\ HoldInv /\ PacedInv
  BY DEF Inv
<1>0. /\ Cardinality(Busy') <= Cardinality(Busy)
      /\ failures + Cardinality(Pending') <= MaxFailures
  BY InnerReturnsCounts
<1>1. /\ failures' = failures /\ elapsed' = elapsed /\ hold' = hold /\ quiet' = quiet
      /\ up' = up /\ outages' = outages
  BY DEF InnerReturns
<1>2. cancels' \in 0..MaxCancels
  BY Bounds DEF InnerReturns, TypeOK
<1>3. TypeOK'
  BY <1>1, <1>2 DEF InnerReturns, TypeOK
<1>4. RoomInv'
  BY <1>0, <1>1 DEF RoomInv
<1>5. HoldInv'
  BY <1>1 DEF HoldInv
<1>6. PacedInv'
  <2>. SUFFICES ASSUME failures > 0, elapsed < MaxElapsed
                PROVE  \E P \in 0..elapsed : Paced(P, failures, Cardinality(Busy'), elapsed, hold)
    BY <1>1 DEF PacedInv
  <2>1. PICK P \in 0..elapsed : Paced(P, failures, Cardinality(Busy), elapsed, hold)
    BY DEF PacedInv
  <2>2. P \in Nat
    BY Numbers
  <2>3. Paced(P, failures, Cardinality(Busy'), elapsed, hold)
    BY <1>0, <2>1, <2>2, Numbers, Finite, FiniteNext, FewerKeepPace
  <2>. QED BY <2>3
<1>. QED BY <1>3, <1>4, <1>5, <1>6 DEF Inv

LEMMA ReportKeeps ==
    ASSUME Inv, NEW w \in Worker, Report(w)
    PROVE  Inv'
<1>. TypeOK /\ RoomInv /\ HoldInv /\ PacedInv
  BY DEF Inv
<1>1. /\ call' = [call EXCEPT ![w] = "none"]
      /\ up' = up /\ outages' = outages /\ cancels' = cancels
  BY DEF Report, server
<1>2. CASE call[w] = "answered"
  <2>1. failures' = 0 /\ hold' = hold /\ elapsed' = elapsed /\ quiet' = quiet
    BY <1>2 DEF Report
  <2>2. TypeOK'
    BY <1>1, <2>1, Bounds DEF TypeOK
  <2>3. Pending' = Pending
    BY <1>2, ReportCounts
  <2>4. RoomInv'
    BY <2>1, <2>3, Numbers, Finite, Bounds DEF RoomInv
  <2>. QED BY <2>1, <2>2, <2>4 DEF Inv, HoldInv, PacedInv
<1>3. CASE call[w] = "ended"
  <2>1. failures' = failures /\ hold' = hold /\ elapsed' = elapsed /\ quiet' = quiet
    BY <1>3 DEF Report
  <2>2. TypeOK'
    BY <1>1, <2>1 DEF TypeOK
  <2>3. Busy' = Busy /\ Pending' = Pending
    BY <1>3, ReportCounts
  <2>. QED BY <2>1, <2>2, <2>3 DEF Inv, RoomInv, HoldInv, PacedInv
<1>4. CASE call[w] = "unreachable"
  <2>1. /\ failures' = failures + 1 /\ hold' = Cooldown(failures + 1)
        /\ elapsed' = (IF failures = 0 THEN 0 ELSE elapsed)
        /\ quiet' = 0
    BY <1>4 DEF Report
  <2>2. /\ Cardinality(Busy') + 1 = Cardinality(Busy)
        /\ Cardinality(Pending') + 1 = Cardinality(Pending)
    BY <1>4, ReportCounts
  <2>3. failures \in Nat /\ failures + 1 \in Nat /\ failures + 1 > 0 /\ elapsed \in Nat /\ hold \in Nat
    BY Numbers
  <2>4. /\ Cooldown(failures + 1) \in Nat /\ BreakerMin <= Cooldown(failures + 1)
        /\ Cooldown(failures + 1) <= BreakerMax
    BY <2>3, CooldownRange
  <2>. HIDE DEF Cooldown
  <2>5. RoomInv'
    BY <2>1, <2>2, <2>3, Finite, FiniteNext, Bounds DEF RoomInv
  <2>6. failures' \in 0..MaxFailures /\ hold' \in 0..BreakerMax /\ quiet' \in 0..BreakerMax
        /\ elapsed' \in 0..MaxElapsed
    BY <2>1, <2>3, <2>4, <2>5, FiniteNext, Bounds, Numbers DEF RoomInv
  <2>7. TypeOK'
    BY <1>1, <2>6 DEF TypeOK
  <2>8. HoldInv'
    BY <2>1, <2>3, <2>4 DEF HoldInv
  <2>9. PacedInv'
    <3>. SUFFICES ASSUME elapsed' < MaxElapsed
                  PROVE  \E P \in 0..elapsed' :
                           Paced(P, failures + 1, Cardinality(Busy'), elapsed', Cooldown(failures + 1))
      BY <2>1 DEF PacedInv
    <3>1. CASE failures = 0
      <4>1. elapsed' = 0 /\ 0 \in 0..elapsed' /\ 0 * BreakerMin = 0
        BY <2>1, <3>1, Bounds
      <4>2. Paced(0, failures + 1, Cardinality(Busy'), elapsed', Cooldown(failures + 1))
        BY <2>2, <2>3, <2>4, <3>1, <4>1, Finite, FiniteNext, Bounds DEF Paced
      <4>. QED BY <4>1, <4>2
    <3>2. CASE failures # 0
      <4>1. failures > 0 /\ elapsed' = elapsed
        BY <2>1, <2>3, <3>2
      <4>2. PICK P \in 0..elapsed : Paced(P, failures, Cardinality(Busy), elapsed, hold)
        BY <4>1 DEF PacedInv
      <4>3. P \in Nat
        BY <2>3
      <4>4. Paced(P, failures + 1, Cardinality(Busy'), elapsed, Cooldown(failures + 1))
        BY <2>2, <2>3, <2>4, <4>2, <4>3, Finite, FiniteNext, FailureKeepsPace
      <4>. QED BY <4>1, <4>4
    <3>. QED BY <3>1, <3>2
  <2>. QED BY <2>5, <2>7, <2>8, <2>9 DEF Inv
<1>. QED BY <1>2, <1>3, <1>4 DEF Report

LEMMA TickKeeps ==
    ASSUME Inv, Tick
    PROVE  Inv'
<1>. TypeOK /\ RoomInv /\ HoldInv /\ PacedInv
  BY DEF Inv
<1>1. /\ failures' = failures /\ call' = call
      /\ up' = up /\ outages' = outages /\ cancels' = cancels
      /\ hold' = (IF hold > 0 THEN hold - 1 ELSE 0)
      /\ elapsed' = (IF failures > 0 THEN Least(elapsed + 1, MaxElapsed) ELSE elapsed)
      /\ quiet' = Least(quiet + 1, BreakerMax)
  BY DEF Tick, server
<1>2. hold' \in 0..BreakerMax /\ elapsed' \in 0..MaxElapsed /\ quiet' \in 0..BreakerMax
  BY <1>1, Numbers, Bounds DEF Least
<1>3. TypeOK'
  BY <1>1, <1>2 DEF TypeOK
<1>4. Busy' = Busy /\ Pending' = Pending
  BY <1>1 DEF Busy, Pending
<1>5. RoomInv'
  BY <1>1, <1>4 DEF RoomInv
<1>6. HoldInv'
  <2>. SUFFICES ASSUME failures > 0
                PROVE  hold' <= Cooldown(failures) /\ quiet' + hold' >= Cooldown(failures)
    BY <1>1 DEF HoldInv
  <2>1. Cooldown(failures) \in Nat /\ Cooldown(failures) <= BreakerMax
    BY Numbers, CooldownRange
  <2>2. hold <= Cooldown(failures) /\ quiet + hold >= Cooldown(failures)
    BY DEF HoldInv
  <2>. HIDE DEF Cooldown
  <2>. QED BY <1>1, <2>1, <2>2, Numbers, Bounds DEF Least
<1>7. PacedInv'
  <2>. SUFFICES ASSUME failures > 0, elapsed' < MaxElapsed
                PROVE  \E P \in 0..elapsed' : Paced(P, failures, Cardinality(Busy), elapsed', hold')
    BY <1>1, <1>4 DEF PacedInv
  <2>1. elapsed' = elapsed + 1 /\ elapsed < MaxElapsed
    BY <1>1, Numbers, Bounds DEF Least
  <2>2. PICK P \in 0..elapsed : Paced(P, failures, Cardinality(Busy), elapsed, hold)
    BY <2>1 DEF PacedInv
  <2>3. P \in Nat /\ P \in 0..(elapsed + 1)
    BY Numbers
  <2>4. Paced(P, failures, Cardinality(Busy), elapsed + 1, IF hold > 0 THEN hold - 1 ELSE 0)
    BY <2>2, <2>3, Numbers, Finite, TimeKeepsPace
  <2>. QED BY <1>1, <2>1, <2>3, <2>4
<1>. QED BY <1>3, <1>5, <1>6, <1>7 DEF Inv

LEMMA ServerKeeps ==
    ASSUME Inv, ServerGoesDown \/ ServerComesBack
    PROVE  Inv'
<1>. TypeOK /\ RoomInv /\ HoldInv /\ PacedInv
  BY DEF Inv
<1>1. UNCHANGED <<failures, hold, call, cancels, elapsed, quiet>>
  BY DEF ServerGoesDown, ServerComesBack
<1>2. up' \in BOOLEAN /\ outages' \in 0..MaxOutages
  <2>1. up' \in BOOLEAN
    BY DEF ServerGoesDown, ServerComesBack, TypeOK
  <2>2. outages \in 0..MaxOutages /\ (outages' = outages \/ (outages < MaxOutages /\ outages' = outages + 1))
    BY DEF ServerGoesDown, ServerComesBack, TypeOK
  <2>3. outages' \in 0..MaxOutages
    BY <2>2, Bounds
  <2>. QED BY <2>1, <2>3
<1>3. TypeOK'
  BY <1>1, <1>2 DEF TypeOK
<1>4. Busy' = Busy /\ Pending' = Pending
  BY <1>1 DEF Busy, Pending
<1>. QED BY <1>1, <1>3, <1>4 DEF Inv, RoomInv, HoldInv, PacedInv

\* Every step of the breaker, of a caller, of time and of the server keeps
\* the invariant.
THEOREM Invariance == Spec => []Inv
<1>1. Inv /\ [Next]_vars => Inv'
  <2>. SUFFICES ASSUME Inv, [Next]_vars PROVE Inv'
    OBVIOUS
  <2>1. CASE \E w \in Worker : Admit(w) \/ InnerReturns(w) \/ Report(w)
    BY <2>1, AdmitKeeps, InnerReturnsKeeps, ReportKeeps
  <2>2. CASE Tick
    BY <2>2, TickKeeps
  <2>3. CASE ServerGoesDown \/ ServerComesBack
    BY <2>3, ServerKeeps
  <2>4. CASE UNCHANGED vars
    <3>1. UNCHANGED <<failures, hold, call, up, outages, cancels, elapsed, quiet>>
      BY <2>4 DEF vars
    <3>2. Busy' = Busy /\ Pending' = Pending
      BY <3>1 DEF Busy, Pending
    <3>. QED BY <3>1, <3>2 DEF Inv, TypeOK, RoomInv, HoldInv, PacedInv
  <2>. QED BY <2>1, <2>2, <2>3, <2>4 DEF Next
<1>. QED BY <1>1, InitInv, PTL DEF Spec

-----------------------------------------------------------------------------
(* The theorems. *)

\* The breaker's counters and every caller's operation stay in their ranges:
\* failures that are still on their way have room under the bound.
THEOREM TypeCorrect == Spec => []TypeOK
<1>1. Inv => TypeOK
  BY DEF Inv
<1>. QED BY <1>1, Invariance, PTL

\* The failed connections of an outage are at most one per worker that was
\* calling when the breaker opened and one more per breakerMin, however long
\* a probe hangs and in whatever order admit and report interleave.
THEOREM FailuresArePaced == Spec => []FailuresPaced
<1>1. Inv => FailuresPaced
  <2>. SUFFICES ASSUME Inv, elapsed < MaxElapsed
                PROVE  failures <= Cardinality(Worker) + (elapsed \div BreakerMin)
    BY DEF FailuresPaced
  <2>. TypeOK /\ PacedInv
    BY DEF Inv
  <2>1. CASE failures = 0
    <3>1. 0 * BreakerMin <= elapsed
      BY Numbers, Bounds
    <3>2. elapsed \div BreakerMin \in Nat
      BY <3>1, Numbers, Quotient
    <3>. QED BY <2>1, <3>2, Finite
  <2>2. CASE failures # 0
    <3>1. PICK P \in 0..elapsed : Paced(P, failures, Cardinality(Busy), elapsed, hold)
      BY <2>2, Numbers DEF PacedInv
    <3>2. P \in Nat /\ P * BreakerMin <= elapsed
          /\ failures + Cardinality(Busy) <= Cardinality(Worker) + P
      BY <3>1, Numbers DEF Paced
    <3>3. P <= elapsed \div BreakerMin /\ elapsed \div BreakerMin \in Nat
      BY <3>2, Numbers, Quotient
    <3>. QED BY <3>2, <3>3, Numbers, Finite
  <2>. QED BY <2>1, <2>2
<1>. QED BY <1>1, Invariance, PTL

\* admit lets a probe through only after the whole cooldown of the schedule
\* has passed without a failure or another probe, and never holds an
\* operation back longer than that.
THEOREM ProbesAreSpaced == Spec => OneProbePerCooldown
<1>. DEFINE Spaced ==
       /\ \A w \in Worker : failures > 0 /\ call[w] = "none" /\ call'[w] = "calling"
            => quiet >= Schedule(failures)
       /\ failures' > 0 => hold' <= Schedule(failures')
<1>1. Inv /\ Inv' /\ [Next]_vars => [Spaced]_vars
  <2>. SUFFICES ASSUME Inv, Inv', Next PROVE Spaced
    BY DEF vars
  <2>1. TypeOK /\ HoldInv
    BY DEF Inv
  <2>2. TypeOK' /\ HoldInv'
    BY DEF Inv
  <2>3. failures \in Nat /\ hold \in Nat /\ quiet \in Nat
    BY <2>1, Numbers
  <2>4. failures' \in Nat
    BY <2>2, Bounds DEF TypeOK
  <2>5. failures' > 0 => hold' <= Schedule(failures')
    <3>1. failures' > 0 => Cooldown(failures') = Schedule(failures')
      BY <2>4, CooldownIsSchedule
    <3>2. failures' > 0 => hold' <= Cooldown(failures')
      BY <2>2 DEF HoldInv
    <3>. HIDE DEF Cooldown, Schedule
    <3>. QED BY <3>1, <3>2
  <2>6. ASSUME NEW w \in Worker, failures > 0, call[w] = "none", call'[w] = "calling"
        PROVE  quiet >= Schedule(failures)
    <3>1. \E v \in Worker : Admit(v)
      <4>1. CASE Tick \/ ServerGoesDown \/ ServerComesBack
        <5>1. call' = call
          BY <4>1 DEF Tick, ServerGoesDown, ServerComesBack
        <5>. QED BY <2>6, <5>1
      <4>2. ASSUME NEW v \in Worker, InnerReturns(v) \/ Report(v) PROVE FALSE
        <5>1. call'[w] # "calling"
          BY <2>1, <2>6, <4>2 DEF InnerReturns, Report, TypeOK
        <5>. QED BY <2>6, <5>1
      <4>. QED BY <4>1, <4>2 DEF Next
    <3>2. hold = 0
      BY <2>3, <2>6, <3>1 DEF Admit
    <3>3. quiet + hold >= Cooldown(failures)
      BY <2>1, <2>6 DEF HoldInv
    <3>4. Cooldown(failures) = Schedule(failures)
      BY <2>3, <2>6, CooldownIsSchedule
    <3>. HIDE DEF Cooldown, Schedule
    <3>. QED BY <2>3, <3>2, <3>3, <3>4
  <2>. QED BY <2>5, <2>6
<1>2. Spec => [][Next]_vars
  BY DEF Spec
<1>3. Spec => [][Spaced]_vars
  BY <1>1, <1>2, Invariance, PTL
<1>. QED BY <1>3 DEF OneProbePerCooldown
==============================================================================
