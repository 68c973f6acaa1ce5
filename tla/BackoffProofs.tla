--------------------------- MODULE BackoffProofs ---------------------------
(* Proofs about Backoff, for machine words of any width.                    *)
EXTENDS Backoff, WellFoundedInduction, TLAPS

---------------------------------------------------------------------------
(* Induction and recursion over the natural numbers, for sets and functions *)

(* A set with 0 that holds with n also n + 1 holds every natural number.    *)
LEMMA SetInduction ==
    ASSUME NEW S, 0 \in S, \A n \in Nat : n \in S => n + 1 \in S
    PROVE  Nat \subseteq S
<1> DEFINE Others == Nat \ S
           Less == {p \in Nat \X Nat : p[1] < p[2]}
<1>1. IsWellFoundedOn(Less, Nat)
  BY NatLessThanWellFounded DEF OpToRel
<1>2. ASSUME Others # {} PROVE FALSE
  <2>1. PICK least \in Others : \A n \in Others : ~(<<n, least>> \in Less)
    <3>1. Others \subseteq Nat
      OBVIOUS
    <3> HIDE DEF Others, Less
    <3> QED
      BY <1>1, <1>2, <3>1, WFMin
  <2>2. least \in Nat /\ least - 1 \in Nat
    OBVIOUS
  <2>3. <<least - 1, least>> \in Less
    BY <2>2
  <2>4. least - 1 \in S
    BY <2>1, <2>2, <2>3
  <2> QED
    BY <2>2, <2>4
<1> QED
  BY <1>2

(* What a recursive definition says of a function: where it starts, and     *)
(* how each value follows from the one before.                              *)
Recurs(f, base, step) ==
    /\ f[0] = base
    /\ \A n \in Nat \ {0} : f[n] = step[<<n, f[n - 1]>>]

(* A value and a step that keeps a set of values define a function.         *)
LEMMA Recursion ==
    ASSUME NEW V, NEW base \in V, NEW step \in [Nat \X V -> V]
    PROVE  \E f \in [Nat -> V] : Recurs(f, base, step)
<1> DEFINE Upto(n, g) == /\ g \in [0..n -> V]
                         /\ g[0] = base
                         /\ \A i \in 1..n : g[i] = step[<<i, g[i - 1]>>]
           Exists == {n \in Nat : \E g : Upto(n, g)}
           part(n) == CHOOSE g : Upto(n, g)
           f == [n \in Nat |-> part(n)[n]]
<1>1. \A n \in Nat : \E g : Upto(n, g)
  <2>1. 0 \in Exists
    <3>1. Upto(0, [i \in 0..0 |-> base])
      OBVIOUS
    <3> QED
      BY <3>1
  <2>2. ASSUME NEW n \in Nat, n \in Exists PROVE n + 1 \in Exists
    <3>1. PICK g : Upto(n, g)
      BY <2>2
    <3> DEFINE h == [i \in 0..(n + 1) |->
                        IF i = n + 1 THEN step[<<n + 1, g[n]>>] ELSE g[i]]
    <3>2. h \in [0..(n + 1) -> V]
      BY <3>1
    <3>3. h[0] = base
      BY <3>1
    <3>4. ASSUME NEW i \in 1..(n + 1) PROVE h[i] = step[<<i, h[i - 1]>>]
      <4>1. CASE i = n + 1
        <5>1. n \in 0..(n + 1) /\ n # n + 1 /\ i \in 0..(n + 1)
          OBVIOUS
        <5>2. h[n] = g[n] /\ h[i] = step[<<n + 1, g[n]>>]
          BY <4>1, <5>1
        <5>3. i - 1 = n
          BY <4>1
        <5> QED
          BY <4>1, <5>2, <5>3
      <4>2. CASE i # n + 1
        <5>1. i \in 1..n /\ i - 1 \in 0..n
          BY <4>2
        <5>2. h[i] = g[i] /\ h[i - 1] = g[i - 1]
          BY <5>1
        <5> QED
          BY <3>1, <5>1, <5>2
      <4> QED
        BY <4>1, <4>2
    <3>5. Upto(n + 1, h)
      <4> HIDE DEF h
      <4> QED
        BY <3>2, <3>3, <3>4
    <3> HIDE DEF Upto
    <3> QED
      BY <3>5
  <2> HIDE DEF Upto
  <2> QED
    BY <2>1, <2>2, SetInduction
<1>2. \A n \in Nat : Upto(n, part(n))
  <2> HIDE DEF Upto
  <2> QED
    BY <1>1
<1>3. ASSUME NEW n \in Nat \ {0} PROVE part(n)[n - 1] = part(n - 1)[n - 1]
  <2> DEFINE Agree == {i \in Nat : i <= n - 1 => part(n)[i] = part(n - 1)[i]}
  <2>1. Upto(n, part(n)) /\ Upto(n - 1, part(n - 1))
    <3> HIDE DEF Upto, part
    <3> QED
      BY <1>2
  <2> HIDE DEF part
  <2>2. 0 \in Agree
    BY <2>1
  <2>3. ASSUME NEW i \in Nat, i \in Agree PROVE i + 1 \in Agree
    <3>1. CASE i + 1 <= n - 1
      <4>1. i + 1 \in 1..n /\ i + 1 \in 1..(n - 1) /\ (i + 1) - 1 = i
        BY <3>1
      <4>2. part(n)[i] = part(n - 1)[i]
        BY <2>3, <3>1
      <4>3. part(n)[i + 1] = part(n - 1)[i + 1]
        BY <2>1, <4>1, <4>2
      <4> QED
        BY <4>3
    <3>2. CASE ~(i + 1 <= n - 1)
      BY <3>2
    <3> QED
      BY <3>1, <3>2
  <2>4. n - 1 \in Agree
    <3> HIDE DEF Agree
    <3> QED
      BY <2>2, <2>3, SetInduction
  <2> QED
    BY <2>4
<1>4. f \in [Nat -> V]
  <2>1. ASSUME NEW n \in Nat PROVE part(n)[n] \in V
    <3>1. Upto(n, part(n))
      BY <1>2
    <3> HIDE DEF part
    <3> QED
      BY <3>1
  <2> HIDE DEF part
  <2> QED
    BY <2>1
<1>5. ASSUME NEW n \in Nat
      PROVE  f[n] = IF n = 0 THEN base ELSE step[<<n, f[n - 1]>>]
  <2>1. Upto(n, part(n))
    BY <1>2
  <2>2. CASE n = 0
    <3> HIDE DEF part
    <3> QED
      BY <2>1, <2>2
  <2>3. CASE n # 0
    <3>1. n - 1 \in Nat /\ n \in 1..n
      BY <2>3
    <3>2. part(n)[n - 1] = f[n - 1]
      <4>1. part(n)[n - 1] = part(n - 1)[n - 1]
        BY <1>3, <2>3
      <4> HIDE DEF part
      <4> QED
        BY <3>1, <4>1
    <3> HIDE DEF part
    <3>3. f[n] = step[<<n, part(n)[n - 1]>>]
      BY <2>1, <3>1
    <3> HIDE DEF f
    <3> QED
      BY <2>3, <3>2, <3>3
  <2> QED
    BY <2>2, <2>3
<1>6. Recurs(f, base, step)
  <2> HIDE DEF f
  <2> QED
    BY <1>5 DEF Recurs
<1> QED
  BY <1>4, <1>6

---------------------------------------------------------------------------
(* The powers of two are what their definition says.                        *)
LEMMA PowerDef ==
    /\ Power \in [Nat -> Nat]
    /\ Power[0] = 1
    /\ \A n \in Nat \ {0} : Power[n] = 2 * Power[n - 1]
<1> DEFINE step == [p \in Nat \X Nat |-> 2 * p[2]]
           Is(f) == f = [n \in Nat |-> IF n = 0 THEN 1 ELSE 2 * f[n - 1]]
<1>1. PICK f \in [Nat -> Nat] : Recurs(f, 1, step)
  <2>1. 1 \in Nat /\ step \in [Nat \X Nat -> Nat]
    OBVIOUS
  <2> HIDE DEF step
  <2> QED
    BY <2>1, Recursion
<1>2. Is(f)
  <2>1. ASSUME NEW n \in Nat
        PROVE  f[n] = IF n = 0 THEN 1 ELSE 2 * f[n - 1]
    <3>1. CASE n = 0
      BY <1>1, <3>1 DEF Recurs
    <3>2. CASE n # 0
      <4>1. n - 1 \in Nat /\ f[n - 1] \in Nat
        BY <1>1, <3>2
      <4>2. step[<<n, f[n - 1]>>] = 2 * f[n - 1]
        BY <4>1
      <4> HIDE DEF step
      <4> QED
        BY <1>1, <3>2, <4>2 DEF Recurs
    <3> QED
      BY <3>1, <3>2
  <2> HIDE DEF step
  <2> QED
    BY <1>1, <2>1
<1>3. Is(Power)
  <2>1. Power = CHOOSE g : Is(g)
    BY DEF Power
  <2> HIDE DEF Is
  <2> QED
    BY <1>2, <2>1
<1>4. \A n \in Nat : Power[n] = IF n = 0 THEN 1 ELSE 2 * Power[n - 1]
  BY <1>3
<1>5. \A n \in Nat : Power[n] \in Nat
  <2> DEFINE Good == {n \in Nat : Power[n] \in Nat}
  <2>1. 0 \in Good
    BY <1>4
  <2>2. ASSUME NEW n \in Nat, n \in Good PROVE n + 1 \in Good
    <3>1. Power[n + 1] = 2 * Power[(n + 1) - 1]
      BY <1>4
    <3> QED
      BY <2>2, <3>1
  <2>3. Nat \subseteq Good
    <3> HIDE DEF Good
    <3> QED
      BY <2>1, <2>2, SetInduction
  <2> QED
    BY <2>3
<1> QED
  BY <1>3, <1>4, <1>5

(* Each power is positive and twice the one before.                         *)
LEMMA PowerGrows ==
    \A n \in Nat : Power[n] \in Nat \ {0} /\ Power[n + 1] = 2 * Power[n]
<1>1. ASSUME NEW n \in Nat PROVE Power[n + 1] = 2 * Power[n]
  <2>1. n + 1 \in Nat \ {0} /\ (n + 1) - 1 = n
    OBVIOUS
  <2> QED
    BY <2>1, PowerDef
<1>2. \A n \in Nat : Power[n] # 0
  <2> DEFINE Good == {n \in Nat : Power[n] # 0}
  <2>1. 0 \in Good
    BY PowerDef
  <2>2. ASSUME NEW n \in Nat, n \in Good PROVE n + 1 \in Good
    BY <1>1, <2>2, PowerDef
  <2>3. Nat \subseteq Good
    <3> HIDE DEF Good
    <3> QED
      BY <2>1, <2>2, SetInduction
  <2> QED
    BY <2>3
<1> QED
  BY <1>1, <1>2, PowerDef

---------------------------------------------------------------------------
(* The arithmetic of one retry                                              *)

(* A product grows with its second factor.                                  *)
LEMMA ProductGrows ==
    ASSUME NEW a \in Nat, NEW b \in Nat, NEW c \in Nat, b <= c
    PROVE  a * b \in Nat /\ a * c \in Nat /\ a * b <= a * c
<1>1. a * c = a * b + a * (c - b)
  OBVIOUS
<1>2. a * (c - b) \in Nat /\ a * b \in Nat
  OBVIOUS
<1> QED
  BY <1>1, <1>2

(* Whole milliseconds are no longer than the ticks they are taken from.     *)
LEMMA WholePart ==
    ASSUME NEW x \in Nat, NEW d \in Nat \ {0}
    PROVE  x \div d \in Nat /\ (x \div d) * d <= x
OBVIOUS

Policy ==
    /\ initial \in Nat
    /\ limit \in Nat

(* The cap is at most max_backoff, and at most the doubled initial_backoff, *)
(* wherever factor or product saturate.                                     *)
LEMMA CapBounded ==
    ASSUME Policy, NEW n \in Nat \ {0}
    PROVE  /\ Cap(n) \in Nat
           /\ Cap(n) <= limit
           /\ Cap(n) <= initial * Power[n - 1]
<1> DEFINE power == Power[n - 1]
           factor == Factor(n)
<1>1. power \in Nat \ {0} /\ factor \in Nat /\ factor <= power
  BY PowerGrows, WidthsAssumption DEF Factor, Least
<1>2. initial * factor \in Nat /\ initial * factor <= initial * power
  BY <1>1, ProductGrows DEF Policy
<1>3. Cap(n) = Least(Least(initial * factor, DurationMax), limit)
  BY DEF Cap
<1> HIDE DEF power, factor
<1>4. Cap(n) \in Nat /\ Cap(n) <= limit /\ Cap(n) <= initial * power
  BY <1>1, <1>2, <1>3, WidthsAssumption DEF Policy, Least
<1> QED
  BY <1>4 DEF power

(* The cap of one retry is no less than that of the retry before.           *)
LEMMA CapGrows ==
    ASSUME Policy, NEW n \in Nat \ {0}
    PROVE  Cap(n + 1) >= Cap(n)
<1> DEFINE product(k) == initial * Factor(k)
<1>1. /\ Factor(n) \in Nat
      /\ Factor(n + 1) \in Nat
      /\ Factor(n) <= Factor(n + 1)
  <2>1. /\ Power[n - 1] \in Nat
        /\ Power[(n + 1) - 1] = 2 * Power[n - 1]
    <3>1. n - 1 \in Nat /\ (n + 1) - 1 = (n - 1) + 1
      OBVIOUS
    <3> QED
      BY <3>1, PowerGrows
  <2> QED
    BY <2>1, WidthsAssumption DEF Factor, Least
<1>2. product(n) \in Nat /\ product(n + 1) \in Nat /\ product(n) <= product(n + 1)
  BY <1>1, ProductGrows DEF Policy
<1>3. \A k : Cap(k) = Least(Least(product(k), DurationMax), limit)
  BY DEF Cap
<1> HIDE DEF product
<1> QED
  BY <1>2, <1>3, WidthsAssumption DEF Policy, Least

(* A roll, in milliseconds, is no longer than the cap it is taken under.    *)
LEMMA RollBounded ==
    ASSUME Policy, NEW n \in Nat \ {0}, NEW roll \in Rolls(n)
    PROVE  /\ roll \in Nat
           /\ roll * Ticks <= Cap(n)
<1> DEFINE whole == Cap(n) \div Ticks
<1>1. Cap(n) \in Nat /\ Ticks \in Nat \ {0}
  BY CapBounded, WidthsAssumption
<1>2. whole \in Nat /\ whole * Ticks <= Cap(n)
  BY <1>1, WholePart
<1>3. roll \in Nat /\ roll <= whole
  <2>1. roll \in 0..(Least(Least(whole, MillisMax) + 1, MillisMax) - 1)
    BY DEF Rolls, CapMillis
  <2> HIDE DEF whole
  <2> QED
    BY <1>2, <2>1, WidthsAssumption DEF Least
<1>4. Ticks * roll <= Ticks * whole
  <2> HIDE DEF whole
  <2> QED
    BY <1>1, <1>2, <1>3, ProductGrows
<1> HIDE DEF whole
<1>5. Ticks * roll = roll * Ticks /\ Ticks * whole = whole * Ticks
  BY <1>1, <1>2, <1>3
<1>6. Ticks * roll \in Nat
  BY <1>1, <1>3
<1> QED
  BY <1>1, <1>2, <1>3, <1>4, <1>5, <1>6

---------------------------------------------------------------------------
(* The inductive invariant: the policy never changes, and the delay was     *)
(* rolled for the retry it is for.                                          *)
Rolled ==
    /\ initial \in Durations
    /\ limit \in Durations
    /\ retry \in Nat
    /\ retry > 0 => delay \in Rolls(retry)

(* The durations of a policy are natural numbers.                           *)
LEMMA PolicyIsNat == Rolled => Policy
BY DurationsAssumption, WidthsAssumption DEF Rolled, Policy

(* The delay is always a roll of the retry it is for.                       *)
LEMMA RolledHolds == Spec => []Rolled
<1>1. Init => Rolled
  BY DEF Init, Rolled
<1>2. Rolled /\ [Next]_vars => Rolled'
  <2> SUFFICES ASSUME Rolled, [Next]_vars
               PROVE  Rolled'
    OBVIOUS
  <2>1. CASE Retry
    <3>1. Rolls(retry') = Rolls(retry)'
      BY <2>1 DEF Retry, Rolls, CapMillis, Cap, Factor
    <3> QED
      BY <2>1, <3>1 DEF Rolled, Retry
  <2>2. CASE UNCHANGED vars
    BY <2>2 DEF Rolled, vars, Rolls, CapMillis, Cap, Factor
  <2> QED
    BY <2>1, <2>2 DEF Next
<1> QED
  BY <1>1, <1>2, PTL DEF Spec

(* For machine words of any width and every policy: no delay is longer than *)
(* max_backoff, nor than initial_backoff doubled for each retry, though the *)
(* factor and the product saturate and both are rounded to milliseconds.    *)
THEOREM DelayWithinPolicy == Spec => []DelayBounded
<1>1. Rolled => DelayBounded
  <2> SUFFICES ASSUME Rolled, retry > 0
               PROVE  delay * Ticks <= Least(initial * Power[retry - 1], limit)
    BY DEF DelayBounded
  <2>1. Policy /\ retry \in Nat \ {0} /\ delay \in Rolls(retry)
    BY PolicyIsNat DEF Rolled
  <2>2. /\ Cap(retry) \in Nat
        /\ Cap(retry) <= limit
        /\ Cap(retry) <= initial * Power[retry - 1]
    BY <2>1, CapBounded
  <2>3. delay \in Nat /\ delay * Ticks <= Cap(retry)
    BY <2>1, RollBounded
  <2>4. delay * Ticks \in Nat /\ initial * Power[retry - 1] \in Nat
    BY <2>1, <2>3, PowerGrows, WidthsAssumption DEF Policy
  <2> QED
    BY <2>1, <2>2, <2>3, <2>4 DEF Least, Policy
<1> QED
  BY <1>1, RolledHolds, PTL

(* The longest delay never shrinks from one retry of a scan to the next,    *)
(* when the factor or the product has run out of its width either.          *)
THEOREM CapNeverShrinks == Spec => NeverHammers
<1>1. Rolled /\ [Next]_vars => [retry > 0 => Cap(retry') >= Cap(retry)]_vars
  <2> SUFFICES ASSUME Rolled, Retry, retry > 0
               PROVE  Cap(retry') >= Cap(retry)
    BY DEF Next
  <2>1. Policy /\ retry \in Nat \ {0} /\ retry' = retry + 1
    BY PolicyIsNat DEF Rolled, Retry
  <2> QED
    BY <2>1, CapGrows
<1> QED
  BY <1>1, RolledHolds, PTL DEF Spec, NeverHammers
=============================================================================
