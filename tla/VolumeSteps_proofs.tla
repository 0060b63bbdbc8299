-------------------------- MODULE VolumeSteps_proofs --------------------------
(***************************************************************************)
(* What the arithmetic of percent and steps does on every device that      *)
(* stepInfo accepts, cited by the theorems of VolumeControl and VolumeRow. *)
(***************************************************************************)
EXTENDS VolumeSteps, TLAPS

LEMMA ClampRange ==
    ASSUME NEW l \in Int
    PROVE  /\ Clamp(l) \in MinLevel..MaxLevel
           /\ l \in MinLevel..MaxLevel => Clamp(l) = l
BY DEF Clamp, MinLevel, MaxLevel

\* A quotient is where it should be.
LEMMA DivBounds ==
    ASSUME NEW a \in Int, NEW b \in Nat \ {0}
    PROVE  /\ a \div b \in Int
           /\ b * (a \div b) <= a
           /\ a < b * (a \div b) + b
OBVIOUS

LEMMA LevelRange ==
    ASSUME NEW n \in 1..MaxPlausibleSteps, NEW s \in 0..(n - 1)
    PROVE  LevelFromStep(s, n) \in MinLevel..MaxLevel
<1> USE DEF MinLevel, MaxLevel, MaxPlausibleSteps
<1>1. CASE n = 1
  BY <1>1 DEF LevelFromStep
<1>2. CASE n # 1
  <2> DEFINE top == n - 1
             a   == s * 100 + top \div 2
             q   == a \div top
  <2>1. top \in Nat \ {0} /\ a \in Int /\ a >= 0 /\ 2 * a <= 201 * top
    BY <1>2
  <2>2. LevelFromStep(s, n) = q
    BY <1>2 DEF LevelFromStep
  <2> HIDE DEF top, a
  <2>3. q \in Int /\ top * q <= a /\ a < top * q + top
    BY <2>1, DivBounds
  <2> HIDE DEF q
  <2>4. q >= 0
    <3>1. CASE q <= -1
      <4>1. top * q <= top * (-1)
        BY <2>1, <2>3, <3>1
      <4> QED
        BY <2>1, <2>3, <4>1
    <3> QED
      BY <2>3, <3>1
  <2>5. q <= 100
    <3>1. CASE q >= 101
      <4>1. top * q >= top * 101
        BY <2>1, <2>3, <3>1
      <4> QED
        BY <2>1, <2>3, <4>1
    <3> QED
      BY <2>3, <3>1
  <2> QED
    BY <2>2, <2>3, <2>4, <2>5
<1> QED
  BY <1>1, <1>2

LEMMA StepRange ==
    ASSUME NEW n \in 1..MaxPlausibleSteps, NEW l \in Int
    PROVE  /\ StepFromLevel(l, n) \in 0..(n - 1)
           /\ 100 * StepFromLevel(l, n) <= Clamp(l) * (n - 1) + 50
           /\ Clamp(l) * (n - 1) + 50 < 100 * StepFromLevel(l, n) + 100
<1> DEFINE x == Clamp(l) * (n - 1)
<1>1. Clamp(l) \in 0..100
  BY ClampRange DEF MinLevel, MaxLevel
<1>2. x \in Int /\ 0 <= x /\ x <= 100 * (n - 1)
  BY <1>1
<1>3. CASE n = 1
  BY <1>1, <1>3 DEF StepFromLevel
<1>4. CASE n # 1
  <2>1. StepFromLevel(l, n) = (x + 50) \div 100
    BY <1>4 DEF StepFromLevel, MaxLevel
  <2> HIDE DEF x
  <2> QED
    BY <1>2, <2>1 DEF x
<1> QED
  BY <1>3, <1>4

\* On a device of at most one step per percent, a step survives the way through
\* whole percent and back.
THEOREM RoundTrip ==
    ASSUME NEW n \in 1..(MaxLevel + 1), NEW s \in 0..(n - 1)
    PROVE  StepFromLevel(LevelFromStep(s, n), n) = s
<1> USE DEF MinLevel, MaxLevel, MaxPlausibleSteps
<1>1. CASE n = 1
  BY <1>1 DEF StepFromLevel
<1>2. CASE n # 1
  <2> DEFINE top == n - 1
             h   == top \div 2
             a   == s * 100 + h
             q   == LevelFromStep(s, n)
             t   == StepFromLevel(q, n)
             p   == top * q
  <2>1. /\ top \in 1..100 /\ n \in 1..MaxPlausibleSteps /\ s \in 0..top
        /\ h \in Int /\ 2 * h <= top /\ top <= 2 * h + 1
    BY <1>2
  <2>2. q \in 0..100
    <3>1. n \in 1..MaxPlausibleSteps
      BY <2>1
    <3> HIDE DEF MinLevel, MaxLevel, MaxPlausibleSteps
    <3>2. q \in MinLevel..MaxLevel
      BY <3>1, LevelRange
    <3> QED
      BY <3>2 DEF MinLevel, MaxLevel
  <2>3. q = a \div top
    BY <1>2 DEF LevelFromStep
  <2>4. p \in Int /\ Clamp(q) * (n - 1) = p
    <3> HIDE DEF q
    <3>1. Clamp(q) = q
      BY <2>2, ClampRange DEF MinLevel, MaxLevel
    <3>2. q \in Int /\ n - 1 \in Int /\ top = n - 1
      BY <2>1, <2>2
    <3>3. q * (n - 1) \in Int /\ q * (n - 1) = top * q
      <4> HIDE DEF top
      <4> QED
        BY <3>2
    <3> QED
      BY <3>1, <3>3
  <2>5. p <= a /\ a < p + top
    <3>1. a \in Int /\ top \in Nat \ {0}
      BY <2>1
    <3> HIDE DEF a, top, q
    <3> QED
      BY <2>3, <3>1, DivBounds
  <2>6. t \in 0..top /\ 100 * t <= p + 50 /\ p + 50 < 100 * t + 100
    <3>1. n \in 1..MaxPlausibleSteps /\ q \in Int
      BY <2>1, <2>2
    <3> HIDE DEF q, p, MaxPlausibleSteps
    <3> QED
      BY <2>4, <3>1, StepRange
  <2>7. CASE top = 100
    BY <2>1, <2>2, <2>5, <2>6, <2>7
  <2>8. CASE top # 100
    <3>1. t = s
      <4> HIDE DEF p, q, t, h, top
      <4> QED
        BY <2>1, <2>4, <2>5, <2>6, <2>8
    <3> QED
      BY <3>1
  <2> QED
    BY <2>7, <2>8
<1> QED
  BY <1>1, <1>2

\* The step a level is set to is as near to it as any.
THEOREM NearestStep ==
    ASSUME NEW n \in 1..MaxPlausibleSteps, NEW l \in Int, NEW s \in 0..(n - 1)
    PROVE  LET off(x) == x * MaxLevel - Clamp(l) * (n - 1)
               far(x) == IF off(x) < 0 THEN -off(x) ELSE off(x)
           IN  far(StepFromLevel(l, n)) <= far(s)
<1> DEFINE x == Clamp(l) * (n - 1)
           t == StepFromLevel(l, n)
<1>1. x \in Int
  BY ClampRange DEF MinLevel, MaxLevel
<1>2. t \in 0..(n - 1) /\ 100 * t <= x + 50 /\ x + 50 < 100 * t + 100
  BY StepRange
<1>3. s \in Int /\ (s <= t - 1 \/ s = t \/ s >= t + 1)
  BY <1>2
<1>4. (IF t * 100 - x < 0 THEN -(t * 100 - x) ELSE t * 100 - x)
        <= (IF s * 100 - x < 0 THEN -(s * 100 - x) ELSE s * 100 - x)
  <2> HIDE DEF x, t
  <2> QED
    BY <1>1, <1>2, <1>3
<1> QED
  BY <1>4 DEF MaxLevel

\* On a device of at least one step per percent, a level survives the way to its
\* step and back.
LEMMA FineRoundTrip ==
    ASSUME NEW n \in (MaxLevel + 1)..MaxPlausibleSteps, NEW l \in MinLevel..MaxLevel
    PROVE  LevelFromStep(StepFromLevel(l, n), n) = l
<1> USE DEF MinLevel, MaxLevel, MaxPlausibleSteps
<1> DEFINE top == n - 1
           h   == top \div 2
           s   == StepFromLevel(l, n)
           a   == s * 100 + h
           q   == LevelFromStep(s, n)
           x   == top * l
<1>1. top \in 100..999 /\ h \in Int /\ 2 * h <= top /\ top <= 2 * h + 1 /\ n # 0 /\ n # 1
  OBVIOUS
<1>2. x \in Int /\ Clamp(l) * (n - 1) = x
  BY ClampRange
<1>3. s \in 0..top /\ 100 * s <= x + 50 /\ x + 50 < 100 * s + 100
  <2>1. n \in 1..MaxPlausibleSteps /\ l \in Int
    OBVIOUS
  <2> HIDE DEF x, MinLevel, MaxLevel, MaxPlausibleSteps
  <2> QED
    BY <1>2, <2>1, StepRange
<1>4. q = a \div top
  <2> HIDE DEF s
  <2> QED
    BY <1>1, <1>3 DEF LevelFromStep
<1>5. x <= a /\ a < x + top
  <2>1. CASE top = 100
    <3>1. x = 100 * l
      BY <2>1
    <3> HIDE DEF x, s, top
    <3> QED
      BY <1>1, <1>3, <2>1, <3>1
  <2>2. CASE top # 100
    <3> HIDE DEF x, s, h, top
    <3> QED
      BY <1>1, <1>2, <1>3, <2>2
  <2> QED
    BY <2>1, <2>2
<1>6. q \in Int /\ top * q <= a /\ a < top * q + top
  <2>1. a \in Int /\ top \in Nat \ {0}
    BY <1>1, <1>3
  <2> HIDE DEF a, top, q
  <2> QED
    BY <1>4, <2>1, DivBounds
<1>7. a \in Int
  BY <1>1, <1>3
<1> HIDE DEF a, q, s, h
<1>8. ASSUME q >= l + 1 PROVE FALSE
  <2>1. top * q >= top * (l + 1)
    BY <1>1, <1>6, <1>8
  <2> QED
    BY <1>1, <1>5, <1>6, <1>7, <2>1
<1>9. ASSUME q <= l - 1 PROVE FALSE
  <2>1. top * q <= top * (l - 1)
    BY <1>1, <1>6, <1>9
  <2> QED
    BY <1>1, <1>5, <1>6, <1>7, <2>1
<1> QED
  BY <1>6, <1>8, <1>9 DEF q, s

\* What a level becomes on a device is a level the device keeps: writing the
\* state that was read back changes nothing, on any device.
THEOREM SettlesOnce ==
    ASSUME NEW n \in 1..MaxPlausibleSteps, NEW l \in MinLevel..MaxLevel
    PROVE  LET there == LevelFromStep(StepFromLevel(l, n), n)
           IN  /\ there \in MinLevel..MaxLevel
               /\ LevelFromStep(StepFromLevel(there, n), n) = there
<1> DEFINE s == StepFromLevel(l, n)
           there == LevelFromStep(s, n)
<1>1. l \in Int /\ s \in 0..(n - 1)
  BY StepRange DEF MinLevel, MaxLevel
<1>2. there \in MinLevel..MaxLevel
  BY <1>1, LevelRange
<1>3. CASE n <= MaxLevel + 1
  <2>1. n \in 1..(MaxLevel + 1)
    BY <1>3 DEF MaxPlausibleSteps
  <2>2. StepFromLevel(there, n) = s
    BY <1>1, <2>1, RoundTrip
  <2> QED
    BY <1>2, <2>2
<1>4. CASE n > MaxLevel + 1
  <2>1. n \in (MaxLevel + 1)..MaxPlausibleSteps
    BY <1>4 DEF MaxLevel
  <2>2. there = l
    BY <2>1, FineRoundTrip
  <2>3. LevelFromStep(StepFromLevel(l, n), n) = l
    BY <2>1, FineRoundTrip
  <2> QED
    BY <1>2, <2>2, <2>3
<1> QED
  BY <1>2, <1>3, <1>4 DEF MaxLevel
=============================================================================
