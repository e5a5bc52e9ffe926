--------------------------- MODULE SjaClock_proofs ---------------------------
(***************************************************************************)
(* sja1105_recreate_ts gives the time at which a frame left back from what *)
(* the register kept of it, for every size of the register.                *)
(* RecreateLate says what it gives when the register is read too late.     *)
(***************************************************************************)
EXTENDS SjaClock, TLAPS

LEMMA DivMod ==
  ASSUME NEW n \in Int, NEW w \in Nat \ {0}
  PROVE  /\ n \div w \in Int /\ n % w \in 0..(w - 1)
         /\ n = w * (n \div w) + (n % w)
  OBVIOUS

LEMMA DivUnique ==
  ASSUME NEW w \in Nat \ {0}, NEW a \in Int, NEW b \in Int,
         NEW x \in 0..(w - 1), NEW y \in 0..(w - 1),
         w * a + x = w * b + y
  PROVE  a = b /\ x = y
  OBVIOUS

\* The laps of two times less than a lap apart are the same or neighbours,
\* and the low bits tell which.
LEMMA Laps ==
  ASSUME NEW c \in Nat, NEW t \in Nat, t <= c, c < t + Wrap
  PROVE  t \div Wrap = IF c % Wrap < t % Wrap THEN (c \div Wrap) - 1
                                              ELSE c \div Wrap
<1> DEFINE qc == c \div Wrap  rc == c % Wrap
           qt == t \div Wrap  rt == t % Wrap
<1>1. /\ qc \in Int /\ rc \in 0..(Wrap - 1) /\ c = Wrap * qc + rc
      /\ qt \in Int /\ rt \in 0..(Wrap - 1) /\ t = Wrap * qt + rt
  BY DivMod, WrapAssumption
<1> HIDE DEF qc, rc, qt, rt
<1>2. Wrap * qt + rt <= Wrap * qc + rc /\ Wrap * qc + rc < Wrap * qt + rt + Wrap
  BY <1>1
<1>3. CASE rc < rt
  <2>1. qc = qt + 1
    BY <1>1, <1>2, <1>3, WrapAssumption
  <2> QED
    BY <1>1, <1>3, <2>1 DEF qc, rc, qt, rt
<1>4. CASE ~(rc < rt)
  <2>1. qc = qt
    BY <1>1, <1>2, <1>4, WrapAssumption
  <2> QED
    BY <1>1, <1>4, <2>1 DEF qc, rc, qt, rt
<1> QED
  BY <1>3, <1>4

\* sja1105_recreate_ts is exact: from the low bits of a time and a clock value
\* of that time or less than one lap of the register later, it computes that
\* time in ns.
THEOREM RecreateExact ==
  ASSUME NEW c \in Nat, NEW t \in Nat, t <= c, c < t + Wrap
  PROVE  RecreateTs(c, LowBits(t)) = NsPerTick * t
<1>1. t = Wrap * (t \div Wrap) + (t % Wrap) /\ t \div Wrap \in Int /\ t % Wrap \in Int
  BY DivMod, WrapAssumption
<1>2. t \div Wrap = IF c % Wrap < t % Wrap THEN (c \div Wrap) - 1 ELSE c \div Wrap
  BY Laps
<1>3. RecreateTs(c, LowBits(t)) = ((t \div Wrap) * Wrap + (t % Wrap)) * NsPerTick
  BY <1>2, Zenon DEF RecreateTs, LowBits
<1>4. (t \div Wrap) * Wrap = Wrap * (t \div Wrap)
  BY <1>1, WrapAssumption
<1> QED
  BY <1>1, <1>3, <1>4, WrapAssumption DEF NsPerTick

\* What sja1105_recreate_ts makes of a register that is read late, however
\* late: a time that is off by whole laps of the register only, and the last
\* such time that is not after the clock.
THEOREM RecreateLate ==
  ASSUME NEW c \in Nat, NEW t \in Nat, t <= c
  PROVE  \E k \in Nat : /\ RecreateTs(c, LowBits(t)) = NsPerTick * (t + Wrap * k)
                        /\ t + Wrap * k <= c /\ c < t + Wrap * k + Wrap
<1> DEFINE k == (c - t) \div Wrap  rest == (c - t) % Wrap
           q == t \div Wrap  r == t % Wrap
           u == t + Wrap * k
<1>1. k \in Int /\ rest \in 0..(Wrap - 1) /\ c - t = Wrap * k + rest
  <2>1. c - t \in Int
    OBVIOUS
  <2> QED
    BY <2>1, DivMod, WrapAssumption, Zenon
<1>2. q \in Int /\ r \in 0..(Wrap - 1) /\ t = Wrap * q + r
  BY DivMod, WrapAssumption
<1> HIDE DEF k, rest, q, r
<1>3. k \in Nat
  <2>1. CASE k < 0
    <3>1. Wrap * k <= -Wrap
      BY <1>1, <2>1, WrapAssumption
    <3> QED
      BY <1>1, <3>1, WrapAssumption
  <2> QED
    BY <1>1, <2>1
<1>4. u \in Nat /\ u <= c /\ c < u + Wrap
  <2>1. Wrap * k \in Nat
    BY <1>3, WrapAssumption
  <2> QED
    BY <1>1, <2>1, WrapAssumption
<1>5. u % Wrap = t % Wrap
  <2> DEFINE uq == u \div Wrap  ur == u % Wrap
  <2>1. uq \in Int /\ ur \in 0..(Wrap - 1) /\ u = Wrap * uq + ur
    <3>1. u \in Int
      BY <1>4
    <3> HIDE DEF u
    <3> QED
      BY <3>1, DivMod, WrapAssumption, Zenon
  <2> HIDE DEF uq, ur
  <2>2. q + k \in Int /\ u = Wrap * (q + k) + r
    BY <1>1, <1>2, WrapAssumption
  <2>3. Wrap * uq + ur = Wrap * (q + k) + r
    BY <2>1, <2>2
  <2>4. ur = r
    <3> DEFINE qk == q + k
    <3>1. qk \in Int /\ Wrap * uq + ur = Wrap * qk + r
      BY <2>2, <2>3
    <3> HIDE DEF qk
    <3> HIDE DEF u
    <3>2. uq = qk /\ ur = r
      BY <1>2, <2>1, <3>1, WrapAssumption, SMTT(30)
    <3> QED
      BY <3>2
  <2> QED
    BY <2>4 DEF ur, r
<1>6. RecreateTs(c, LowBits(u)) = NsPerTick * u
  BY <1>4, RecreateExact
<1>7. RecreateTs(c, LowBits(t)) = NsPerTick * u
  BY <1>5, <1>6, Zenon DEF LowBits
<1> QED
  BY <1>3, <1>4, <1>7

\* The bound the driver's polling rests on cannot be relaxed: the time is that
\* at which the frame left exactly when the clock is read within a lap.
THEOREM RecreateInTime ==
  ASSUME NEW c \in Nat, NEW t \in Nat, t <= c
  PROVE  (RecreateTs(c, LowBits(t)) = NsPerTick * t) <=> (c < t + Wrap)
<1>1. ASSUME c < t + Wrap PROVE RecreateTs(c, LowBits(t)) = NsPerTick * t
  BY <1>1, RecreateExact
<1>2. ASSUME RecreateTs(c, LowBits(t)) = NsPerTick * t PROVE c < t + Wrap
  <2>1. PICK k \in Nat : /\ RecreateTs(c, LowBits(t)) = NsPerTick * (t + Wrap * k)
                         /\ c < t + Wrap * k + Wrap
    BY RecreateLate
  <2>2. Wrap * k = 0
    <3> DEFINE m == Wrap * k
    <3>1. m \in Nat
      BY WrapAssumption
    <3>2. NsPerTick * (t + m) = NsPerTick * t
      BY <1>2, <2>1
    <3> HIDE DEF m
    <3>3. m = 0
      BY <3>1, <3>2 DEF NsPerTick
    <3> QED
      BY <3>3 DEF m
  <2> QED
    BY <2>1, <2>2, WrapAssumption
<1> QED
  BY <1>1, <1>2
=============================================================================
