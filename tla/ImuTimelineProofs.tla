-------------------------- MODULE ImuTimelineProofs --------------------------
(***************************************************************************)
(* The published IMU timeline for any width of the tick, any sample period *)
(* and any size of a FIFO read.                                            *)
(***************************************************************************)
EXTENDS ImuTimeline, FiniteSetTheorems, SequenceTheorems, TLAPS

Longest == MaxBatch * SamplePeriod

\* The stamps of one read: in the range of the tick, not running backwards,
\* no further apart than their places in the FIFO, and just as far where none
\* was cut off at zero.
StampsOf(s, p, newest) ==
  /\ s \in Seq(Ticks) /\ Len(s) \in Nat \ {0}
  /\ Len(s) = Len(p)
  /\ \A k \in 1..(Len(s) - 1) :
       /\ s[k + 1] - s[k] \in 0..Longest
       /\ newest >= Longest => s[k + 1] - s[k] = (p[k + 1] - p[k]) * SamplePeriod

IInv == TypeOK /\ Continuous /\ SpacingKeptAwayFromWrap
-----------------------------------------------------------------------------
(* Arithmetic of the tick.                                                 *)

LEMMA NumbersAre ==
  /\ TickModulus \in Nat /\ TickModulus > 0
  /\ SamplePeriod \in Nat \ {0} /\ MaxBatch \in Nat \ {0} /\ MaxGap \in Nat
  /\ Longest \in Nat /\ SamplePeriod <= Longest
  /\ 2 * Longest + 2 <= TickModulus
  /\ 0 \in Ticks /\ Ticks \subseteq Nat
<1>1. /\ SamplePeriod \in Nat /\ SamplePeriod > 0 /\ MaxBatch \in Nat /\ MaxBatch > 0
      /\ MaxGap \in Nat
      /\ MaxGap \in SamplePeriod..TickModulus
      /\ TickModulus > 2 * SamplePeriod * (MaxBatch + 1)
  BY TimelineAssumption
<1>2. TickModulus \in Int /\ Longest \in Nat
  BY <1>1, TimelineAssumption DEF Longest
<1>3. 2 * SamplePeriod * (MaxBatch + 1) = 2 * Longest + 2 * SamplePeriod
  BY <1>1 DEF Longest
<1>4. SamplePeriod <= Longest
  BY <1>1 DEF Longest
<1> HIDE DEF Longest
<1>5. 2 * Longest + 2 <= TickModulus /\ TickModulus \in Nat /\ TickModulus > 0
  BY <1>1, <1>2, <1>3
<1> QED
  BY <1>1, <1>2, <1>4, <1>5 DEF Ticks

LEMMA DivMod ==
  ASSUME NEW n \in Int, NEW m \in Nat, m > 0
  PROVE  \E q \in Int : n = m * q + (n % m) /\ n % m \in 0..(m - 1)
<1>1. n = m * (n \div m) + (n % m)
  OBVIOUS
<1>2. n \div m \in Int /\ n % m \in 0..(m - 1)
  OBVIOUS
<1> QED
  BY <1>1, <1>2

LEMMA ModIs ==
  ASSUME NEW m \in Nat, m > 0, NEW q \in Int, NEW r \in 0..(m - 1)
  PROVE  (m * q + r) % m = r
OBVIOUS

LEMMA WrapIs ==
  ASSUME NEW n \in Int
  PROVE  Wrap(n) \in Ticks /\ (n \in Ticks => Wrap(n) = n)
BY NumbersAre DEF Wrap, Ticks

\* The difference of two times less than half a circle apart survives the
\* wrap.
LEMMA SignedIs ==
  ASSUME NEW a \in Int, NEW d \in Nat, 2 * d + 2 <= TickModulus
  PROVE  Signed(Wrap(a + d), Wrap(a)) = d
<1> DEFINE m == TickModulus
           x == a % m
           y == (a + d) % m
<1>1. m \in Nat /\ m > 0 /\ d \in 0..(m - 1)
  BY NumbersAre
<1> HIDE DEF m
<1>2. PICK q \in Int : a = m * q + x /\ x \in 0..(m - 1)
  BY <1>1, DivMod
<1>3. PICK p \in Int : a + d = m * p + y /\ y \in 0..(m - 1)
  BY <1>1, DivMod
<1> HIDE DEF x, y
<1>4. m * (q - p) + d = y - x
  BY <1>1, <1>2, <1>3
<1>5. y - x > -m /\ y - x < m
  BY <1>1, <1>2, <1>3
<1>6. q - p \in Int /\ (q - p = 0 \/ q - p = -1)
  BY <1>1, <1>4, <1>5
<1>7. (y - x) % m = d
  BY <1>1, <1>4, <1>6, ModIs
<1>8. ~(d >= m \div 2)
  BY <1>1 DEF m
<1> QED
  BY <1>7, <1>8 DEF Signed, Wrap, m, x, y
-----------------------------------------------------------------------------
(* One FIFO read.                                                          *)

LEMMA FunctionIsSeq ==
  ASSUME NEW S, NEW n \in Nat, NEW f \in [1..n -> S]
  PROVE  f \in Seq(S) /\ Len(f) = n
<1>1. f \in Seq(S)
  BY SeqDef
<1> QED
  BY <1>1, LenProperties

\* A read ends behind its valid packets, and they are the first.
LEMMA ValidIs ==
  ASSUME NEW packets \in Packets
  PROVE  /\ Cardinality(Valid(packets)) \in 0..MaxBatch
         /\ Valid(packets) \subseteq 1..Cardinality(Valid(packets))
         /\ Full(packets) \subseteq Valid(packets)
         /\ IsFiniteSet(Full(packets))
<1> PICK n \in 1..MaxBatch : packets \in [1..n -> Kinds]
  BY DEF Packets
<1>1. n \in Nat /\ Len(packets) = n /\ n <= MaxBatch
  BY NumbersAre, FunctionIsSeq
<1> DEFINE V == Valid(packets)
<1>2. V \subseteq 1..n /\ \A i \in V : 1..i \subseteq V
  BY <1>1 DEF Valid
<1>3. IsFiniteSet(1..n) /\ Cardinality(1..n) = n
  BY <1>1, FS_Interval
<1> HIDE DEF V
<1>4. IsFiniteSet(V) /\ Cardinality(V) \in Nat /\ Cardinality(V) <= n
  BY <1>2, <1>3, FS_Subset, FS_CardinalityType
<1>5. ASSUME NEW i \in V
      PROVE  i \in 1..Cardinality(V)
  <2>1. i \in Nat /\ i >= 1 /\ 1..i \subseteq V
    BY <1>2
  <2>2. Cardinality(1..i) = i
    BY <2>1, FS_Interval
  <2>3. Cardinality(1..i) <= Cardinality(V)
    BY <1>4, <2>1, FS_Subset
  <2> QED
    BY <1>4, <2>1, <2>2, <2>3
<1>6. Full(packets) \subseteq V
  BY DEF Full, V
<1>7. IsFiniteSet(Full(packets))
  BY <1>4, <1>6, FS_Subset
<1>8. Cardinality(V) \in 0..MaxBatch
  BY <1>1, <1>4, NumbersAre
<1> QED
  BY <1>5, <1>6, <1>7, <1>8 DEF V

LEMMA PositionsAre ==
  ASSUME NEW packets \in Packets, Full(packets) # {}, NEW p \in Positions(packets)
  PROVE  /\ p \in Seq(1..Cardinality(Valid(packets))) /\ Len(p) \in Nat \ {0}
         /\ \A k \in 1..(Len(p) - 1) : p[k] < p[k + 1]
<1> DEFINE n == Cardinality(Full(packets))
           v == Cardinality(Valid(packets))
<1>1. n \in Nat \ {0}
  BY ValidIs, FS_CardinalityType, FS_EmptySet
<1>2. p \in [1..n -> Full(packets)] /\ \A j, k \in DOMAIN p : j < k => p[j] < p[k]
  BY DEF Positions
<1>3. Full(packets) \subseteq 1..v
  BY ValidIs
<1> HIDE DEF n, v
<1>4. p \in [1..n -> 1..v] /\ DOMAIN p = 1..n
  BY <1>2, <1>3
<1>5. p \in Seq(1..v) /\ Len(p) = n
  BY <1>1, <1>4, FunctionIsSeq
<1>6. \A k \in 1..(n - 1) : k \in 1..n /\ k + 1 \in 1..n /\ k < k + 1
  BY <1>1
<1> QED
  BY <1>1, <1>2, <1>4, <1>5, <1>6 DEF v

\* Two stamps, an age a and an age b, cut off at zero.
LEMMA CutOff ==
  ASSUME NEW t \in Nat, NEW a \in Nat, NEW b \in Nat, b <= a
  PROVE  LET A == IF t >= a THEN t - a ELSE 0
             B == IF t >= b THEN t - b ELSE 0
         IN  A \in 0..t /\ B - A \in 0..(a - b) /\ (t >= a => B - A = a - b)
OBVIOUS

LEMMA StampsAre ==
  ASSUME NEW packets \in Packets, Full(packets) # {}, NEW p \in Positions(packets),
         NEW t \in Ticks
  PROVE  StampsOf(Stamps(packets, p, t), p, t)
<1> DEFINE v == Cardinality(Valid(packets))
           n == Len(p)
           Age(k) == (v - p[k]) * SamplePeriod
           Stamp(k) == IF t >= Age(k) THEN t - Age(k) ELSE 0
           s == [k \in 1..n |-> Stamp(k)]
<1>1. /\ v \in Nat /\ v <= MaxBatch /\ p \in Seq(1..v) /\ n \in Nat \ {0}
      /\ \A k \in 1..n : p[k] \in 1..v
      /\ \A k \in 1..(n - 1) : p[k] < p[k + 1]
  BY ValidIs, PositionsAre
<1>2. Stamps(packets, p, t) = s
  BY DEF Stamps
<1>3. t \in Nat /\ t < TickModulus
  BY NumbersAre DEF Ticks
<1>4. SamplePeriod \in Nat /\ MaxBatch \in Nat /\ Longest = MaxBatch * SamplePeriod
  BY NumbersAre DEF Longest
<1> HIDE DEF v, n
<1>5. ASSUME NEW k \in 1..n
      PROVE  Age(k) \in Nat /\ Age(k) <= Longest /\ Stamp(k) \in Ticks
  <2> DEFINE d == v - p[k]
  <2>1. d \in Nat /\ d <= MaxBatch
    BY <1>1, <1>4
  <2> HIDE DEF d
  <2>2. d * SamplePeriod \in Nat /\ d * SamplePeriod <= MaxBatch * SamplePeriod
    BY <1>4, <2>1
  <2>3. Age(k) = d * SamplePeriod
    BY DEF d
  <2> DEFINE a == Age(k)
  <2>4. a \in Nat /\ a <= Longest
    BY <1>4, <2>2, <2>3
  <2> HIDE DEF a
  <2>5. (IF t >= a THEN t - a ELSE 0) \in Ticks
    BY <1>3, <2>4, NumbersAre DEF Ticks
  <2> QED
    BY <2>4, <2>5 DEF a
<1>6. s \in Seq(Ticks) /\ Len(s) = n
  <2>1. s \in [1..n -> Ticks]
    BY <1>5
  <2> HIDE DEF s
  <2> QED
    BY <1>1, <2>1, FunctionIsSeq
<1>7. ASSUME NEW k \in 1..(n - 1)
      PROVE  /\ s[k + 1] - s[k] \in 0..Longest
             /\ t >= Longest => s[k + 1] - s[k] = (p[k + 1] - p[k]) * SamplePeriod
  <2>1. /\ k \in 1..n /\ k + 1 \in 1..n /\ p[k] < p[k + 1]
        /\ p[k] \in 1..v /\ p[k + 1] \in 1..v
    BY <1>1
  <2> DEFINE a == Age(k)
             b == Age(k + 1)
             d == (p[k + 1] - p[k]) * SamplePeriod
  <2>2. a \in Nat /\ b \in Nat /\ a <= Longest /\ b <= Longest
    BY <1>5, <2>1
  <2>3. a - b = d /\ d \in Nat
    <3> DEFINE x == p[k]
               y == p[k + 1]
    <3>1. x \in Nat /\ y \in Nat /\ x < y /\ v \in Nat /\ SamplePeriod \in Nat
      BY <1>1, <1>4, <2>1
    <3> HIDE DEF x, y
    <3>2. /\ (v - x) * SamplePeriod - (v - y) * SamplePeriod = (y - x) * SamplePeriod
          /\ (y - x) * SamplePeriod \in Nat
      BY <3>1
    <3> QED
      BY <3>2 DEF x, y
  <2>4. s[k] = (IF t >= a THEN t - a ELSE 0) /\ s[k + 1] = (IF t >= b THEN t - b ELSE 0)
    BY <2>1
  <2> HIDE DEF a, b, d, s
  <2>5. b <= a
    BY <2>2, <2>3
  <2>6. s[k + 1] - s[k] \in 0..(a - b) /\ (t >= a => s[k + 1] - s[k] = a - b)
    BY <1>3, <2>2, <2>4, <2>5, CutOff
  <2>7. a - b <= Longest /\ Longest \in Nat
    BY <2>2, NumbersAre
  <2>8. s[k + 1] - s[k] \in 0..Longest
    BY <2>2, <2>6, <2>7
  <2>9. t >= Longest => s[k + 1] - s[k] = d
    BY <1>3, <2>2, <2>3, <2>6, <2>7
  <2> QED
    BY <2>8, <2>9 DEF d
<1> HIDE DEF s
<1>8. StampsOf(s, p, t)
  BY <1>1, <1>6, <1>7 DEF StampsOf, n
<1> QED
  BY <1>2, <1>8
-----------------------------------------------------------------------------
(* A publication.                                                          *)

\* What both cases of imu_timestamp_normalizer_apply come to: every stamp is
\* shifted by the same amount, and the first follows the last of the batch
\* before by one period.
LEMMA NormalizedIs ==
  ASSUME TypeOK, NEW s \in Seq(Ticks), Len(s) \in Nat \ {0}
  PROVE  LET out == Normalized(s)
             before == IF initialized THEN last ELSE Wrap(out[1] - SamplePeriod)
         IN  \E shift \in Int :
               /\ out \in Seq(Ticks) /\ Len(out) = Len(s)
               /\ \A k \in 1..Len(s) : out[k] = Wrap(s[k] + shift)
               /\ before \in Ticks
               /\ Signed(out[1], before) = SamplePeriod
<1> DEFINE out == Normalized(s)
           before == IF initialized THEN last ELSE Wrap(out[1] - SamplePeriod)
           n == Len(s)
<1>1. /\ SamplePeriod \in Nat /\ 2 * SamplePeriod + 2 <= TickModulus
      /\ Ticks \subseteq Int /\ last \in Ticks /\ n \in Nat \ {0}
      /\ \A k \in 1..n : s[k] \in Ticks
  BY NumbersAre DEF TypeOK
<1>i. 1 \in 1..n /\ \A k \in 1..n : s[k] \in Int
  <2> HIDE DEF n
  <2>1. 1 \in 1..n
    BY <1>1
  <2> QED
    BY <1>1, <2>1
<1>2. CASE ~initialized
  <2>1. out = s
    BY <1>2 DEF Normalized
  <2>2. \A k \in 1..n : s[k] + 0 = s[k] /\ Wrap(s[k]) = s[k]
    <3> HIDE DEF n
    <3> QED
      BY <1>1, <1>i, WrapIs
  <2>3. 1 \in 1..n /\ s[1] \in Int
    BY <1>i
  <2> DEFINE a == s[1] - SamplePeriod
  <2>4. a \in Int /\ a + SamplePeriod = s[1]
    BY <1>1, <2>3
  <2>5. before = Wrap(a)
    BY <1>2, <2>1
  <2> HIDE DEF a, out, before
  <2>6. Signed(Wrap(a + SamplePeriod), Wrap(a)) = SamplePeriod
    BY <1>1, <2>4, SignedIs
  <2>7. Signed(out[1], before) = SamplePeriod
    BY <2>1, <2>2, <2>3, <2>4, <2>5, <2>6
  <2>8. before \in Ticks
    BY <2>4, <2>5, WrapIs
  <2>9. /\ out \in Seq(Ticks) /\ Len(out) = n
        /\ \A k \in 1..n : out[k] = Wrap(s[k] + 0)
    BY <2>1, <2>2
  <2> QED
    BY <2>7, <2>8, <2>9 DEF out, before
<1>3. CASE initialized
  <2> DEFINE shift == last + SamplePeriod - s[1]
  <2>1. 1 \in 1..n /\ s[1] \in Int /\ last \in Int
    BY <1>1, <1>i
  <2>2. shift \in Int /\ s[1] + shift = last + SamplePeriod
    BY <1>1, <2>1
  <2>3. out = [k \in 1..n |-> Wrap(s[k] + shift)]
    BY <1>3 DEF Normalized
  <2>4. before = last
    BY <1>3
  <2> HIDE DEF shift, out, before, n
  <2>5. \A k \in 1..n : Wrap(s[k] + shift) \in Ticks
    <3>1. ASSUME NEW k \in 1..n
          PROVE  s[k] + shift \in Int
      BY <1>i, <2>2 DEF n
    <3> QED
      BY <3>1, WrapIs
  <2>6. out \in [1..n -> Ticks] /\ \A k \in 1..n : out[k] = Wrap(s[k] + shift)
    BY <2>3, <2>5
  <2>7. out \in Seq(Ticks) /\ Len(out) = n
    BY <1>1, <2>6, FunctionIsSeq
  <2>8. Signed(Wrap(last + SamplePeriod), Wrap(last)) = SamplePeriod
    BY <1>1, <2>1, SignedIs
  <2>9. Signed(out[1], before) = SamplePeriod
    BY <1>1, <2>1, <2>2, <2>4, <2>6, <2>8, WrapIs
  <2> QED
    BY <1>1, <2>2, <2>4, <2>6, <2>7, <2>9 DEF n, out, before
<1> QED
  BY <1>2, <1>3

LEMMA PublishKeeps ==
  ASSUME TypeOK, tick' \in Ticks, NEW s, NEW p, StampsOf(s, p, tick'), Publish(s, p)
  PROVE  IInv'
<1> DEFINE out == Normalized(s)
           before == IF initialized THEN last ELSE Wrap(out[1] - SamplePeriod)
           n == Len(s)
<1>1. /\ s \in Seq(Ticks) /\ n \in Nat \ {0} /\ n = Len(p)
      /\ \A k \in 1..n : s[k] \in Ticks
      /\ \A k \in 1..(n - 1) : s[k + 1] - s[k] \in 0..Longest
  BY DEF StampsOf
<1>2. /\ batch' = out /\ position' = p /\ prev' = before
      /\ last' = out[Len(out)] /\ initialized'
  BY DEF Publish
<1>3. PICK shift \in Int :
        /\ out \in Seq(Ticks) /\ Len(out) = n
        /\ \A k \in 1..n : out[k] = Wrap(s[k] + shift)
        /\ before \in Ticks
        /\ Signed(out[1], before) = SamplePeriod
  BY <1>1, NormalizedIs
<1> HIDE DEF out, before, n
<1>4. TypeOK'
  <2>1. n \in 1..n /\ \A k \in 1..n : out[k] \in Ticks
    BY <1>1, <1>3
  <2> QED
    BY <1>1, <1>2, <1>3, <2>1 DEF TypeOK
<1>5. ASSUME NEW k \in 1..(n - 1)
      PROVE  Signed(out[k + 1], out[k]) = s[k + 1] - s[k] /\ s[k + 1] - s[k] \in 0..Longest
  <2> DEFINE d == s[k + 1] - s[k]
             a == s[k] + shift
  <2>0. k \in 1..n /\ k + 1 \in 1..n
    BY <1>1
  <2>1. /\ k \in 1..n /\ k + 1 \in 1..n /\ s[k] \in Int /\ s[k + 1] \in Int
        /\ d \in 0..Longest
    <3>1. s[k] \in Ticks /\ s[k + 1] \in Ticks /\ Ticks \subseteq Int
      BY <1>1, <2>0, NumbersAre
    <3> QED
      BY <1>1, <2>0, <3>1
  <2>2. d \in Nat /\ 2 * d + 2 <= TickModulus
    BY <2>1, NumbersAre
  <2>3. a \in Int /\ s[k + 1] + shift = a + d
    BY <2>1
  <2>4. out[k] = Wrap(a) /\ out[k + 1] = Wrap(a + d)
    BY <1>3, <2>1, <2>3
  <2> HIDE DEF a, d
  <2>5. Signed(out[k + 1], out[k]) = d
    BY <2>2, <2>3, <2>4, SignedIs
  <2> QED
    BY <2>1, <2>5 DEF d
<1>6. Continuous'
  <2>1. /\ Len(<<prev'>> \o batch') = n + 1
        /\ (<<prev'>> \o batch')[1] = before
        /\ \A k \in 1..n : (<<prev'>> \o batch')[k + 1] = out[k]
    BY <1>1, <1>2, <1>3
  <2>2. Len(batch') = n
    BY <1>2, <1>3
  <2> SUFFICES ASSUME NEW k \in 1..n
               PROVE  LET step == Signed(Published'[k + 1], Published'[k])
                      IN  step >= 0 /\ step <= Longest
    BY <2>2 DEF Continuous, Longest
  <2>3. CASE k = 1
    <3>1. Published'[k + 1] = out[1] /\ Published'[k] = before
      BY <2>1, <2>3 DEF Published
    <3> QED
      BY <1>3, <3>1, NumbersAre
  <2>4. CASE k # 1
    <3>1. k - 1 \in 1..(n - 1) /\ (k - 1) + 1 = k /\ k - 1 \in 1..n
      BY <1>1, <2>4
    <3>2. Published'[k + 1] = out[k] /\ Published'[k] = out[k - 1]
      BY <2>1, <3>1 DEF Published
    <3>3. Signed(out[k], out[k - 1]) \in 0..Longest
      BY <1>5, <3>1
    <3> QED
      BY <3>2, <3>3, NumbersAre
  <2> QED
    BY <2>3, <2>4
<1>7. SpacingKeptAwayFromWrap'
  <2> SUFFICES ASSUME tick' >= Longest, NEW k \in 1..(n - 1)
               PROVE  Signed(out[k + 1], out[k]) = (p[k + 1] - p[k]) * SamplePeriod
    BY <1>2, <1>3 DEF SpacingKeptAwayFromWrap, SpacingKept, Longest
  <2>1. s[k + 1] - s[k] = (p[k + 1] - p[k]) * SamplePeriod
    BY DEF StampsOf, n
  <2> QED
    BY <1>5, <2>1
<1> QED
  BY <1>4, <1>6, <1>7 DEF IInv
-----------------------------------------------------------------------------
LEMMA InitIInv == Init => IInv
<1> SUFFICES ASSUME Init PROVE IInv
  OBVIOUS
<1>1. TypeOK
  BY NumbersAre DEF Init, TypeOK
<1>2. Len(batch) = 0
  BY DEF Init
<1> QED
  BY <1>1, <1>2 DEF IInv, Continuous, SpacingKeptAwayFromWrap, SpacingKept

LEMMA NextIInv == IInv /\ [Next]_vars => IInv'
<1> SUFFICES ASSUME IInv, [Next]_vars PROVE IInv'
  OBVIOUS
<1>1. TypeOK /\ tick \in Nat
  BY NumbersAre DEF IInv, TypeOK
<1>2. ASSUME NEW gap \in 1..MaxGap, NEW packets \in Packets, Full(packets) # {},
             tick' = Wrap(tick + gap), NEW p \in Positions(packets),
             Publish(Stamps(packets, p, tick'), p)
      PROVE  IInv'
  <2>1. tick + gap \in Int
    BY <1>1, NumbersAre
  <2>2. tick' \in Ticks
    BY <1>2, <2>1, WrapIs
  <2>3. StampsOf(Stamps(packets, p, tick'), p, tick')
    BY <1>2, <2>2, StampsAre
  <2> QED
    BY <1>1, <1>2, <2>2, <2>3, PublishKeeps
<1>3. CASE MockSample
  <2>1. PICK gap \in SamplePeriod..MaxGap :
          tick' = Wrap(tick + gap) /\ Publish(<<tick'>>, <<1>>)
    BY <1>3 DEF MockSample
  <2>2. tick + gap \in Int
    BY <1>1, <2>1, NumbersAre
  <2>3. tick' \in Ticks
    BY <2>1, <2>2, WrapIs
  <2>4. StampsOf(<<tick'>>, <<1>>, tick')
    BY <2>3 DEF StampsOf
  <2> QED
    BY <1>1, <2>1, <2>3, <2>4, PublishKeeps
<1>4. CASE UNCHANGED vars
  BY <1>4 DEF vars, IInv, TypeOK, Continuous, Published, SpacingKeptAwayFromWrap, SpacingKept
<1> QED
  BY <1>2, <1>3, <1>4 DEF Next, FifoBatch

\* Every published timestamp fits the field it is sent in.
THEOREM TypeCorrect == Spec => []TypeOK
<1>1. IInv => TypeOK
  BY DEF IInv
<1> QED
  BY <1>1, InitIInv, NextIInv, PTL DEF Spec

\* The published timeline never runs backwards and never leaves a hole wider
\* than one FIFO read, whatever the packets, the reads and the wraps.
THEOREM TimelineCorrect == Spec => []Continuous
<1>1. IInv => Continuous
  BY DEF IInv
<1> QED
  BY <1>1, InitIInv, NextIInv, PTL DEF Spec

\* The samples of a read keep their distance, also around those that were not
\* published, unless the read came within one batch behind a wrap of the tick.
THEOREM SpacingCorrect == Spec => []SpacingKeptAwayFromWrap
<1>1. IInv => SpacingKeptAwayFromWrap
  BY DEF IInv
<1> QED
  BY <1>1, InitIInv, NextIInv, PTL DEF Spec
=============================================================================
