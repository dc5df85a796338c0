---------------------------- MODULE KernelProofs ----------------------------
(***************************************************************************)
(* Theorems about the two decoders of MCKernels.  G726Scale: the ranges hold   *)
(* after any number of codewords.  GsmBlock: the bits of a block and the history *)
(* across frames, for any number of frames and any lags.                     *)
(***************************************************************************)
EXTENDS MCKernels, TLAPS

Within(v, low, high) == v \in Int /\ low <= v /\ v <= high

(* What the scale factors and the speed control need of each other, and the      *)
(* signs and bounds the poles need.                                          *)
Ranges ==
  /\ bits \in 2 .. 5
  /\ Within(yu, 544, 5120) /\ Within(y, 544, 5120) /\ Within(yl, 34816, 327680)
  /\ Within(ap, 0, 512) /\ Within(dms, 0, 3584) /\ Within(dml, 0, 14336)

PoleInv ==
  /\ Within(a1, -12288, 12288) /\ Within(a0, a1 - 15360, 15360 - a1)
  /\ pk0 \in {-1, 1} /\ pk1 \in {-1, 1}

-----------------------------------------------------------------------------
(* Tables, products and shifts                                               *)

Bounded(row, m) ==
  Within(IQuant[row][m], -32768, 566) /\ Within(W[row][m], -22, 1122) /\ Within(F[row][m], 0, 7)

LEMMA Rows ==
  /\ \A m \in 1 .. 2 : Bounded(1, m)
  /\ \A m \in 1 .. 4 : Bounded(2, m)
  /\ \A m \in 1 .. 8 : Bounded(3, m)
  /\ \A m \in 1 .. 16 : Bounded(4, m)
<1>1. ASSUME NEW m \in 1 .. 2
      PROVE  Bounded(1, m)
  <2>1. Within(IQuant[1][m], -32768, 566)
    BY DEF IQuant, Silent, Within
  <2>2. Within(W[1][m], -22, 1122)
    BY DEF W, Within
  <2>3. Within(F[1][m], 0, 7)
    BY DEF F, Within
  <2> QED BY <2>1, <2>2, <2>3 DEF Bounded
<1>2. ASSUME NEW m \in 1 .. 4
      PROVE  Bounded(2, m)
  <2>1. Within(IQuant[2][m], -32768, 566)
    BY DEF IQuant, Silent, Within
  <2>2. Within(W[2][m], -22, 1122)
    BY DEF W, Within
  <2>3. Within(F[2][m], 0, 7)
    BY DEF F, Within
  <2> QED BY <2>1, <2>2, <2>3 DEF Bounded
<1>3. ASSUME NEW m \in 1 .. 8
      PROVE  Bounded(3, m)
  <2>1. Within(IQuant[3][m], -32768, 566)
    BY DEF IQuant, Silent, Within
  <2>2. Within(W[3][m], -22, 1122)
    BY DEF W, Within
  <2>3. Within(F[3][m], 0, 7)
    BY DEF F, Within
  <2> QED BY <2>1, <2>2, <2>3 DEF Bounded
<1>4. ASSUME NEW m \in 1 .. 16
      PROVE  Bounded(4, m)
  <2>1. Within(IQuant[4][m], -32768, 566)
    BY DEF IQuant, Silent, Within
  <2>2. Within(W[4][m], -22, 1122)
    BY DEF W, Within
  <2>3. Within(F[4][m], 0, 7)
    BY DEF F, Within
  <2> QED BY <2>1, <2>2, <2>3 DEF Bounded
<1> QED BY <1>1, <1>2, <1>3, <1>4

LEMMA TableBounds ==
  ASSUME NEW b \in 2 .. 5, NEW m \in 1 .. 2 ^ (b - 1)
  PROVE  Bounded(b - 1, m)
<1> DEFINE row == b - 1
<1>5. row = 1 \/ row = 2 \/ row = 3 \/ row = 4
  OBVIOUS
<1>6. m \in 1 .. 2 ^ row
  OBVIOUS
<1> HIDE DEF row
<1>1. CASE row = 1
  <2>1. m \in 1 .. 2
    BY <1>6, <1>1
  <2>2. Bounded(1, m)
    BY <2>1, Rows
  <2> QED BY <1>1, <2>2 DEF row
<1>2. CASE row = 2
  <2>1. m \in 1 .. 4
    BY <1>6, <1>2
  <2>2. Bounded(2, m)
    BY <2>1, Rows
  <2> QED BY <1>2, <2>2 DEF row
<1>3. CASE row = 3
  <2>1. m \in 1 .. 8
    BY <1>6, <1>3
  <2>2. Bounded(3, m)
    BY <2>1, Rows
  <2> QED BY <1>3, <2>2 DEF row
<1>4. CASE row = 4
  <2>1. m \in 1 .. 16
    BY <1>6, <1>4
  <2>2. Bounded(4, m)
    BY <2>1, Rows
  <2> QED BY <1>4, <2>2 DEF row
<1> QED BY <1>1, <1>2, <1>3, <1>4, <1>5 DEF row

LEMMA WithinIs ==
  ASSUME NEW v, NEW low \in Int, NEW high \in Int, Within(v, low, high)
  PROVE  v \in Int /\ low <= v /\ v <= high /\ InRange(v, low, high)
BY DEF Within, InRange

LEMMA Clipped ==
  ASSUME NEW v \in Int, NEW low \in Int, NEW high \in Int, low <= high
  PROVE  Within(Clip(v, low, high), low, high)
BY DEF Clip, Within

LEMMA Products ==
  ASSUME NEW a \in Nat, NEW n \in Nat, NEW b \in 0 .. n
  PROVE  a * b \in Nat /\ a * b <= a * n
OBVIOUS

(* The weighted mean of the fast and the slow factor lies between them.        *)
LEMMA Mixed ==
  ASSUME NEW q, NEW u, NEW al,
         Within(q, 544, 5120), Within(u, 544, 5120), Within(al, 0, 64)
  PROVE  Within(64 * q + (u - q) * al, 34816, 327680) /\ (u - q) * al \in Int
<1> DEFINE x == (u - q) * al
<1>1. q \in Int /\ 544 <= q /\ q <= 5120 /\ u \in Int /\ 544 <= u /\ u <= 5120 /\ al \in 0 .. 64
  BY DEF Within
<1>2. x \in Int /\ 34816 <= 64 * q + x /\ 64 * q + x <= 327680
  <2>1. CASE u >= q
    <3> DEFINE d == u - q
               z == d * al
    <3>1. d \in Nat /\ d = u - q /\ x = z
      BY <1>1, <2>1
    <3> HIDE DEF d, x
    <3>2. z \in Nat /\ z <= d * 64
      BY <1>1, <3>1, Products
    <3> HIDE DEF z
    <3> QED BY <1>1, <3>1, <3>2
  <2>2. CASE u < q
    <3> DEFINE d == q - u
               z == d * al
    <3>1. d \in Nat /\ d = q - u
      BY <1>1, <2>2
    <3>2. x = -z
      BY <1>1
    <3> HIDE DEF d, x
    <3>3. z \in Nat /\ z <= d * 64
      BY <1>1, <3>1, Products
    <3> HIDE DEF z
    <3> QED BY <1>1, <3>1, <3>2, <3>3
  <2> QED BY <1>1, <2>1, <2>2
<1> HIDE DEF x
<1>3. Within(64 * q + x, 34816, 327680) /\ x \in Int
  BY <1>1, <1>2 DEF Within
<1> QED BY <1>3 DEF x

(* inverse_quant's shift stays within sixteen bits.                          *)
LEMMA Shifted ==
  ASSUME NEW d, Within(d, 0, 1846)
  PROVE  Within(((128 + (d % 128)) * (2 ^ ((d \div 128) % 16))) \div 128, 0, 32767)
<1> DEFINE k == d \div 128
           e == k % 16
           r == 128 + (d % 128)
           p == 2 ^ e
           x == r * p
<1>1. k \in 0 .. 14 /\ r \in 0 .. 255
  BY DEF Within
<1> HIDE DEF k, r
<1>2. e \in 0 .. 14
  BY <1>1
<1> HIDE DEF e
<1>3. Within(p, 1, 16384)
  <2> DEFINE Goal == Within(2 ^ e, 1, 16384)
  <2>0. e = 0 => Goal
    BY DEF Within
  <2>1. e = 1 => Goal
    BY DEF Within
  <2>2. e = 2 => Goal
    BY DEF Within
  <2>3. e = 3 => Goal
    BY DEF Within
  <2>4. e = 4 => Goal
    BY DEF Within
  <2>5. e = 5 => Goal
    BY DEF Within
  <2>6. e = 6 => Goal
    BY DEF Within
  <2>7. e = 7 => Goal
    BY DEF Within
  <2>8. e = 8 => Goal
    BY DEF Within
  <2>9. e = 9 => Goal
    BY DEF Within
  <2>10. e = 10 => Goal
    BY DEF Within
  <2>11. e = 11 => Goal
    BY DEF Within
  <2>12. e = 12 => Goal
    BY DEF Within
  <2>13. e = 13 => Goal
    BY DEF Within
  <2>14. e = 14 => Goal
    BY DEF Within
  <2>20. e = 0 \/ e = 1 \/ e = 2 \/ e = 3 \/ e = 4 \/ e = 5 \/ e = 6 \/ e = 7
         \/ e = 8 \/ e = 9 \/ e = 10 \/ e = 11 \/ e = 12 \/ e = 13 \/ e = 14
    BY <1>2
  <2> HIDE DEF Goal
  <2>21. Goal
    BY <2>20, <2>0, <2>1, <2>2, <2>3, <2>4, <2>5, <2>6, <2>7,
       <2>8, <2>9, <2>10, <2>11, <2>12, <2>13, <2>14
  <2> QED BY <2>21 DEF Goal
<1> HIDE DEF p
<1>4. p \in Nat /\ p \in 0 .. 16384 /\ r \in Nat
  BY <1>1, <1>3 DEF Within
<1>5. x \in Nat /\ x <= r * 16384
  BY <1>4, Products
<1> HIDE DEF x
<1>6. x <= 4177920
  BY <1>1, <1>5
<1>7. Within(x \div 128, 0, 32767)
  BY <1>5, <1>6 DEF Within
<1> QED BY <1>7 DEF x, p, e, r, k

LEMMA Quarter ==
  ASSUME NEW a, Within(a, 0, 512), ~(a >= 256)
  PROVE  Within(a \div 4, 0, 64)
BY DEF Within

LEMMA Triangle ==
  ASSUME NEW a, Within(a, -12288, 12288)
  PROVE  a - 15360 \in Int /\ 15360 - a \in Int /\ a - 15360 <= 15360 - a
BY DEF Within

(* The leaks of the averages, of the slow factor, and the mixing.            *)
LEMMA Averages ==
  ASSUME NEW d, NEW l, NEW a, NEW f,
         Within(d, 0, 3584), Within(l, 0, 14336), Within(a, 0, 512), Within(f, 0, 7)
  PROVE  /\ Within(d + 16 * f + Leak(d, 32), 0, 3584)
         /\ Within(l + 16 * f + Leak(l, 128), 0, 14336)
         /\ Within(a + Leak(a, 16) + 32, 0, 512) /\ Within(a + Leak(a, 16) + 0, 0, 512)
<1>1. Within(d + 16 * f + Leak(d, 32), 0, 3584)
  BY DEF Within, Leak
<1>2. Within(l + 16 * f + Leak(l, 128), 0, 14336)
  BY DEF Within, Leak
<1>3. Within(a + Leak(a, 16) + 32, 0, 512) /\ Within(a + Leak(a, 16) + 0, 0, 512)
  BY DEF Within, Leak
<1> QED BY <1>1, <1>2, <1>3

LEMMA FastBounds ==
  ASSUME NEW v, NEW w, Within(v, 544, 5120), Within(w, -22, 1122)
  PROVE  Within(Clip(v + w + Leak(v, 32), 544, 5120), 544, 5120)
<1>1. v + w + Leak(v, 32) \in Int
  BY DEF Within, Leak
<1> QED BY <1>1, Clipped

LEMMA SlowBounds ==
  ASSUME NEW v, NEW u, Within(v, 34816, 327680), Within(u, 544, 5120)
  PROVE  Within(v + u + Leak(v, 64), 34816, 327680)
BY DEF Within, Leak

LEMMA MeanBounds ==
  ASSUME NEW v, NEW u, NEW al,
         Within(v, 34816, 327680), Within(u, 544, 5120), Within(al, 0, 64)
  PROVE  Within((v + (u - v \div 64) * al) \div 64, 544, 5120)
<1> DEFINE q == v \div 64
           x == (u - q) * al
<1>1. Within(q, 544, 5120) /\ Within(v - 64 * q, 0, 63) /\ v \in Int
  BY DEF Within
<1> HIDE DEF q
<1>2. Within(64 * q + x, 34816, 327680) /\ x \in Int
  BY <1>1, Mixed
<1> HIDE DEF x
<1>3. Within((v + x) \div 64, 544, 5120)
  BY <1>1, <1>2 DEF Within
<1> QED BY <1>3 DEF x, q

-----------------------------------------------------------------------------
(* One step                                                                  *)

LEMMA CodeBounds ==
  ASSUME Ranges, NEW m \in Magnitudes
  PROVE  Bounded(bits - 1, m)
<1>1. bits \in 2 .. 5 /\ m \in 1 .. 2 ^ (bits - 1)
  BY DEF Ranges, Magnitudes
<1> QED BY <1>1, TableBounds

LEMMA SpeedStep ==
  ASSUME Ranges, NEW m \in Magnitudes, NEW tr \in BOOLEAN, Speed(m, tr)
  PROVE  Within(ap', 0, 512) /\ Within(dms', 0, 3584) /\ Within(dml', 0, 14336)
<1> DEFINE f == F[bits - 1][m]
<1>1. Within(f, 0, 7)
  BY CodeBounds DEF Bounded
<1>2. dms' = dms + 16 * f + Leak(dms, 32) /\ dml' = dml + 16 * f + Leak(dml, 128)
  BY DEF Speed
<1>3. ap' = 256 \/ ap' = ap + Leak(ap, 16) + 32 \/ ap' = ap + Leak(ap, 16) + 0
  BY DEF Speed
<1> HIDE DEF f
<1>4. Within(dms, 0, 3584) /\ Within(dml, 0, 14336) /\ Within(ap, 0, 512)
  BY DEF Ranges
<1>5. Within(256, 0, 512)
  BY DEF Within
<1>6. /\ Within(dms + 16 * f + Leak(dms, 32), 0, 3584)
      /\ Within(dml + 16 * f + Leak(dml, 128), 0, 14336)
      /\ Within(ap + Leak(ap, 16) + 32, 0, 512) /\ Within(ap + Leak(ap, 16) + 0, 0, 512)
  BY <1>1, <1>4, Averages
<1> QED BY <1>2, <1>3, <1>5, <1>6

LEMMA ScaleStep ==
  ASSUME Ranges, NEW m \in Magnitudes, Within(ap', 0, 512), Scale(m)
  PROVE  Within(yu', 544, 5120) /\ Within(yl', 34816, 327680) /\ Within(y', 544, 5120)
<1> DEFINE w == W[bits - 1][m]
<1>1. Within(w, -22, 1122)
  BY CodeBounds DEF Bounded
<1>2. /\ yu' = Clip(y + w + Leak(y, 32), 544, 5120)
      /\ yl' = yl + yu' + Leak(yl, 64)
      /\ y' = (yl' + (yu' - yl' \div 64) * Al) \div 64
  BY DEF Scale
<1> HIDE DEF w
<1>3. Within(y, 544, 5120) /\ Within(yl, 34816, 327680)
  BY DEF Ranges
<1>4. Within(yu', 544, 5120)
  BY <1>1, <1>2, <1>3, FastBounds
<1>5. Within(yl', 34816, 327680)
  BY <1>2, <1>3, <1>4, SlowBounds
<1>6. Within(Al, 0, 64)
  <2>1. CASE ap' >= 256
    BY <2>1 DEF Al, Within
  <2>2. CASE ~(ap' >= 256)
    <3>1. Al = ap' \div 4
      BY <2>2 DEF Al
    <3> QED BY <2>2, <3>1, Quarter
  <2> QED BY <2>1, <2>2
<1>7. Within(y', 544, 5120)
  BY <1>2, <1>4, <1>5, <1>6, MeanBounds
<1> QED BY <1>4, <1>5, <1>7

LEMMA PoleStep ==
  ASSUME PoleInv, NEW s \in {-1, 0, 1}, NEW tr \in BOOLEAN, Poles(tr, s), Signs(s)
  PROVE  PoleInv'
<1>1. pk0' \in {-1, 1} /\ pk1' \in {-1, 1}
  BY DEF PoleInv, Signs
<1>2. CASE tr
  BY <1>1, <1>2 DEF Poles, PoleInv, Within
<1>3. CASE ~tr
  <2>1. a0 * pk0 * s \in Int /\ s * pk1 * 128 \in Int /\ s * pk0 * 192 \in Int /\ a0 \in Int /\ a1 \in Int
    BY DEF PoleInv, Within
  <2>2. Fa1(s) \in Int
    BY <2>1 DEF Fa1, Clip
  <2>3. Within(a1', -12288, 12288)
    <3> DEFINE v == a1 + s * pk1 * 128 + Fa1(s) - a1 \div 128
    <3>1. v \in Int
      BY <2>1, <2>2
    <3>2. a1' = Clip(v, -12288, 12288)
      BY <1>3 DEF Poles
    <3> HIDE DEF v
    <3> QED BY <3>1, <3>2, Clipped
  <2>4. Within(a0', a1' - 15360, 15360 - a1')
    <3> DEFINE v == a0 + s * pk0 * 192 - a0 \div 256
    <3>1. v \in Int
      BY <2>1
    <3>2. a0' = Clip(v, a1' - 15360, 15360 - a1')
      BY <1>3 DEF Poles
    <3>3. a1' - 15360 \in Int /\ 15360 - a1' \in Int /\ a1' - 15360 <= 15360 - a1'
      BY <2>3, Triangle
    <3> HIDE DEF v
    <3>4. Within(Clip(v, a1' - 15360, 15360 - a1'), a1' - 15360, 15360 - a1')
      BY <3>1, <3>3, Clipped
    <3> QED BY <3>2, <3>4
  <2> QED BY <1>1, <2>3, <2>4 DEF PoleInv
<1> QED BY <1>2, <1>3

-----------------------------------------------------------------------------
(* The theorems                                                              *)

(* Core::adapt_scale: clipping yu alone keeps every scale factor and the speed     *)
(* control in range, and the quantized difference within sixteen bits.       *)
THEOREM ScaleStaysInRange == Spec => []ScaleInRange
<1>1. Init => Ranges
  BY DEF Init, Ranges, Within
<1>2. Ranges /\ [Step]_vars => Ranges'
  <2> SUFFICES ASSUME Ranges, [Step]_vars
               PROVE  Ranges'
    OBVIOUS
  <2>1. ASSUME NEW m \in Magnitudes, NEW s \in {-1, 0, 1}, Decode(m, s)
        PROVE  Ranges'
    <3>1. Within(ap', 0, 512) /\ Within(dms', 0, 3584) /\ Within(dml', 0, 14336)
      <4>1. Transition(m) \in BOOLEAN
        BY DEF Transition
      <4> QED BY <2>1, <4>1, SpeedStep DEF Decode
    <3>2. Within(yu', 544, 5120) /\ Within(yl', 34816, 327680) /\ Within(y', 544, 5120)
      BY <2>1, <3>1, ScaleStep DEF Decode
    <3> QED BY <2>1, <3>1, <3>2 DEF Decode, Ranges
  <2>2. CASE UNCHANGED vars
    BY <2>2 DEF Ranges, vars, scale, speed
  <2> QED BY <2>1, <2>2 DEF Step
<1>3. Ranges => ScaleInRange
  <2> SUFFICES ASSUME Ranges
               PROVE  ScaleInRange
    OBVIOUS
  <2>1. ASSUME NEW m \in Magnitudes
        PROVE  Dql(m) < 2048 /\ InRange(Dq(m), 0, 32767)
    <3> DEFINE quant == IQuant[bits - 1][m]
    <3>1. Within(quant, -32768, 566)
      BY CodeBounds DEF Bounded
    <3>2. Dql(m) = quant + y \div 4
      BY DEF Dql
    <3> HIDE DEF quant
    <3>3. Dql(m) \in Int /\ Dql(m) <= 1846
      BY <3>1, <3>2 DEF Ranges, Within
    <3>4. Within(Dq(m), 0, 32767)
      <4>1. CASE Dql(m) < 0
        BY <4>1 DEF Dq, Within
      <4>2. CASE ~(Dql(m) < 0)
        <5> DEFINE d == Dql(m)
        <5>1. Within(d, 0, 1846)
          BY <4>2, <3>3 DEF Within
        <5>2. Dq(m) = ((128 + (d % 128)) * (2 ^ ((d \div 128) % 16))) \div 128
          BY <4>2 DEF Dq
        <5> HIDE DEF d
        <5> QED BY <5>1, <5>2, Shifted
      <4> QED BY <4>1, <4>2
    <3> QED BY <3>3, <3>4, WithinIs
  <2>2. InRange(yu, 544, 5120) /\ InRange(y, 544, 5120) /\ InRange(yl, 34816, 327680)
    BY WithinIs DEF Ranges
  <2>3. InRange(ap, 0, 512) /\ InRange(dms, 0, 3584) /\ InRange(dml, 0, 14336)
    BY WithinIs DEF Ranges
  <2> QED BY <2>1, <2>2, <2>3 DEF ScaleInRange
<1> QED BY <1>1, <1>2, <1>3, PTL DEF Spec

(* Core::adapt_predictor: the poles stay in the triangle of stability, so the     *)
(* bounds that i32::clamp is given never cross.                              *)
THEOREM PolesStayStable == Spec => []PolesAreStable
<1>1. Init => PoleInv
  BY DEF Init, PoleInv, Within
<1>2. PoleInv /\ [Step]_vars => PoleInv'
  <2> SUFFICES ASSUME PoleInv, [Step]_vars
               PROVE  PoleInv'
    OBVIOUS
  <2>1. ASSUME NEW m \in Magnitudes, NEW s \in {-1, 0, 1}, Decode(m, s)
        PROVE  PoleInv'
    <3>1. Transition(m) \in BOOLEAN
      BY DEF Transition
    <3> QED BY <2>1, <3>1, PoleStep DEF Decode
  <2>2. CASE UNCHANGED vars
    BY <2>2 DEF PoleInv, vars, poles
  <2> QED BY <2>1, <2>2 DEF Step
<1>3. PoleInv => PolesAreStable
  BY DEF PoleInv, PolesAreStable, Abs, Within, InRange
<1> QED BY <1>1, <1>2, <1>3, PTL DEF Spec

-----------------------------------------------------------------------------
(* GsmBlock                                                                  *)

LEMMA LagRange ==
  ASSUME NEW raw \in RawLags
  PROVE  Gsm!Lag(raw) \in 40 .. 120
<1>1. raw \in 0 .. 127
  BY KernelAssumption
<1> QED BY <1>1 DEF Gsm!Lag, Gsm!SubSamples, Gsm!History

LEMMA SourceIndex ==
  ASSUME NEW s \in 0 .. 3, NEW i \in 0 .. 39, NEW l \in 40 .. 120,
         NEW here, here = 120 + 40 * s
  PROVE  here + i - l \in 0 .. 279 /\ here + i - l < here
OBVIOUS

LEMMA PulsesFit ==
  ASSUME NEW at \in Int, NEW offset \in 0 .. 3
  PROVE  Gsm!Pulses(at, offset) \subseteq at .. at + 39
BY DEF Gsm!Pulses

LEMMA GsmBegins == Gsm!Init => Gsm!GsmInv
<1> SUFFICES ASSUME Gsm!Init PROVE Gsm!GsmInv
  OBVIOUS
<1>1. Gsm!BitsInv
  BY DEF Gsm!Init, Gsm!BitsInv
<1>2. Gsm!RefInv
  BY DEF Gsm!Init, Gsm!RefInv, Gsm!Decoded, Gsm!History, Gsm!SubSamples, Gsm!FrameSamples
<1>3. Gsm!RatioInv
  BY DEF Gsm!Init, Gsm!RatioInv
<1>4. Gsm!HistoryInv
  BY DEF Gsm!Init, Gsm!HistoryInv, Gsm!History, Gsm!SubSamples, Gsm!FrameSamples
<1> QED BY <1>1, <1>2, <1>3, <1>4 DEF Gsm!GsmInv

LEMMA NewBlockStep ==
  ASSUME Gsm!GsmInv, Gsm!NewBlock
  PROVE  Gsm!GsmInv'
<1> USE DEF Gsm!NewBlock, Gsm!GsmInv
<1>1. Gsm!BitsInv'
  BY DEF Gsm!BitsInv
<1>2. Gsm!RefInv'
  BY DEF Gsm!RefInv, Gsm!Decoded
<1>3. Gsm!RatioInv'
  BY DEF Gsm!RatioInv
<1>4. Gsm!HistoryInv'
  BY DEF Gsm!HistoryInv
<1> QED BY <1>1, <1>2, <1>3, <1>4

LEMMA RatiosStep ==
  ASSUME Gsm!GsmInv, Gsm!Ratios
  PROVE  Gsm!GsmInv'
<1> USE DEF Gsm!Ratios, Gsm!GsmInv
<1>1. Gsm!BitsInv'
  BY DEF Gsm!BitsInv, Gsm!RatioBits, Gsm!SubBits
<1>2. Gsm!RefInv'
  BY DEF Gsm!RefInv, Gsm!Decoded
<1>3. Gsm!RatioInv'
  BY DEF Gsm!RatioInv, Gsm!BitsInv
<1>4. Gsm!HistoryInv'
  BY DEF Gsm!HistoryInv
<1> QED BY <1>1, <1>2, <1>3, <1>4

LEMMA SubframeStep ==
  ASSUME Gsm!GsmInv, Gsm!Subframe
  PROVE  Gsm!GsmInv'
<1> DEFINE here == Gsm!History + sub * Gsm!SubSamples
<1>1. PICK raw \in RawLags, offset \in 0 .. 3 :
         /\ lag' = Gsm!Lag(raw)
         /\ source' = [i \in 0 .. Gsm!SubSamples - 1 |-> ref[here + i - Gsm!Lag(raw)]]
         /\ pulses' = Gsm!Pulses(here, offset)
  BY DEF Gsm!Subframe
<1>2. /\ pc = "subframe" /\ dst' = here
      /\ ref' = [j \in 0 .. 279 |->
                   IF j \in here .. here + Gsm!SubSamples - 1
                     THEN frame * Gsm!FrameSamples + j - Gsm!History ELSE ref[j]]
      /\ used' = used + Gsm!SubBits /\ sub' = sub + 1
      /\ pc' = (IF sub' = 4 THEN "synthesis" ELSE "subframe")
      /\ UNCHANGED <<frame, lar, cur, played, pair>>
  BY DEF Gsm!Subframe
<1>3. sub \in 0 .. 3 /\ frame \in Nat /\ here = 120 + 40 * sub /\ lag' \in 40 .. 120
  BY <1>1, <1>2, LagRange DEF Gsm!GsmInv, Gsm!BitsInv, Gsm!History, Gsm!SubSamples
<1>4. /\ ref \in [0 .. 279 -> Int]
      /\ \A j \in 0 .. 279 : j < here => ref[j] = frame * 160 + j - 120
  BY <1>2, <1>3 DEF Gsm!GsmInv, Gsm!RefInv, Gsm!Decoded, Gsm!History, Gsm!SubSamples,
                    Gsm!FrameSamples
<1>5. Gsm!BitsInv'
  BY <1>2, <1>3 DEF Gsm!GsmInv, Gsm!BitsInv, Gsm!RatioBits, Gsm!SubBits
<1>6. Gsm!RefInv'
  <2>1. Gsm!Decoded' = sub + 1
    BY <1>2 DEF Gsm!Decoded
  <2> HIDE DEF here
  <2> DEFINE r(j) == IF j \in here .. here + 39 THEN frame * 160 + j - 120 ELSE ref[j]
  <2>3. ref' = [j \in 0 .. 279 |-> r(j)]
    <3>1. here + 40 - 1 = here + 39
      BY <1>3
    <3> QED BY <1>2, <3>1 DEF Gsm!FrameSamples, Gsm!History, Gsm!SubSamples
  <2>4. frame * 160 \in Int /\ here \in Int /\ here = 120 + 40 * sub /\ sub \in 0 .. 3
    BY <1>3
  <2>5. ASSUME NEW j \in 0 .. 279
        PROVE  r(j) \in Int /\ (j < here + 40 => r(j) = frame * 160 + j - 120)
    <3>1. CASE j \in here .. here + 39
      BY <2>4, <3>1
    <3>2. CASE j \notin here .. here + 39
      <4>1. ref[j] \in Int /\ (j < here => ref[j] = frame * 160 + j - 120)
        BY <1>4
      <4>2. j < here + 40 => j < here
        BY <2>4, <3>2
      <4> QED BY <3>2, <4>1, <4>2
    <3> QED BY <3>1, <3>2
  <2> HIDE DEF r
  <2>6. ref' \in [0 .. 279 -> Int]
    BY <2>3, <2>5
  <2>7. \A j \in 0 .. 279 : j < here + 40 => ref'[j] = frame * 160 + j - 120
    BY <2>3, <2>5
  <2>8. Gsm!History + Gsm!SubSamples * Gsm!Decoded' = here + 40 /\ Gsm!FrameSamples = 160
    BY <2>1, <2>4 DEF Gsm!History, Gsm!SubSamples, Gsm!FrameSamples
  <2>9. ASSUME NEW j \in 0 .. 279, j < Gsm!History + Gsm!SubSamples * Gsm!Decoded'
        PROVE  ref'[j] = frame' * Gsm!FrameSamples + j - Gsm!History
    <3>1. j < here + 40 /\ frame' = frame /\ Gsm!History = 120
      BY <1>2, <2>8, <2>9 DEF Gsm!History
    <3> QED BY <2>7, <2>8, <3>1
  <2> QED BY <2>6, <2>9 DEF Gsm!RefInv
<1>7. Gsm!RatioInv'
  BY <1>2 DEF Gsm!GsmInv, Gsm!RatioInv
<1>8. Gsm!HistoryInv'
  <2>1. source' = [i \in 0 .. 39 |-> ref[here + i - lag']]
    BY <1>1 DEF Gsm!SubSamples
  <2>2. pulses' \subseteq here .. here + 39
    BY <1>1, <1>3, PulsesFit
  <2> HIDE DEF here
  <2>3. ASSUME NEW i \in 0 .. 39
        PROVE  source'[i] \in Int /\ source'[i] = frame * 160 + here - 120 + i - lag'
    <3>1. here + i - lag' \in 0 .. 279 /\ here + i - lag' < here
      BY <1>3, SourceIndex
    <3>2. ref[here + i - lag'] = frame * 160 + (here + i - lag') - 120
      BY <1>4, <3>1
    <3>3. source'[i] = ref[here + i - lag'] /\ here \in Int /\ lag' \in Int
      BY <1>3, <2>1
    <3> QED BY <1>3, <3>2, <3>3
  <2>4. source' \in [0 .. 39 -> Int]
    BY <2>1, <2>3
  <2>5. /\ pair' = <<frame' - 1, frame'>> /\ played' \in [0 .. 159 -> Int]
        /\ \A i \in 0 .. 159 : played'[i] = (frame' - 1) * 160 + i
    BY <1>2 DEF Gsm!GsmInv, Gsm!HistoryInv, Gsm!FrameSamples
  <2> QED BY <1>2, <1>3, <2>2, <2>3, <2>4, <2>5
       DEF Gsm!HistoryInv, Gsm!SubSamples, Gsm!FrameSamples, Gsm!History
<1> QED BY <1>5, <1>6, <1>7, <1>8 DEF Gsm!GsmInv

LEMMA SynthesisStep ==
  ASSUME Gsm!GsmInv, Gsm!Synthesis
  PROVE  Gsm!GsmInv'
<1>1. /\ pc = "synthesis" /\ ref' = Gsm!Shifted
      /\ played' = [i \in 0 .. 159 |-> ref'[120 + i]]
      /\ pair' = <<lar[1 - cur], lar[cur]>> /\ cur' = 1 - cur /\ frame' = frame + 1
      /\ pc' = (IF frame % 2 = 1 THEN "block" ELSE "ratios")
      /\ UNCHANGED <<used, sub, lar, source, dst, lag, pulses>>
  BY DEF Gsm!Synthesis, Gsm!FrameSamples, Gsm!History
<1>2. frame \in Nat /\ sub = 4 /\ used = 260 * (frame % 2) + 260
  BY <1>1 DEF Gsm!GsmInv, Gsm!BitsInv, Gsm!RatioBits, Gsm!SubBits
<1>3. ref \in [0 .. 279 -> Int] /\ \A j \in 0 .. 279 : ref[j] = frame * 160 + j - 120
  BY <1>1, <1>2 DEF Gsm!GsmInv, Gsm!RefInv, Gsm!Decoded, Gsm!History, Gsm!SubSamples,
                    Gsm!FrameSamples
<1>4. /\ ref' \in [0 .. 279 -> Int]
      /\ \A j \in 0 .. 119 : ref'[j] = frame' * 160 + j - 120
      /\ \A j \in 120 .. 279 : ref'[j] = frame * 160 + j - 120
  <2>1. ref' = [j \in 0 .. 279 |-> IF j < 120 THEN ref[j + 160] ELSE ref[j]]
    BY <1>1 DEF Gsm!Shifted, Gsm!History, Gsm!FrameSamples
  <2>2. ASSUME NEW j \in 0 .. 119
        PROVE  ref'[j] = frame' * 160 + j - 120 /\ ref'[j] \in Int
    <3>1. j + 160 \in 0 .. 279 /\ ref'[j] = ref[j + 160]
      BY <2>1
    <3> QED BY <1>1, <1>2, <1>3, <3>1
  <2>3. ASSUME NEW j \in 120 .. 279
        PROVE  ref'[j] = frame * 160 + j - 120 /\ ref'[j] \in Int
    <3>1. j \in 0 .. 279 /\ ref'[j] = ref[j]
      BY <2>1
    <3> QED BY <1>2, <1>3, <3>1
  <2>4. ASSUME NEW j \in 0 .. 279
        PROVE  ref'[j] \in Int
    <3>1. j \in 0 .. 119 \/ j \in 120 .. 279
      OBVIOUS
    <3> QED BY <2>2, <2>3, <3>1
  <2>5. ref' \in [0 .. 279 -> Int]
    BY <2>1, <2>4
  <2> QED BY <2>2, <2>3, <2>5
<1>5. Gsm!BitsInv'
  BY <1>1, <1>2 DEF Gsm!BitsInv, Gsm!MsBlock
<1>6. Gsm!RefInv'
  BY <1>1, <1>2, <1>4 DEF Gsm!RefInv, Gsm!Decoded, Gsm!History, Gsm!SubSamples,
                          Gsm!FrameSamples
<1>7. cur \in {0, 1} /\ lar \in [{0, 1} -> Int] /\ lar[1 - cur] = frame /\ lar[cur] = frame + 1
  BY <1>1 DEF Gsm!GsmInv, Gsm!RatioInv
<1>8. Gsm!RatioInv'
  BY <1>1, <1>2, <1>7 DEF Gsm!RatioInv
<1>9. Gsm!HistoryInv'
  <2>1. /\ source' \in [0 .. 39 -> Int] /\ dst' \in Int /\ lag' \in Int
        /\ pulses' \subseteq dst' .. dst' + 39
    BY <1>1 DEF Gsm!GsmInv, Gsm!HistoryInv, Gsm!SubSamples
  <2>2. played' \in [0 .. 159 -> Int] /\ \A i \in 0 .. 159 : played'[i] = frame * 160 + i
    <3>1. ASSUME NEW i \in 0 .. 159
          PROVE  played'[i] = frame * 160 + i /\ played'[i] \in Int
      <4>1. 120 + i \in 120 .. 279 /\ played'[i] = ref'[120 + i]
        BY <1>1
      <4> QED BY <1>2, <1>4, <4>1
    <3> QED BY <1>1, <3>1
  <2>3. pair' = <<frame' - 1, frame'>> /\ frame' - 1 = frame
    BY <1>1, <1>2, <1>7
  <2> QED BY <1>1, <2>1, <2>2, <2>3 DEF Gsm!HistoryInv, Gsm!SubSamples, Gsm!FrameSamples
<1> QED BY <1>5, <1>6, <1>8, <1>9 DEF Gsm!GsmInv

LEMMA GsmStep == Gsm!GsmInv /\ [Gsm!Next]_(Gsm!vars) => Gsm!GsmInv'
<1> SUFFICES ASSUME Gsm!GsmInv, [Gsm!Next]_(Gsm!vars) PROVE Gsm!GsmInv'
  OBVIOUS
<1>1. CASE Gsm!Next
  BY <1>1, NewBlockStep, RatiosStep, SubframeStep, SynthesisStep DEF Gsm!Next
<1>2. CASE UNCHANGED Gsm!vars
  <2>1. UNCHANGED <<pc, frame, used, sub, ref, lar, cur, source, dst, lag, pulses, played, pair>>
    BY <1>2 DEF Gsm!vars
  <2>2. Gsm!BitsInv' /\ Gsm!RatioInv'
    BY <2>1 DEF Gsm!GsmInv, Gsm!BitsInv, Gsm!RatioInv
  <2>3. Gsm!RefInv'
    BY <2>1 DEF Gsm!GsmInv, Gsm!RefInv, Gsm!Decoded
  <2>4. Gsm!HistoryInv'
    BY <2>1 DEF Gsm!GsmInv, Gsm!HistoryInv
  <2> QED BY <2>2, <2>3, <2>4 DEF Gsm!GsmInv
<1> QED BY <1>1, <1>2

LEMMA GsmAlways == Gsm!Spec => []Gsm!GsmInv
BY GsmBegins, GsmStep, PTL DEF Gsm!Spec

(* decode_ms_block: two frames take the 520 bits of one block, and no get of one   *)
(* reaches behind it, after any number of blocks.                            *)
THEOREM BlocksAreUsedUp == Gsm!Spec => []BlockIsUsedUp
<1>1. Gsm!GsmInv => BlockIsUsedUp
  BY DEF Gsm!GsmInv, Gsm!BitsInv, BlockIsUsedUp, Gsm!BlockIsUsedUp, Gsm!MsBlock,
         Gsm!RatioBits, Gsm!SubBits
<1> QED BY <1>1, GsmAlways, PTL

(* decode_frame: ref_buf, shifted behind every frame, keeps the samples of the     *)
(* stream where the next frame looks for them, whatever the coded lags.       *)
THEOREM HistoryContinues == Gsm!Spec => []HistoryIsContinuous
<1>1. Gsm!GsmInv => HistoryIsContinuous
  <2> SUFFICES ASSUME Gsm!GsmInv PROVE Gsm!HistoryIsContinuous
    BY DEF HistoryIsContinuous
  <2> USE DEF Gsm!GsmInv, Gsm!HistoryInv
  <2>1. DOMAIN source = 0 .. Gsm!SubSamples - 1 /\ DOMAIN played = 0 .. Gsm!FrameSamples - 1
    OBVIOUS
  <2>2. frame \in Nat /\ dst \in Int
    BY DEF Gsm!BitsInv
  <2> QED BY <2>1, <2>2 DEF Gsm!HistoryIsContinuous
<1> QED BY <1>1, GsmAlways, PTL
=============================================================================
