----------------------------- MODULE G726Scale -----------------------------
(***************************************************************************)
(* What a codeword does to the G.726 core (src/g726/decode.rs): the scale of    *)
(* the quantizer and the speed of its adaptation exactly, with the tables of     *)
(* src/g726/tables.rs; the two poles exactly, driven by the sign of the partial   *)
(* signal.  The zeros and the signal estimate are left out: of them the rest      *)
(* sees that sign alone, which is any of three here.                          *)
(***************************************************************************)
EXTENDS Integers, Sequences

VARIABLES
  bits,             \* codeword width
  y, yu, yl,        \* scale factor: mixed, fast and slow
  ap, dms, dml,     \* speed of the adaptation, short and long averages
  a0, a1,           \* poles
  pk0, pk1,         \* signs of the last two partial signals
  td                \* a tone was detected

speed == <<ap, dms, dml>>
scale == <<y, yu, yl>>
poles == <<a0, a1, pk0, pk1>>
vars == <<bits, scale, speed, poles, td>>

(* Core::new *)
Init ==
  /\ bits \in 2 .. 5
  /\ y = 544 /\ yu = 544 /\ yl = 34816
  /\ ap = 0 /\ dms = 0 /\ dml = 0
  /\ a0 = 0 /\ a1 = 0 /\ pk0 = 1 /\ pk1 = 1 /\ td = FALSE

-----------------------------------------------------------------------------
(* The operators named Bug... are seeded faults, used by no specification.    *)

(* The tables are symmetric: a codeword and its complement have one magnitude.   *)
Silent == -32768

(* IQuant, W, F: a row for each width from two bits to five. *)
IQuant ==
  << <<116, 365>>,
     <<Silent, 135, 273, 373>>,
     <<Silent, 4, 135, 213, 273, 323, 373, 425>>,
     <<Silent, -66, 28, 104, 169, 224, 274, 318, 358, 395, 429, 459, 488, 514, 539, 566>> >>

W ==
  << <<-22, 439>>,
     <<-4, 30, 137, 582>>,
     <<-12, 18, 41, 64, 112, 198, 355, 1122>>,
     <<14, 14, 24, 39, 40, 41, 58, 100, 141, 179, 219, 280, 358, 440, 529, 696>> >>

F ==
  << <<0, 7>>,
     <<0, 1, 2, 7>>,
     <<0, 0, 0, 1, 1, 1, 3, 7>>,
     <<0, 0, 0, 0, 0, 1, 1, 1, 1, 1, 2, 3, 4, 5, 6, 6>> >>

Magnitudes == 1 .. 2 ^ (bits - 1)

Clip(v, low, high) == IF v < low THEN low ELSE IF v > high THEN high ELSE v
Abs(v) == IF v < 0 THEN -v ELSE v

(* inverse_quant *)
Dql(m) == IQuant[bits - 1][m] + y \div 4
Dq(m) ==
  IF Dql(m) < 0 THEN 0
  ELSE ((128 + (Dql(m) % 128)) * (2 ^ ((Dql(m) \div 128) % 16))) \div 128

(* The threshold above which a tone is taken to end. *)
Thr2 ==
  LET whole == yl \div 32768
      rest == (yl \div 1024) % 32
  IN IF whole > 9 THEN 31 * 1024 ELSE (32 + rest) * (2 ^ whole)

Transition(m) == td /\ Dq(m) > (3 * Thr2) \div 4

-----------------------------------------------------------------------------
(* adapt_predictor, for a partial signal of sign s. *)
Fa1(s) == Clip((-(a0 * pk0 * s)) \div 32, -256, 255)

BugPoles(tr, s) ==
  IF tr
    THEN a0' = 0 /\ a1' = 0
    ELSE /\ a1' = Clip(a1 + s * pk1 * 128 + Fa1(s) - a1 \div 128, -12288, 12288)
         /\ a0' = Clip(a0 + s * pk0 * 192 - a0 \div 256, a1 - 15360, 15360 - a1)
Poles(tr, s) ==
  IF tr
    THEN a0' = 0 /\ a1' = 0
    ELSE /\ a1' = Clip(a1 + s * pk1 * 128 + Fa1(s) - a1 \div 128, -12288, 12288)
         /\ a0' = Clip(a0 + s * pk0 * 192 - a0 \div 256, a1' - 15360, 15360 - a1')

Signs(s) == pk1' = pk0 /\ pk0' = IF s = 0 THEN 1 ELSE s

(* adapt_scale: shifting the negated value right rounds its leak up. *)
Leak(v, n) == (-v) \div n

Fast(tr) == y <= 1535 \/ td' \/ Abs(4 * dms' - dml') >= dml' \div 8

Speed(m, tr) ==
  /\ dms' = dms + 16 * F[bits - 1][m] + Leak(dms, 32)
  /\ dml' = dml + 16 * F[bits - 1][m] + Leak(dml, 128)
  /\ ap' = IF tr THEN 256 ELSE ap + Leak(ap, 16) + IF Fast(tr) THEN 32 ELSE 0

Al == IF ap' >= 256 THEN 64 ELSE ap' \div 4

BugScale(m) ==
  /\ yu' = Clip(y + W[bits - 1][m] + Leak(y, 32), 544, 5120)
  /\ yl' = yl + yu' + Leak(yl, 64)
  /\ y' = (yl' + (yu' - yl' \div 64) * (ap' \div 4)) \div 64
Scale(m) ==
  /\ yu' = Clip(y + W[bits - 1][m] + Leak(y, 32), 544, 5120)
  /\ yl' = yl + yu' + Leak(yl, 64)
  /\ y' = (yl' + (yu' - yl' \div 64) * Al) \div 64

(* Core::step: the tone is judged by the poles as they are now, the speed by the   *)
(* tone.                                                                     *)
Decode(m, s) ==
  /\ Poles(Transition(m), s) /\ Signs(s)
  /\ td' = (a1' < -11776)
  /\ Speed(m, Transition(m)) /\ Scale(m)
  /\ UNCHANGED bits

Step == \E m \in Magnitudes, s \in {-1, 0, 1} : Decode(m, s)

Spec == Init /\ [][Step]_vars

-----------------------------------------------------------------------------
(* Properties                                                                *)

InRange(v, low, high) == low <= v /\ v <= high

(* Core::adapt_scale: nothing but yu is clipped, yet the slow and the mixed scale    *)
(* factor keep to the range of the fast one (times 64), and the speed control to   *)
(* what its leaks balance; so `ylint < 0` never comes, no shift reaches the width  *)
(* of its word and a quantized difference fits sixteen bits, whatever is sent.    *)
ScaleInRange ==
  /\ InRange(yu, 544, 5120) /\ InRange(y, 544, 5120) /\ InRange(yl, 34816, 327680)
  /\ InRange(ap, 0, 512) /\ InRange(dms, 0, 3584) /\ InRange(dml, 0, 14336)
  /\ \A m \in Magnitudes : Dql(m) < 2048 /\ InRange(Dq(m), 0, 32767)

(* Core::adapt_predictor: the poles stay inside the triangle that keeps the filter   *)
(* stable, and the bounds of the clamp of a0, which come from a1, never cross:      *)
(* i32::clamp panics on a lower bound above the upper one.                     *)
PolesAreStable ==
  /\ InRange(a1, -12288, 12288)
  /\ Abs(a0) <= 15360 - a1
=============================================================================
