----------------------------- MODULE MCKernels -----------------------------
(***************************************************************************)
(* The two decoders of fixed-point arithmetic, which share nothing: a behaviour  *)
(* is one of either.                                                         *)
(*                                                                          *)
(* GSM: lags below, at, between and above the ends of the range a lag is clamped  *)
(* to.  G.726: codewords in bursts of one magnitude and one pattern of signs, long *)
(* enough for the slow scale factor to come from one end of its range to the     *)
(* other.                                                                   *)
(***************************************************************************)
EXTENDS G726Scale

CONSTANTS Frames, RawLags, BurstLen, Bursts

ASSUME KernelAssumption ==
  /\ Frames \in Nat /\ RawLags \subseteq 0 .. 127
  /\ BurstLen \in Nat /\ Bursts \in Nat

VARIABLES
  kernel,
  pc, frame, used, sub, ref, lar, cur, source, dst, lag, pulses, played, pair,
  magnitude, pattern, left, rest

EdgeLags == {0, 39, 40, 41, 80, 119, 120, 121, 127}

Gsm == INSTANCE GsmBlock

block == <<pc, frame, used, sub, ref, lar, cur, source, dst, lag, pulses, played, pair>>
bursts == <<magnitude, pattern, left, rest>>

Loudest == 2 ^ (bits - 1)
BurstMagnitudes == {1, Loudest - 1, Loudest}
Patterns == {"constant", "alternating", "zero"}

Sign ==
  CASE pattern = "constant" -> pk0
    [] pattern = "alternating" -> -pk0
    [] pattern = "zero" -> 0

MCInit ==
  /\ Init /\ Gsm!Init
  /\ magnitude \in BurstMagnitudes /\ pattern \in Patterns
  /\ left = BurstLen /\ rest = Bursts
  /\ kernel \in {"G726", "Gsm"}
  /\ kernel = "Gsm" => bits = 2 /\ magnitude = 1 /\ pattern = "zero"

InBurst ==
  /\ left > 0 /\ Decode(magnitude, Sign) /\ left' = left - 1
  /\ UNCHANGED <<magnitude, pattern, rest>>

NextBurst ==
  /\ left = 0 /\ rest > 0
  /\ magnitude' \in BurstMagnitudes /\ pattern' \in Patterns
  /\ left' = BurstLen /\ rest' = rest - 1
  /\ UNCHANGED vars

MCNext ==
  /\ UNCHANGED kernel
  /\ \/ kernel = "Gsm" /\ Gsm!Next /\ UNCHANGED <<vars, bursts>>
     \/ kernel = "G726" /\ (InBurst \/ NextBurst) /\ UNCHANGED block

MCSpec == MCInit /\ [][MCNext]_<<kernel, vars, block, bursts>>

(* MS_BLOCK: two GSM frames take the bits of one block. *)
BlockIsUsedUp == Gsm!BlockIsUsedUp

(* GsmDecoder: prediction and ratios go on across frames and blocks. *)
HistoryIsContinuous == Gsm!HistoryIsContinuous
=============================================================================
