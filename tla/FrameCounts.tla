---------------------------- MODULE FrameCounts ----------------------------
(***************************************************************************)
(* How many PCM frames a payload is worth: the estimates of                   *)
(* src/pull/{gate,special,adpcm}.rs and src/{g722,g726,gsm}/mod.rs, in u64      *)
(* arithmetic that saturates.                                                *)
(***************************************************************************)
EXTENDS Integers

CONSTANTS
  WordMax,   \* u64::MAX
  MsBlock,   \* MS_BLOCK: bytes of a GSM block, 65
  MsSamples  \* MS_SAMPLES: the frames it holds, 320

(* A GSM block has more bits than samples. *)
ASSUME CountAssumption ==
  /\ WordMax \in Nat \ {0} /\ MsBlock \in Nat \ {0} /\ MsSamples \in Nat \ {0}
  /\ MsSamples <= 8 * MsBlock

None == -1  \* Option::None of a length or count

-----------------------------------------------------------------------------
(* The operators named Bug... are seeded faults, used by no specification.    *)

Least(a, b) == IF a <= b THEN a ELSE b
Saturated(n) == Least(n, WordMax)
SatSub(a, b) == IF a > b THEN a - b ELSE 0

(* A smaller positive fact or ds64 count trims, a larger one never inflates. *)
BugCapped(frames, declared) == IF declared # None THEN Least(frames, declared) ELSE frames
Capped(frames, declared) == IF declared > 0 THEN Least(frames, declared) ELSE frames

PcmFrames(len, frameBytes) == len \div frameBytes

(* Two samples of every channel to a byte of every channel. *)
G722Frames(len, channels) == Saturated((len \div channels) * 2)

GsmFrames(len) == Saturated((len \div MsBlock) * MsSamples)

(* Whole codewords. *)
BugG726Frames(len, bits) == Saturated((len * 8 + bits - 1) \div bits)
G726Frames(len, bits) == Saturated(len * 8) \div bits

(* adpcm_est_frames, per block: the header's samples and two of every byte. *)
BugSamplesPerBlock(ba, ch, ima) ==
  IF ima
    THEN IF ch >= 2 THEN SatSub(ba, 8) + 1 ELSE SatSub(ba, 4) * 2 + 1
    ELSE (SatSub(ba, 7 * ch) * 2) \div ch + 2
SamplesPerBlock(ba, ch, ima) ==
  IF ima
    THEN IF ch >= 2 THEN (SatSub(ba, 8) \div 8) * 8 + 1 ELSE SatSub(ba, 4) * 2 + 1
    ELSE (SatSub(ba, 7 * ch) * 2) \div ch + 2

AdpcmFrames(len, ba, ch, ima) == Saturated((len \div ba) * SamplesPerBlock(ba, ch, ima))
=============================================================================
