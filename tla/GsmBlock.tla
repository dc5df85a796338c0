------------------------------ MODULE GsmBlock ------------------------------
(***************************************************************************)
(* GsmDecoder::decode_ms_block and decode_frame (src/gsm/decode.rs): two frames  *)
(* out of one block of bits, over the history that carries the decoder from one   *)
(* frame to the next.  A sample of ref_buf is the number of the sample it was    *)
(* computed as, a set of log area ratios the number of its frame; the filters      *)
(* are left out.                                                             *)
(***************************************************************************)
EXTENDS Integers

CONSTANTS
  Frames,  \* bound: frames decoded
  RawLags  \* values of the seven bits of a lag, of 0 .. 127

MsBlock == 65
FrameSamples == 160
SubSamples == 40
History == 120  \* ref_dst starts there

VARIABLES
  pc,
  frame,         \* frames decoded
  used,          \* bits taken of the block
  sub,           \* subframe
  ref,           \* ref_buf
  lar, cur,      \* the two sets of ratios, and lar_idx
  source, dst,   \* history: what the last subframe was predicted from, and where it is
  lag, pulses,   \* history: its lag and the places of its pulses
  played, pair   \* history: what the last synthesis filtered, with which ratios

vars == <<pc, frame, used, sub, ref, lar, cur, source, dst, lag, pulses, played, pair>>

(* Samples before the first are the zeros of GsmDecoder::new, frame 0 its ratios.  *)
Init ==
  /\ pc = "block" /\ frame = 0 /\ used = 8 * MsBlock /\ sub = 0
  /\ ref = [j \in 0 .. 279 |-> j - History]
  /\ lar = [i \in {0, 1} |-> 0] /\ cur = 0
  /\ source = [i \in 0 .. SubSamples - 1 |-> i - SubSamples] /\ dst = History
  /\ lag = SubSamples /\ pulses = {}
  /\ played = [i \in 0 .. FrameSamples - 1 |-> i - FrameSamples] /\ pair = <<-1, 0>>

-----------------------------------------------------------------------------
(* The operators named Bug... are seeded faults, used by no specification.    *)

NewBlock ==
  /\ pc = "block" /\ frame < Frames
  /\ used' = 0 /\ pc' = "ratios"
  /\ UNCHANGED <<frame, sub, ref, lar, cur, source, dst, lag, pulses, played, pair>>

RatioBits == 6 + 6 + 5 + 5 + 4 + 4 + 3 + 3

Ratios ==
  /\ pc = "ratios"
  /\ lar' = [lar EXCEPT ![cur] = frame + 1]
  /\ used' = used + RatioBits /\ sub' = 0 /\ pc' = "subframe"
  /\ UNCHANGED <<frame, ref, cur, source, dst, lag, pulses, played, pair>>

(* get(7).clamp(40, 120): no sample of the subframe itself, none before ref_buf.   *)
BugLag(raw) == IF raw > History THEN History ELSE raw
Lag(raw) == IF raw < SubSamples THEN SubSamples ELSE IF raw > History THEN History ELSE raw

(* Lag, gain, offset and maxidx, and a pulse of three bits at every third sample. *)
BugSubBits == 7 + 2 + 2 + 6 + 14 * 3
SubBits == 7 + 2 + 2 + 6 + 13 * 3

Pulses(at, offset) == {at + offset + 3 * k : k \in 0 .. 12}

Subframe ==
  LET here == History + sub * SubSamples
      there == here .. here + SubSamples - 1
  IN
  /\ pc = "subframe"
  /\ \E raw \in RawLags, offset \in 0 .. 3 :
       /\ lag' = Lag(raw)
       /\ source' = [i \in 0 .. SubSamples - 1 |-> ref[here + i - Lag(raw)]]
       /\ pulses' = Pulses(here, offset)
  /\ dst' = here
  /\ ref' = [j \in 0 .. 279 |->
               IF j \in there THEN frame * FrameSamples + j - History ELSE ref[j]]
  /\ used' = used + SubBits /\ sub' = sub + 1
  /\ pc' = IF sub' = 4 THEN "synthesis" ELSE "subframe"
  /\ UNCHANGED <<frame, lar, cur, played, pair>>

(* copy_within(160..280, 0), ahead of the synthesis that reads 120..280. *)
Shifted == [j \in 0 .. 279 |-> IF j < History THEN ref[j + FrameSamples] ELSE ref[j]]

(* short_term_synth: from the ratios of the frame before to those of this one.    *)
Synthesis ==
  /\ pc = "synthesis"
  /\ ref' = Shifted
  /\ played' = [i \in 0 .. FrameSamples - 1 |-> ref'[History + i]]
  /\ pair' = <<lar[1 - cur], lar[cur]>> /\ cur' = 1 - cur
  /\ frame' = frame + 1
  /\ pc' = IF frame % 2 = 1 THEN "block" ELSE "ratios"
  /\ UNCHANGED <<used, sub, lar, source, dst, lag, pulses>>

Next == NewBlock \/ Ratios \/ Subframe \/ Synthesis

Spec == Init /\ [][Next]_vars

-----------------------------------------------------------------------------
(* Properties                                                                *)

(* "65-byte / 320 samples", MS_BLOCK and MS_SAMPLES: two frames take the bits of     *)
(* one block, all of them and none behind it, where Bits::get would make up zeros  *)
(* and the next block would be read from its start.                           *)
BlockIsUsedUp ==
  /\ used <= 8 * MsBlock
  /\ pc = "block" => used = 8 * MsBlock

(* A decoder lives across blocks: every subframe is predicted from the forty samples  *)
(* that lie the coded lag before it in the stream, its pulses fall into it, and a    *)
(* frame is filtered from the ratios of the frame before to its own, also where a    *)
(* frame begins a block or a subframe reaches into the frame before.            *)
HistoryIsContinuous ==
  /\ LET first == frame * FrameSamples + dst - History
     IN pc \in {"subframe", "synthesis"} /\ sub > 0 =>
          \A i \in DOMAIN source : source[i] = first + i - lag
  /\ pulses \subseteq dst .. dst + SubSamples - 1
  /\ pair = <<frame - 1, frame>>
  /\ \A i \in DOMAIN played : played[i] = (frame - 1) * FrameSamples + i

-----------------------------------------------------------------------------
(* Why the properties hold: the inductive invariant, by parts.               *)

Decoded == IF pc \in {"subframe", "synthesis"} THEN sub ELSE 0

(* BitsInv: the bits taken before each step; the second frame of a block starts   *)
(* at bit 260.                                                               *)
BitsInv ==
  /\ pc \in {"block", "ratios", "subframe", "synthesis"} /\ frame \in Nat
  /\ pc = "block" => used = 8 * MsBlock /\ frame % 2 = 0
  /\ pc # "block" =>
       used = 260 * (frame % 2) + (IF pc = "ratios" THEN 0 ELSE RatioBits + SubBits * sub)
  /\ pc = "subframe" => sub \in 0 .. 3
  /\ pc = "synthesis" => sub = 4

(* RefInv: ref_buf holds the stream without a gap, up to the last subframe.     *)
RefInv ==
  /\ ref \in [0 .. 279 -> Int]
  /\ \A j \in 0 .. 279 :
       j < History + SubSamples * Decoded => ref[j] = frame * FrameSamples + j - History

(* RatioInv: the set that is not current holds the ratios of the frame before.    *)
RatioInv ==
  /\ cur \in {0, 1} /\ lar \in [{0, 1} -> Int] /\ lar[1 - cur] = frame
  /\ pc \in {"subframe", "synthesis"} => lar[cur] = frame + 1

(* HistoryInv: the last subframe lies behind those decoded before it, its      *)
(* sources all before it; the last frame filtered is the last one decoded.      *)
HistoryInv ==
  /\ source \in [0 .. SubSamples - 1 -> Int] /\ dst \in Int /\ lag \in Int
  /\ pc \in {"subframe", "synthesis"} /\ sub > 0 =>
       \A i \in 0 .. SubSamples - 1 :
         source[i] = frame * FrameSamples + dst - History + i - lag
  /\ pulses \subseteq dst .. dst + SubSamples - 1
  /\ pair = <<frame - 1, frame>>
  /\ played \in [0 .. FrameSamples - 1 -> Int]
  /\ \A i \in 0 .. FrameSamples - 1 : played[i] = (frame - 1) * FrameSamples + i

GsmInv == BitsInv /\ RefInv /\ RatioInv /\ HistoryInv
=============================================================================
