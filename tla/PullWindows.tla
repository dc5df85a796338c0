---------------------------- MODULE PullWindows ----------------------------
(***************************************************************************)
(* From an admitted plan to its frames: for_each_input (src/pull/input.rs)    *)
(* and the twelve loops over it that collect or stream PCM, G.711, G.722 and  *)
(* GSM (src/pull/{mod,pcm,stream,g711,g722,gsm,special}.rs).                 *)
(*                                                                          *)
(* The data chunk is a row of input frames (PCM frames, G.722 bytes of every   *)
(* channel, GSM blocks), each of which holds PerInput PCM frames.  A sample    *)
(* is the number of the PCM frame it was decoded from.  A stateless codec      *)
(* numbers by the source's position, G.722 and GSM by what the decoder was     *)
(* fed, so that a window read twice, skipped or clipped shows in the output.  *)
(***************************************************************************)
EXTENDS Integers

CONSTANTS
  BlockBytes,  \* source bytes of a window: 1 << 18
  MsBlock,     \* MS_BLOCK: bytes of a GSM block, 65
  MsSamples,   \* MS_SAMPLES: the frames it holds, 320
  Formats,     \* values of Format
  Totals,      \* plan.total_frames
  Limits       \* plan.max_samples

Codecs == {"S16", "S24", "F32", "ALaw", "MuLaw", "G722", "Gsm"}

(* width: bytes of the container of a sample, which may be wider than the sample  *)
(* and is unused by G.722 and GSM.  The parser lets no zero through (FmtChunk).   *)
Format == [codec : Codecs, width : Nat \ {0}, channels : Nat \ {0}, be : BOOLEAN]

ASSUME PullAssumption ==
  /\ BlockBytes \in Nat \ {0} /\ MsBlock \in Nat \ {0} /\ MsSamples \in Nat \ {0}
  /\ Formats \subseteq Format /\ Totals \subseteq Nat /\ Limits \subseteq Nat

VARIABLES
  fmt, mode, total, max,  \* the DecodePlan
  entry,                  \* "collect" (decode_collect) or "stream" (pull_decode)
  pc,
  pos,                    \* input frames the source has moved by
  offset, size,           \* for_each_input: first input frame and length of the window
  fed,                    \* input frames the decoder has seen
  decoded,                \* PCM frames delivered
  out                     \* what was delivered: frame numbers, 0 where nothing is yet

plan == <<fmt, mode, total, max, entry>>
vars == <<plan, pc, pos, offset, size, fed, decoded, out>>

Init ==
  /\ fmt \in Formats /\ mode \in {"Mono", "Split"} /\ entry \in {"collect", "stream"}
  /\ total \in Totals /\ max \in Limits
  /\ pc = "begin" /\ pos = 0 /\ offset = 0 /\ size = 0 /\ fed = 0 /\ decoded = 0
  /\ out = [i \in 1 .. total |-> 0]

-----------------------------------------------------------------------------
(* The operators named Bug... are seeded faults, used by no specification.    *)

Least(a, b) == IF a <= b THEN a ELSE b
AtLeast1(n) == IF n < 1 THEN 1 ELSE n

Framed == fmt.codec \in {"G722", "Gsm"}

FrameBytes ==
  CASE fmt.codec = "G722" -> fmt.channels
    [] fmt.codec = "Gsm" -> MsBlock
    [] OTHER -> fmt.width * fmt.channels

PerInput ==
  CASE fmt.codec = "G722" -> 2
    [] fmt.codec = "Gsm" -> MsSamples
    [] OTHER -> 1

(* total_frames.div_ceil(PerInput) *)
Inputs == (total + PerInput - 1) \div PerInput

(* block_frames_for, scratch_frames *)
Block == Least(AtLeast1(BlockBytes \div FrameBytes), AtLeast1(Inputs))

-----------------------------------------------------------------------------
(* Which routine a plan is given to, as what it takes the bytes for: the sample    *)
(* format, its container and what becomes of the channels ("only" reads the first). *)

Reads(codec, width, be, channels) ==
  [codec |-> codec, width |-> width, be |-> be, channels |-> channels]

OwnChannels ==
  CASE mode = "Split" -> "split"
    [] mode = "Mono" /\ fmt.channels = 1 -> "only"
    [] OTHER -> "mix"

(* stream::pull_generic, which leaves little-endian G.711 to the tables. *)
PullGeneric == Reads(fmt.codec, fmt.width, fmt.be, OwnChannels)

Is(codec, width) == fmt.codec = codec /\ fmt.width = width
IsG711 == Is("ALaw", 1) \/ Is("MuLaw", 1)

BugPullRoutine ==
  CASE fmt.be \/ Framed -> PullGeneric
    [] fmt.codec = "S16" -> Reads("S16", 2, FALSE, OwnChannels)
    [] OTHER -> PullGeneric
PullRoutine ==
  CASE Framed -> Reads(fmt.codec, fmt.width, fmt.be, OwnChannels)
    [] ~Framed /\ fmt.be -> PullGeneric
    [] ~fmt.be /\ mode = "Mono" /\ Is("S16", 2) -> Reads("S16", 2, FALSE, OwnChannels)
    [] ~fmt.be /\ mode = "Mono" /\ Is("F32", 4) /\ fmt.channels = 1 -> Reads("F32", 4, FALSE, "only")
    [] ~fmt.be /\ mode = "Split" /\ Is("S16", 2) -> Reads("S16", 2, FALSE, "split")
    [] OTHER -> PullGeneric

CollectsMono ==
  /\ mode = "Mono" /\ ~fmt.be
  /\ Is("S16", 2) \/ (Is("F32", 4) /\ fmt.channels = 1) \/ IsG711

FillsSplit == mode = "Split" /\ ~fmt.be /\ (Is("S16", 2) \/ IsG711)

(* collect_mono: an arm per codec, the last one a G.711 table. *)
CollectMono ==
  CASE fmt.codec = "S16" -> Reads("S16", 2, FALSE, IF fmt.channels = 1 THEN "only" ELSE "mix")
    [] fmt.codec = "F32" -> Reads("F32", 4, FALSE, "only")
    [] OTHER -> Reads(IF fmt.codec = "ALaw" THEN "ALaw" ELSE "MuLaw", 1, FALSE, "mix")

FillSplit == Reads(fmt.codec, IF fmt.codec = "S16" THEN 2 ELSE 1, FALSE, "split")

Routine ==
  CASE entry = "collect" /\ ~Framed /\ CollectsMono -> CollectMono
    [] entry = "collect" /\ ~Framed /\ FillsSplit -> FillSplit
    [] OTHER -> PullRoutine

-----------------------------------------------------------------------------
(* Begin: check_duration here or in the caller, which passes usize::MAX on.    *)
Begin ==
  /\ pc = "begin"
  /\ pc' = IF total > max THEN "failed" ELSE "window"
  /\ UNCHANGED <<plan, pos, offset, size, fed, decoded, out>>

(* The next window, cut to what is left. *)
BugReadWindow ==
  /\ pc = "window" /\ offset < Inputs
  /\ size' = Least(Inputs - offset, Block) /\ pos' = pos + Block
  /\ pc' = "visit"
  /\ UNCHANGED <<plan, offset, fed, decoded, out>>
ReadWindow ==
  /\ pc = "window" /\ offset < Inputs
  /\ size' = Least(Inputs - offset, Block) /\ pos' = pos + size'
  /\ pc' = "visit"
  /\ UNCHANGED <<plan, offset, fed, decoded, out>>

(* packet_io: the cursor of a stream may be anywhere in the window. *)
ReadFails ==
  /\ pc = "window" /\ offset < Inputs
  /\ pos' \in pos .. pos + Least(Inputs - offset, Block)
  /\ pc' = "failed"
  /\ UNCHANGED <<plan, offset, size, fed, decoded, out>>

Finish ==
  /\ pc = "window" /\ offset >= Inputs
  /\ pc' = "done" /\ UNCHANGED <<plan, pos, offset, size, fed, decoded, out>>

(* n frames, the first of them number `from` + 1, behind the first `at`. *)
Put(at, n, from) ==
  /\ out' = [i \in 1 .. total |-> IF i \in at + 1 .. at + n THEN from + i - at ELSE out[i]]
  /\ decoded' = decoded + n

(* visit returned Ok: `offset = end`. *)
EndVisit == offset' = offset + size /\ pc' = "window"

(* Where fill_split places a window; the others append. *)
PlacedAt == IF entry = "collect" /\ FillsSplit THEN offset ELSE decoded

VisitPcm ==
  /\ pc = "visit" /\ ~Framed
  /\ Put(PlacedAt, size, pos - size) /\ EndVisit
  /\ UNCHANGED <<plan, pos, size, fed>>

(* collect_g722 places by the window's range, pull_g722 counts. *)
G722Count ==
  IF entry = "collect"
    THEN Least((offset + size) * 2, total) - offset * 2
    ELSE Least(size * 2, total - decoded)

G722At == IF entry = "collect" THEN offset * 2 ELSE decoded

(* decode_into feeds every byte and fills the planes as far as they go. *)
VisitG722 ==
  /\ pc = "visit" /\ fmt.codec = "G722"
  /\ Put(G722At, G722Count, fed * 2) /\ fed' = fed + size /\ EndVisit
  /\ UNCHANGED <<plan, pos, size>>

(* A decoder lives as long as the loop: it goes on where the last block ended. *)
BugGsmFrom == offset * MsSamples
GsmFrom == fed * MsSamples

(* One GSM block of the window: a callback each (emit_mono_block), and none   *)
(* once everything was delivered.                                            *)
VisitGsm ==
  /\ pc = "visit" /\ fmt.codec = "Gsm"
  /\ Put(decoded, Least(MsSamples, total - decoded), GsmFrom) /\ fed' = fed + 1
  /\ IF fed' = offset + size \/ (entry = "stream" /\ decoded' >= total)
       THEN EndVisit
       ELSE UNCHANGED <<pc, offset>>
  /\ UNCHANGED <<plan, pos, size>>

(* on_block refuses a block it was shown: neither the loop nor the counter of  *)
(* delivered frames goes on.  Only a streaming caller has a say.             *)
CallbackFails ==
  /\ pc = "visit" /\ entry = "stream"
  /\ pc' = "failed"
  /\ UNCHANGED <<plan, pos, offset, size, fed, decoded, out>>

Next ==
  Begin \/ ReadWindow \/ ReadFails \/ Finish \/ VisitPcm \/ VisitG722 \/ VisitGsm \/ CallbackFails

(* StreamInfo.frames: for_each_input returns the total, the codecs' loops what  *)
(* they counted.                                                             *)
Returned == IF Framed THEN decoded ELSE total

Spec == Init /\ [][Next]_vars

-----------------------------------------------------------------------------
(* Properties                                                                *)

(* The PCM frames held by the first n input frames. *)
Held(n) == Least(n * PerInput, total)

(* decode_streaming: "the source cursor may have advanced".  By how much: it is  *)
(* never behind what was delivered, at most a window ahead of it, and never    *)
(* past the data of the plan, also when a read or a callback failed.          *)
CursorIsAhead ==
  /\ decoded \in Held(offset) .. Held(pos)
  /\ pos \in offset .. Least(offset + Block, Inputs)

(* pull_decode and decode_collect choose among ten routines by match arms whose     *)
(* order and guards matter.  The chosen one reads the samples there are, in their    *)
(* container and byte order, and treats the channels as the mode says: a sample of    *)
(* sixteen bits in a wider container is not read as packed ones, a mix of one        *)
(* channel is that channel.                                                  *)
RouteReadsFormat ==
  /\ Routine.codec = fmt.codec /\ Routine.width = fmt.width /\ Routine.be = fmt.be
  /\ \/ Routine.channels = OwnChannels
     \/ Routine.channels = "mix" /\ mode = "Mono"

Outcome == CASE pc = "done" -> "Ok" [] pc = "failed" -> "Err" [] OTHER -> "running"

Contract == INSTANCE DeliveryContract
  WITH heard <- [i \in 1 .. decoded |-> out[i]], outcome <- Outcome,
       count <- IF pc = "done" THEN Returned ELSE 0

(* decode_streaming and decode_collect, twelve loops over five routines: whichever    *)
(* the plan is given to, the frames of the plan reach the caller once and in order,  *)
(* Ok comes behind the last of them and returns their number, and an error keeps     *)
(* what was delivered before it.                                             *)
ImplementsDelivery == Contract!Spec
=============================================================================
