------------------------------ MODULE FmtChunk ------------------------------
(***************************************************************************)
(* parse_fmt_chunk (src/header/fmt.rs) and the codec gate behind it          *)
(* (src/pull/gate.rs, src/g726/wave.rs): which bytes of the chunk each       *)
(* branch consumes, and what it takes the format for.                        *)
(*                                                                          *)
(* The walk goes on behind the chunk by its declared length without looking   *)
(* where the parser stopped, so a branch that accepts a format must have      *)
(* consumed exactly that length.  One step is one read or skip and the checks *)
(* up to the next; the reasons of a refusal are not told apart.              *)
(***************************************************************************)
EXTENDS Integers

CONSTANTS
  ChunkLens,  \* lengths of the chunk
  Cores,      \* its sixteen core bytes: values of CoreType
  Extras,     \* values of cbSize
  CoefCounts, \* values of numCoefs of MS ADPCM
  ValidBits,  \* values of wValidBitsPerSample
  MaxRates    \* DecodeOptions::max_sample_rate

Tags == {"Pcm", "Float", "ALaw", "MuLaw", "G722", "G726", "Tag0064", "Gsm", "MsAdpcm",
         "ImaAdpcm", "Extensible", "Other"}
SubFormats == {"Pcm", "Float", "AmbisonicPcm", "AmbisonicFloat", "ALaw", "MuLaw", "Other"}
Policies == {"Auto", "G722", "G726"}
Codecs == {"None", "U8", "S16", "S24", "S24_4", "S32", "F32", "F64", "ALaw", "MuLaw", "MsAdpcm",
           "ImaAdpcm", "G722", "G726", "Unresolved0064", "Gsm", "Unsupported"}

CoreType == [tag : Tags, channels : Nat, rate : Nat, byteRate : Nat, align : Nat, bits : Nat]

ASSUME FmtAssumption ==
  /\ ChunkLens \subseteq Nat /\ Cores \subseteq CoreType /\ Extras \subseteq Nat
  /\ CoefCounts \subseteq Nat /\ ValidBits \subseteq Nat /\ MaxRates \subseteq Nat

VARIABLES
  chunkLen, core,  \* the chunk
  policy, maxRate, adpcm,  \* options.tag_0064, max_sample_rate; the adpcm feature
  pc,              \* what is read next
  consumed,        \* bytes of the chunk consumed
  extra, skip, coefs,  \* cbSize, bytes to skip, coefficient pairs to read
  valid, sub,      \* wValidBitsPerSample and the SubFormat GUID
  codec, width,    \* FmtFields: codec, sample_width; codeword bits for G.726
  rate             \* output rate of an admitted format

chunk == <<chunkLen, core>>
options == <<policy, maxRate, adpcm>>
locals == <<extra, skip, coefs, valid, sub>>
format == <<codec, width, rate>>
vars == <<chunk, options, pc, consumed, locals, format>>

Init ==
  /\ chunkLen \in ChunkLens /\ core \in Cores
  /\ policy \in Policies /\ maxRate \in MaxRates /\ adpcm \in BOOLEAN
  /\ pc = "length" /\ consumed = 0
  /\ extra = 0 /\ skip = 0 /\ coefs = 0 /\ valid = 0 /\ sub = "Other"
  /\ codec = "None" /\ width = 0 /\ rate = 0

-----------------------------------------------------------------------------
(* The operators named Bug... are seeded faults, used by no specification.    *)

(* The bytes that the next read or skip asks for; extGuid is the mask and the *)
(* GUID, msHead samplesPerBlock and numCoefs.                                *)
FieldLens ==
  [core |-> 16, cb |-> 2, adpcmCb |-> 2, msHead |-> 4, coefs |-> 4, imaHead |-> 2,
   extCb |-> 2, extValid |-> 2, extGuid |-> 20]

Skipping == {"skip", "rest", "tail"}

Ask == IF pc \in Skipping THEN skip
       ELSE IF pc \in DOMAIN FieldLens THEN FieldLens[pc] ELSE 0

(* The step succeeds: its bytes are consumed, p is next. *)
Go(p) == consumed' = consumed + Ask /\ pc' = p /\ UNCHANGED <<chunk, options>>

Refuse == Go("refused") /\ UNCHANGED <<locals, format>>

(* The end of the file or an I/O error; how far the reader got is not told.   *)
ReadFails ==
  /\ Ask > 0 /\ pc' = "refused"
  /\ UNCHANGED <<chunk, options, consumed, locals, format>>

Length ==
  /\ pc = "length"
  /\ Go(IF chunkLen < 16 THEN "refused" ELSE "core") /\ UNCHANGED <<locals, format>>

(* map_wave_channel_count, map_ambisonic_channel_count. *)
Mapped == core.channels \in 1 .. 26
AmbisonicMapped == core.channels \in (1 .. 9) \cup {11, 16}

AdpcmAccepted ==
  core.bits = 4 /\ chunkLen >= 20 /\ core.channels \in {1, 2} /\ core.align > 0

(* What follows the core: the checks before the first read of each branch.    *)
(* skip_fmt_extra: what is to be skipped, after cbSize if there is one. *)
ExtraSkip == IF chunkLen >= 18 THEN chunkLen - 18 ELSE chunkLen - 16

PlainTags == Tags \ {"MsAdpcm", "ImaAdpcm", "Extensible", "Other"}

ReadCore ==
  /\ pc = "core"
  /\ \/ /\ core.tag \in PlainTags /\ (core.tag = "Gsm" => core.channels = 1)
        /\ skip' = ExtraSkip
        /\ Go(IF chunkLen >= 18 THEN "cb" ELSE "skip")
        /\ UNCHANGED <<extra, coefs, valid, sub, format>>
     \/ /\ core.tag \in {"MsAdpcm", "ImaAdpcm"} /\ AdpcmAccepted
        /\ Go("adpcmCb") /\ UNCHANGED <<locals, format>>
     \/ /\ core.tag = "Extensible" /\ chunkLen >= 40
        /\ Go("extCb") /\ UNCHANGED <<locals, format>>
     \/ /\ \/ core.tag = "Gsm" /\ core.channels # 1
           \/ core.tag \in {"MsAdpcm", "ImaAdpcm"} /\ ~AdpcmAccepted
           \/ core.tag = "Extensible" /\ chunkLen < 40
           \/ core.tag = "Other"
        /\ Refuse

ReadCb == pc = "cb" /\ Go("skip") /\ UNCHANGED <<locals, format>>

Skip == pc = "skip" /\ Go("classify") /\ UNCHANGED <<locals, format>>

-----------------------------------------------------------------------------
(* ADPCM *)

LeastExtra == IF core.tag = "MsAdpcm" THEN 8 ELSE 2

ExtraFits(n) == n >= LeastExtra /\ n <= chunkLen - 18

AdpcmCb ==
  /\ pc = "adpcmCb"
  /\ \E n \in Extras :
       IF ExtraFits(n)
       THEN /\ extra' = n /\ Go(IF core.tag = "MsAdpcm" THEN "msHead" ELSE "imaHead")
            /\ UNCHANGED <<skip, coefs, valid, sub, format>>
       ELSE Refuse

CoefsFit(n) == n \in 1 .. 256 /\ extra >= 4 + 4 * n

MsHead ==
  /\ pc = "msHead"
  /\ \E n \in CoefCounts :
       IF CoefsFit(n)
       THEN /\ coefs' = n /\ skip' = extra - 4 - 4 * n /\ Go("coefs")
            /\ UNCHANGED <<extra, valid, sub, format>>
       ELSE Refuse

ReadCoef ==
  /\ pc = "coefs"
  /\ coefs' = coefs - 1
  /\ Go(IF coefs > 1 THEN "coefs" ELSE "rest")
  /\ UNCHANGED <<extra, skip, valid, sub, format>>

ImaHead ==
  /\ pc = "imaHead"
  /\ skip' = extra - 2 /\ Go("rest")
  /\ UNCHANGED <<extra, coefs, valid, sub, format>>

(* The rest of the extra bytes, then skip_fmt_tail. *)
SkipRest ==
  /\ pc = "rest"
  /\ skip' = chunkLen - 18 - extra /\ Go("tail")
  /\ UNCHANGED <<extra, coefs, valid, sub, format>>

SkipTail ==
  /\ pc = "tail"
  /\ Go("gate") /\ codec' = core.tag /\ width' = 1
  /\ UNCHANGED <<locals, rate>>

-----------------------------------------------------------------------------
(* WAVE_FORMAT_EXTENSIBLE *)

ExtCb ==
  /\ pc = "extCb"
  /\ \E n \in Extras :
       IF n >= 22 /\ n <= chunkLen - 18
       THEN extra' = n /\ Go("extValid") /\ UNCHANGED <<skip, coefs, valid, sub, format>>
       ELSE Refuse

ExtValid ==
  /\ pc = "extValid"
  /\ \E v \in ValidBits :
       IF core.bits % 8 = 0
       THEN /\ valid' = (IF v = 0 THEN core.bits ELSE v) /\ Go("extGuid")
            /\ UNCHANGED <<extra, skip, coefs, sub, format>>
       ELSE Refuse

BugBehindGuid == chunkLen - 18 - extra

(* Everything behind the canonical forty bytes, whatever cbSize says. *)
BehindGuid == chunkLen - 40

ExtGuid ==
  /\ pc = "extGuid"
  /\ \E s \in SubFormats :
       /\ sub' = s /\ skip' = BehindGuid /\ Go("skip")
       /\ UNCHANGED <<extra, coefs, valid, format>>

-----------------------------------------------------------------------------
(* What the format is taken for *)

(* container_width: the width block_align says, if it can be that. *)
LeastWidth == (core.bits + 7) \div 8

WidthKnown == core.channels > 0 /\ LeastWidth \in 1 .. 8

AlignedWidth == core.align \div core.channels

Width ==
  IF core.align % core.channels = 0 /\ AlignedWidth \in LeastWidth .. 8
  THEN AlignedWidth ELSE LeastWidth

PcmBits == {8, 16, 24, 32}

BugPcmCodec ==
  CASE core.bits = 8 -> "U8" [] core.bits = 16 -> "S16" [] core.bits = 32 -> "S32"
    [] core.bits = 24 -> "S24"

(* pcm_codec_for. *)
PcmCodec ==
  CASE core.bits = 8 -> "U8" [] core.bits = 16 -> "S16" [] core.bits = 32 -> "S32"
    [] core.bits = 24 -> IF Width = 3 THEN "S24" ELSE "S24_4"

FloatCodec == IF core.bits = 32 THEN "F32" ELSE "F64"

(* bits_from_byte_rate and agreed_bits; 0 is None, or a disagreement.        *)
RateBits ==
  LET scaled == (core.byteRate \div core.channels) * 8
  IN IF /\ core.rate > 0 /\ core.channels > 0 /\ core.byteRate % core.channels = 0
        /\ scaled % core.rate = 0 /\ scaled \div core.rate \in 2 .. 5
     THEN scaled \div core.rate ELSE 0

AgreedBits ==
  IF core.bits \notin 2 .. 5 THEN RateBits
  ELSE IF RateBits \in {0, core.bits} THEN core.bits ELSE 0

(* G726Rate::byte_quantum. *)
Quantum(bits) == IF bits \in {3, 5} THEN bits ELSE 1

WholeQuanta == core.align > 0 /\ core.align % Quantum(AgreedBits) = 0

(* fmt_fixed. *)
FixedG726 ==
  core.channels = 1 /\ core.rate \in {0, 8000} /\ AgreedBits > 0 /\ WholeQuanta

(* A format, if the condition holds; every branch yields at most one. *)
Only(condition, c, w) == IF condition THEN {[codec |-> c, width |-> w]} ELSE {}

IsPcm == WidthKnown /\ core.bits \in PcmBits

IsFloat == WidthKnown /\ core.bits \in {32, 64}

Companded == Only(core.bits = 8, IF valid \in {8, 16} THEN sub ELSE "Unsupported", 1)

SubMapped == IF sub \in {"AmbisonicPcm", "AmbisonicFloat"} THEN AmbisonicMapped ELSE Mapped

ExtensibleFormats ==
  IF ~SubMapped THEN {}
  ELSE CASE sub \in {"Pcm", "AmbisonicPcm"} ->
              Only(IsPcm /\ valid <= core.bits, PcmCodec, Width)
         [] sub \in {"Float", "AmbisonicFloat"} ->
              Only(IsFloat /\ valid = core.bits, FloatCodec, Width)
         [] sub \in {"ALaw", "MuLaw"} -> Companded
         [] OTHER -> {}

Formats ==
  CASE core.tag = "Pcm" -> Only(IsPcm /\ Mapped, PcmCodec, Width)
    [] core.tag = "Float" -> Only(IsFloat /\ Mapped, FloatCodec, Width)
    [] core.tag \in {"ALaw", "MuLaw", "G722"} -> Only(Mapped, core.tag, 1)
    [] core.tag = "G726" -> Only(FixedG726, "G726", AgreedBits)
    [] core.tag = "Tag0064" -> Only(Mapped, "Unresolved0064", 1)
    [] core.tag = "Gsm" -> Only(core.align \in {0, 65}, "Gsm", 65)
    [] core.tag = "Extensible" -> ExtensibleFormats

Classify ==
  /\ pc = "classify"
  /\ IF Formats = {} THEN Refuse
     ELSE \E f \in Formats :
            /\ codec' = f.codec /\ width' = f.width
            /\ Go("gate") /\ UNCHANGED <<locals, rate>>

-----------------------------------------------------------------------------
(* codec_gate *)

BugForcedG726 == core.channels = 1 /\ core.rate = 8000 /\ AgreedBits > 0

ForcedG726 == core.channels = 1 /\ core.rate = 8000 /\ AgreedBits > 0 /\ WholeQuanta

(* resolve_tag. *)
Resolved ==
  IF codec # "Unresolved0064" THEN Only(TRUE, codec, width)
  ELSE Only(policy = "Auto" /\ core.byteRate = 8000 * core.channels, "G722", 1)
         \cup Only(policy = "G722", "G722", 1)
         \cup Only(policy = "G726" /\ ForcedG726, "G726", AgreedBits)

OutputRate(c) == IF c = "G722" THEN 16000 ELSE core.rate

BugSupported(c) ==
  /\ core.rate \in 1 .. maxRate
  /\ c = "G726" => core.rate = 8000
  /\ c # "Unsupported" /\ (c \in {"MsAdpcm", "ImaAdpcm"} => adpcm)

Supported(c) ==
  /\ core.rate \in 1 .. maxRate
  /\ c = "G726" => core.rate = 8000
  /\ c # "Unsupported" /\ (c \in {"MsAdpcm", "ImaAdpcm"} => adpcm)
  /\ OutputRate(c) <= maxRate

Gate ==
  /\ pc = "gate"
  /\ LET admitted == {f \in Resolved : Supported(f.codec)}
     IN IF admitted = {} THEN Refuse
        ELSE \E f \in admitted :
               /\ codec' = f.codec /\ width' = f.width /\ rate' = OutputRate(f.codec)
               /\ Go("admitted") /\ UNCHANGED locals

Read ==
  \/ Length \/ ReadCore \/ ReadCb \/ Skip
  \/ AdpcmCb \/ MsHead \/ ReadCoef \/ ImaHead \/ SkipRest \/ SkipTail
  \/ ExtCb \/ ExtValid \/ ExtGuid
  \/ Classify \/ Gate

Next == Read \/ ReadFails

Spec == Init /\ [][Next]_vars

-----------------------------------------------------------------------------
Parsed == pc \in {"gate", "admitted"}

(* TypeOK: the locals and fields keep their types. *)
TypeOK ==
  /\ chunkLen \in ChunkLens /\ core \in Cores
  /\ policy \in Policies /\ maxRate \in MaxRates /\ adpcm \in BOOLEAN
  /\ pc \in DOMAIN FieldLens \cup Skipping
             \cup {"length", "classify", "gate", "admitted", "refused"}
  /\ consumed \in Nat /\ extra \in Nat /\ skip \in Nat /\ coefs \in Nat
  /\ valid \in Nat /\ width \in Nat /\ rate \in Nat
  /\ sub \in SubFormats /\ codec \in Codecs

(* ConsumesExactly: whichever branch accepts the chunk, the source stands on   *)
(* its end, where the walk believes it to be.                                *)
ConsumesExactly == Parsed => consumed = chunkLen

(* NeverPastChunk: no read or skip, also of a chunk refused later, asks for a *)
(* byte behind the chunk.                                                    *)
NeverPastChunk == Ask > 0 => consumed + Ask <= chunkLen

(* Where each step stands in the chunk. *)
PlaceInv ==
  /\ pc = "length" => consumed = 0
  /\ pc = "core" => consumed = 0 /\ chunkLen >= 16
  /\ pc = "cb" => consumed + 2 + skip = chunkLen
  /\ pc \in {"skip", "tail"} => consumed + skip = chunkLen
  /\ pc = "adpcmCb" => consumed = 16 /\ chunkLen >= 20
  /\ pc \in {"msHead", "imaHead"} => consumed = 18 /\ extra >= LeastExtra
  /\ pc = "coefs" => coefs > 0 /\ consumed + 4 * coefs + skip = 18 + extra
  /\ pc = "rest" => consumed + skip = 18 + extra
  /\ pc \in {"msHead", "imaHead", "coefs", "rest"} => extra <= chunkLen - 18
  /\ pc = "extCb" => consumed = 16 /\ chunkLen >= 40
  /\ pc = "extValid" => consumed = 18 /\ chunkLen >= 40
  /\ pc = "extGuid" => consumed = 20 /\ chunkLen >= 40
  /\ pc \in {"classify", "gate", "admitted"} => consumed = chunkLen

(* The parser knows the branch it is in from the tag. *)
BranchInv ==
  /\ pc = "cb" => core.tag \in PlainTags
  /\ pc \in {"cb", "skip", "classify"} /\ core.tag = "Gsm" => core.channels = 1
  /\ pc \in {"skip", "classify"} => core.tag \in PlainTags \cup {"Extensible"}
  /\ pc \in {"msHead", "coefs"} => core.tag = "MsAdpcm"
  /\ pc = "imaHead" => core.tag = "ImaAdpcm"
  /\ pc \in {"extCb", "extValid", "extGuid"} => core.tag = "Extensible"
  /\ pc \in {"adpcmCb", "msHead", "coefs", "imaHead", "rest", "tail"} =>
       core.tag \in {"MsAdpcm", "ImaAdpcm"} /\ AdpcmAccepted

(* Tag 0x0064 is left open by the parser, and by nothing else. *)
CodecInv ==
  /\ pc \notin {"gate", "admitted", "refused"} => codec = "None"
  /\ pc = "gate" => codec # "None" /\ (codec = "Unresolved0064" <=> core.tag = "Tag0064")

(* FmtInv: the inductive invariant of FmtChunkProofs: at every step the bytes  *)
(* consumed and the bytes to come add up to the chunk.                       *)
FmtInv == TypeOK /\ PlaceInv /\ BranchInv /\ CodecInv

SampleBytes(c) ==
  CASE c \in {"U8", "ALaw", "MuLaw"} -> 1 [] c = "S16" -> 2 [] c = "S24" -> 3
    [] c \in {"S24_4", "S32", "F32"} -> 4 [] c = "F64" -> 8 [] OTHER -> 0

(* CanBeConverted: what the parser lets through satisfies what the kernels    *)
(* assert of a sample (convert_sample); an ADPCM block is only known not to be  *)
(* empty, and the block walks refuse what is shorter than its header.        *)
CanBeConverted ==
  Parsed =>
    /\ core.channels \in 1 .. 26 /\ width > 0 /\ width >= SampleBytes(codec)
    /\ codec = "S24" => width = 3
    /\ codec \in {"MsAdpcm", "ImaAdpcm"} => core.align > 0 /\ core.channels <= 2

(* AdmittedIsPlayable: after the gate no codec is open or missing, the output *)
(* rate respects the ceiling after the conversion of G.722, and the codeword  *)
(* width of G.726 contradicts neither of the fields that state it.            *)
AdmittedIsPlayable ==
  pc = "admitted" =>
    /\ codec \notin {"None", "Unresolved0064", "Unsupported"}
    /\ rate \in 1 .. maxRate /\ (codec = "G722" => rate = 16000)
    /\ codec = "G726" => /\ width \in 2 .. 5 /\ rate = 8000 /\ core.channels = 1
                         /\ core.bits \in 2 .. 5 => core.bits = width
                         /\ core.byteRate \in {1000 * b : b \in 2 .. 5}
                              => core.byteRate = 1000 * width

(* G726Inv: a format taken for G.726, by the parser or by the gate, is mono     *)
(* and has the codeword width that bits and byteRate agree on.               *)
G726Inv ==
  Parsed /\ codec = "G726" => core.channels = 1 /\ AgreedBits > 0 /\ width = AgreedBits

(* TagsAgree: G.726 under tag 0x0064, when the caller asks for it, is admitted *)
(* exactly when the same chunk under its own tag 0x0045 is.                  *)
TagsAgree ==
  core.tag = "Tag0064" /\ policy = "G726" /\ codec # "None"
    => /\ pc = "admitted" => FixedG726 /\ Supported("G726")
       /\ pc = "refused" => ~(FixedG726 /\ Supported("G726"))

=============================================================================
