---------------------------- MODULE HeaderProofs ----------------------------
(***************************************************************************)
(* Theorems about the header of a file: its fmt chunk (FmtChunk), for chunks of   *)
(* every length and content, and the calls that look for it (Session), for every  *)
(* file and every order of calls.                                             *)
(***************************************************************************)
EXTENDS FmtChunk, Session, TLAPS

-----------------------------------------------------------------------------
LEMMA Numerals ==
  /\ \A n \in ChunkLens : n \in Nat
  /\ \A n \in Extras : n \in Nat
  /\ \A n \in CoefCounts : n \in Nat
  /\ \A n \in ValidBits : n \in Nat
  /\ \A n \in MaxRates : n \in Nat
  /\ Cores \subseteq CoreType
BY FmtAssumption

LEMMA CoreFacts ==
  ASSUME core \in Cores
  PROVE  /\ core.tag \in Tags /\ core.channels \in Nat /\ core.rate \in Nat
         /\ core.byteRate \in Nat /\ core.align \in Nat /\ core.bits \in Nat
BY Numerals DEF CoreType

(* The bytes asked for at each step. *)
LEMMA AskIs ==
  /\ pc = "core" => Ask = 16
  /\ pc \in {"cb", "adpcmCb", "imaHead", "extCb", "extValid"} => Ask = 2
  /\ pc \in {"msHead", "coefs"} => Ask = 4
  /\ pc = "extGuid" => Ask = 20
  /\ pc \in Skipping => Ask = skip
  /\ pc \in {"length", "classify", "gate", "admitted", "refused"} => Ask = 0
BY DEF Ask, FieldLens, Skipping

LEMMA AskType ==
  ASSUME TypeOK
  PROVE  Ask \in Nat
BY AskIs DEF TypeOK, FieldLens, Skipping

(* What container_width and agreed_bits return.                              *)
LEMMA WidthRange ==
  ASSUME core \in Cores, WidthKnown
  PROVE  Width \in LeastWidth .. 8 /\ LeastWidth \in 1 .. 8
BY CoreFacts DEF WidthKnown, Width, LeastWidth

LEMMA AgreedRange ==
  ASSUME core \in Cores
  PROVE  AgreedBits \in {0} \cup (2 .. 5)
<1>1. RateBits \in {0} \cup (2 .. 5)
  BY DEF RateBits
<1>2. CASE core.bits \notin 2 .. 5
  BY <1>1, <1>2 DEF AgreedBits
<1>3. CASE core.bits \in 2 .. 5
  BY <1>3 DEF AgreedBits
<1> QED BY <1>2, <1>3

(* Every format a branch yields has a codec and a width that holds a sample.  *)
LEMMA PcmFormat ==
  ASSUME core \in Cores, IsPcm
  PROVE  /\ PcmCodec \in {"U8", "S16", "S24", "S24_4", "S32"} /\ Width \in 1 .. 8
         /\ Width >= SampleBytes(PcmCodec) /\ (PcmCodec = "S24" => Width = 3)
<1>1. Width \in LeastWidth .. 8 /\ LeastWidth \in 1 .. 8
  BY WidthRange DEF IsPcm
<1>2. CASE core.bits = 8
  BY <1>1, <1>2 DEF PcmCodec, SampleBytes
<1>3. CASE core.bits = 16
  <2>1. LeastWidth = 2
    BY <1>3 DEF LeastWidth
  <2> QED BY <1>1, <1>3, <2>1 DEF PcmCodec, SampleBytes
<1>4. CASE core.bits = 24
  <2>1. LeastWidth = 3
    BY <1>4 DEF LeastWidth
  <2>2. CASE Width = 3
    BY <1>1, <1>4, <2>1, <2>2 DEF PcmCodec, SampleBytes
  <2>3. CASE Width # 3
    BY <1>1, <1>4, <2>1, <2>3 DEF PcmCodec, SampleBytes
  <2> QED BY <2>2, <2>3
<1>5. CASE core.bits = 32
  <2>1. LeastWidth = 4
    BY <1>5 DEF LeastWidth
  <2> QED BY <1>1, <1>5, <2>1 DEF PcmCodec, SampleBytes
<1> QED BY <1>2, <1>3, <1>4, <1>5 DEF IsPcm, PcmBits

LEMMA FloatFormat ==
  ASSUME core \in Cores, IsFloat
  PROVE  /\ FloatCodec \in {"F32", "F64"} /\ Width \in 1 .. 8
         /\ Width >= SampleBytes(FloatCodec)
<1>1. Width \in LeastWidth .. 8 /\ LeastWidth \in 1 .. 8
  BY WidthRange DEF IsFloat
<1>2. CASE core.bits = 32
  <2>1. LeastWidth = 4
    BY <1>2 DEF LeastWidth
  <2> QED BY <1>1, <1>2, <2>1 DEF FloatCodec, SampleBytes
<1>3. CASE core.bits = 64
  <2>1. LeastWidth = 8
    BY <1>3 DEF LeastWidth
  <2> QED BY <1>1, <1>3, <2>1 DEF FloatCodec, SampleBytes
<1> QED BY <1>2, <1>3 DEF IsFloat

LEMMA FormatFacts ==
  ASSUME FmtInv, pc = "classify", NEW f \in Formats
  PROVE  /\ f.codec \in Codecs \ {"None", "MsAdpcm", "ImaAdpcm"} /\ f.width \in Nat
         /\ f.codec = "Unresolved0064" <=> core.tag = "Tag0064"
         /\ core.channels \in 1 .. 26 /\ f.width > 0 /\ f.width >= SampleBytes(f.codec)
         /\ f.codec = "S24" => f.width = 3
         /\ f.codec = "G726" => FixedG726 /\ f.width = AgreedBits
<1>1. core \in Cores /\ core.tag \in PlainTags \cup {"Extensible"}
      /\ (core.tag = "Gsm" => core.channels = 1)
  BY DEF FmtInv, TypeOK, BranchInv
<1>2. ASSUME NEW condition, NEW c, NEW w, f \in Only(condition, c, w)
      PROVE  condition /\ f = [codec |-> c, width |-> w]
  BY <1>2 DEF Only
<1>3. CASE core.tag = "Pcm"
  <2>1. IsPcm /\ Mapped /\ f = [codec |-> PcmCodec, width |-> Width]
    BY <1>2, <1>3 DEF Formats
  <2> QED BY <1>1, <1>3, <2>1, PcmFormat DEF Mapped, Codecs
<1>4. CASE core.tag = "Float"
  <2>1. IsFloat /\ Mapped /\ f = [codec |-> FloatCodec, width |-> Width]
    BY <1>2, <1>4 DEF Formats
  <2> QED BY <1>1, <1>4, <2>1, FloatFormat DEF Mapped, Codecs
<1>5. CASE core.tag \in {"ALaw", "MuLaw", "G722"}
  <2>1. Mapped /\ f = [codec |-> core.tag, width |-> 1]
    BY <1>2, <1>5 DEF Formats
  <2> QED BY <1>5, <2>1 DEF Mapped, Codecs, SampleBytes
<1>6. CASE core.tag = "G726"
  <2>1. FixedG726 /\ f = [codec |-> "G726", width |-> AgreedBits]
    BY <1>2, <1>6 DEF Formats
  <2> QED BY <1>1, <1>6, <2>1, AgreedRange DEF FixedG726, Codecs, SampleBytes
<1>7. CASE core.tag = "Tag0064"
  <2>1. Mapped /\ f = [codec |-> "Unresolved0064", width |-> 1]
    BY <1>2, <1>7 DEF Formats
  <2> QED BY <1>7, <2>1 DEF Mapped, Codecs, SampleBytes
<1>8. CASE core.tag = "Gsm"
  <2>1. f = [codec |-> "Gsm", width |-> 65]
    BY <1>2, <1>8 DEF Formats
  <2> QED BY <1>1, <1>8, <2>1 DEF Codecs, SampleBytes
<1>9. CASE core.tag = "Extensible"
  <2>1. f \in ExtensibleFormats
    BY <1>9 DEF Formats
  <2>2. core.channels \in 1 .. 26
    <3>1. SubMapped
      BY <2>1 DEF ExtensibleFormats
    <3> QED BY <3>1 DEF SubMapped, Mapped, AmbisonicMapped
  <2>3. CASE sub \in {"Pcm", "AmbisonicPcm"}
    <3>1. IsPcm /\ f = [codec |-> PcmCodec, width |-> Width]
      BY <1>2, <2>1, <2>3 DEF ExtensibleFormats
    <3> QED BY <1>1, <1>9, <2>2, <3>1, PcmFormat DEF Codecs
  <2>4. CASE sub \in {"Float", "AmbisonicFloat"}
    <3>1. IsFloat /\ f = [codec |-> FloatCodec, width |-> Width]
      BY <1>2, <2>1, <2>4 DEF ExtensibleFormats
    <3> QED BY <1>1, <1>9, <2>2, <3>1, FloatFormat DEF Codecs
  <2>5. CASE sub \in {"ALaw", "MuLaw"}
    <3>1. f \in Companded
      BY <2>1, <2>5 DEF ExtensibleFormats
    <3>2. f = [codec |-> IF valid \in {8, 16} THEN sub ELSE "Unsupported", width |-> 1]
      BY <1>2, <3>1 DEF Companded
    <3> QED BY <1>9, <2>2, <2>5, <3>2 DEF Codecs, SampleBytes
  <2>6. CASE sub \notin {"Pcm", "AmbisonicPcm", "Float", "AmbisonicFloat", "ALaw", "MuLaw"}
    BY <2>1, <2>6 DEF ExtensibleFormats
  <2> QED BY <2>3, <2>4, <2>5, <2>6
<1> QED BY <1>1, <1>3, <1>4, <1>5, <1>6, <1>7, <1>8, <1>9 DEF PlainTags, Tags

LEMMA ResolvedChoice ==
  ASSUME NEW f \in Resolved
  PROVE  \/ codec # "Unresolved0064" /\ f = [codec |-> codec, width |-> width]
         \/ /\ codec = "Unresolved0064" /\ policy \in {"Auto", "G722"}
            /\ f = [codec |-> "G722", width |-> 1]
         \/ /\ codec = "Unresolved0064" /\ policy = "G726" /\ ForcedG726
            /\ f = [codec |-> "G726", width |-> AgreedBits]
<1>1. CASE codec # "Unresolved0064"
  BY <1>1 DEF Resolved, Only
<1>2. CASE codec = "Unresolved0064"
  <2>1. \/ policy = "Auto" /\ f = [codec |-> "G722", width |-> 1]
        \/ policy = "G722" /\ f = [codec |-> "G722", width |-> 1]
        \/ policy = "G726" /\ ForcedG726 /\ f = [codec |-> "G726", width |-> AgreedBits]
    BY <1>2 DEF Resolved, Only
  <2> QED BY <1>2, <2>1
<1> QED BY <1>1, <1>2

LEMMA ResolvedFacts ==
  ASSUME FmtInv, pc = "gate", NEW f \in Resolved
  PROVE  /\ f.codec \in Codecs \ {"None", "Unresolved0064"} /\ f.width \in Nat
         /\ \/ f.codec = codec /\ f.width = width
            \/ f.codec \in {"G722", "G726"} /\ f.width > 0
<1>1. core \in Cores /\ codec \in Codecs \ {"None"} /\ width \in Nat /\ policy \in Policies
  BY DEF FmtInv, TypeOK, CodecInv
<1>2. CASE codec # "Unresolved0064" /\ f = [codec |-> codec, width |-> width]
  <2>1. f.codec = codec /\ f.width = width
    BY <1>2
  <2>2. codec \in Codecs \ {"None", "Unresolved0064"}
    BY <1>1, <1>2
  <2> QED BY <1>1, <2>1, <2>2, Zenon
<1>3. CASE f = [codec |-> "G722", width |-> 1]
  BY <1>3 DEF Codecs
<1>4. CASE ForcedG726 /\ f = [codec |-> "G726", width |-> AgreedBits]
  BY <1>1, <1>4, AgreedRange DEF ForcedG726, Codecs
<1> QED BY <1>2, <1>3, <1>4, ResolvedChoice

-----------------------------------------------------------------------------
(* Each action keeps the invariant.                                          *)

(* The properties of a parsed format are part of what is kept.               *)
Kept == FmtInv /\ CanBeConverted /\ TagsAgree

LEMMA GoFacts ==
  ASSUME Kept, NEW p, Go(p)
  PROVE  /\ pc' = p /\ consumed' = consumed + Ask
         /\ UNCHANGED <<chunkLen, core, policy, maxRate, adpcm>>
         /\ core \in Cores /\ chunkLen \in Nat /\ consumed \in Nat
         /\ extra \in Nat /\ skip \in Nat /\ coefs \in Nat /\ Ask \in Nat
BY Numerals, AskType DEF Go, chunk, options, Kept, FmtInv, TypeOK

(* The same fields under the same options are judged the same.               *)
LEMMA SameVerdict ==
  ASSUME core' = core, maxRate' = maxRate, adpcm' = adpcm
  PROVE  (FixedG726' <=> FixedG726) /\ (Supported("G726")' <=> Supported("G726"))
<1>1. RateBits' = RateBits
  BY DEF RateBits
<1>2. AgreedBits' = AgreedBits
  BY <1>1 DEF AgreedBits
<1>3. WholeQuanta' <=> WholeQuanta
  BY <1>2 DEF WholeQuanta, Quantum
<1>4. FixedG726' <=> FixedG726
  BY <1>2, <1>3 DEF FixedG726
<1>5. Supported("G726")' <=> Supported("G726")
  BY DEF Supported, OutputRate
<1> QED BY <1>4, <1>5

(* A step before the format is known changes neither codec nor verdict.      *)
LEMMA EarlyStep ==
  ASSUME Kept, NEW p, Go(p), UNCHANGED format,
         pc \notin {"gate", "admitted", "refused"}, p \notin {"gate", "admitted"}
  PROVE  CanBeConverted' /\ TagsAgree' /\ CodecInv'
<1>1. pc' = p /\ codec = "None" /\ codec' = "None"
  BY DEF Kept, FmtInv, CodecInv, format, Go
<1> QED BY <1>1 DEF CanBeConverted, Parsed, TagsAgree, CodecInv

LEMMA RefuseStep ==
  ASSUME Kept, pc \notin {"gate", "admitted", "refused"},
         pc' = "refused", UNCHANGED <<chunk, options, locals, format>>, consumed' \in Nat
  PROVE  Kept'
<1>1. UNCHANGED <<chunkLen, core, policy, maxRate, adpcm, extra, skip, coefs, valid, sub,
                  codec, width, rate>>
  BY DEF chunk, options, locals, format
<1>2. codec = "None"
  BY DEF Kept, FmtInv, CodecInv
<1>3. TypeOK'
  BY <1>1 DEF Kept, FmtInv, TypeOK
<1>4. PlaceInv' /\ BranchInv' /\ CodecInv'
  BY DEF PlaceInv, BranchInv, CodecInv
<1>5. CanBeConverted' /\ TagsAgree'
  BY <1>1, <1>2 DEF CanBeConverted, Parsed, TagsAgree
<1> QED BY <1>3, <1>4, <1>5 DEF Kept, FmtInv

LEMMA RefusedStep ==
  ASSUME Kept, pc \notin {"gate", "admitted", "refused"}, Refuse
  PROVE  Kept'
<1>1. pc' = "refused" /\ UNCHANGED <<chunk, options, locals, format>> /\ consumed' \in Nat
  BY GoFacts DEF Refuse, Go
<1> QED BY <1>1, RefuseStep

LEMMA ReadFailsStep ==
  ASSUME Kept, ReadFails
  PROVE  Kept'
<1>1. pc \notin {"gate", "admitted", "refused"}
  BY AskIs DEF ReadFails
<1>2. pc' = "refused" /\ UNCHANGED <<chunk, options, locals, format>> /\ consumed' \in Nat
  BY DEF ReadFails, Kept, FmtInv, TypeOK
<1> QED BY <1>1, <1>2, RefuseStep

LEMMA LengthStep ==
  ASSUME Kept, Length
  PROVE  Kept'
<1>1. pc = "length" /\ UNCHANGED <<locals, format>>
      /\ Go(IF chunkLen < 16 THEN "refused" ELSE "core")
  BY DEF Length
<1>2. CASE chunkLen < 16
  BY <1>1, <1>2, RefusedStep DEF Refuse
<1>3. CASE ~(chunkLen < 16)
  <2>1. Go("core") /\ Ask = 0 /\ consumed = 0
    BY <1>1, <1>3, AskIs DEF Kept, FmtInv, PlaceInv
  <2>2. PlaceInv' /\ BranchInv'
    BY <1>1, <1>3, <2>1, GoFacts DEF PlaceInv, BranchInv
  <2>3. TypeOK'
    BY <1>1, <2>1, GoFacts DEF Kept, FmtInv, TypeOK, FieldLens, locals, format
  <2> QED BY <1>1, <2>1, <2>2, <2>3, EarlyStep DEF Kept, FmtInv
<1> QED BY <1>2, <1>3

LEMMA ReadCoreStep ==
  ASSUME Kept, ReadCore
  PROVE  Kept'
<1>1. pc = "core" /\ Ask = 16 /\ consumed = 0 /\ chunkLen >= 16
  BY AskIs DEF ReadCore, Kept, FmtInv, PlaceInv
<1>2. CASE Refuse
  BY <1>1, <1>2, RefusedStep
<1>3. CASE /\ core.tag \in PlainTags /\ (core.tag = "Gsm" => core.channels = 1)
           /\ skip' = ExtraSkip
           /\ Go(IF chunkLen >= 18 THEN "cb" ELSE "skip")
           /\ UNCHANGED <<extra, coefs, valid, sub, format>>
  <2>1. PICK p \in {"cb", "skip"} : Go(p) /\ (p = "cb" <=> chunkLen >= 18)
    BY <1>3
  <2>2. skip' = chunkLen - (IF p = "cb" THEN 18 ELSE 16)
    BY <1>3, <2>1 DEF ExtraSkip
  <2>3. TypeOK'
    BY <1>1, <1>3, <2>1, <2>2, GoFacts DEF Kept, FmtInv, TypeOK, FieldLens, Skipping, format
  <2>4. PlaceInv'
    BY <1>1, <2>1, <2>2, GoFacts DEF PlaceInv
  <2>5. BranchInv'
    BY <1>3, <2>1, GoFacts DEF BranchInv
  <2> QED BY <1>1, <1>3, <2>1, <2>3, <2>4, <2>5, EarlyStep DEF Kept, FmtInv
<1>4. CASE /\ core.tag \in {"MsAdpcm", "ImaAdpcm"} /\ AdpcmAccepted
           /\ Go("adpcmCb") /\ UNCHANGED <<locals, format>>
  <2>1. TypeOK'
    BY <1>1, <1>4, GoFacts DEF Kept, FmtInv, TypeOK, FieldLens, locals, format
  <2>2. PlaceInv' /\ BranchInv'
    BY <1>1, <1>4, GoFacts DEF PlaceInv, BranchInv, AdpcmAccepted
  <2> QED BY <1>1, <1>4, <2>1, <2>2, EarlyStep DEF Kept, FmtInv
<1>5. CASE /\ core.tag = "Extensible" /\ chunkLen >= 40
           /\ Go("extCb") /\ UNCHANGED <<locals, format>>
  <2>1. TypeOK'
    BY <1>1, <1>5, GoFacts DEF Kept, FmtInv, TypeOK, FieldLens, locals, format
  <2>2. PlaceInv' /\ BranchInv'
    BY <1>1, <1>5, GoFacts DEF PlaceInv, BranchInv
  <2> QED BY <1>1, <1>5, <2>1, <2>2, EarlyStep DEF Kept, FmtInv
<1> QED BY <1>2, <1>3, <1>4, <1>5 DEF ReadCore

(* cbSize and the skip behind it. *)
LEMMA SkipSteps ==
  ASSUME Kept, ReadCb \/ Skip
  PROVE  Kept'
<1>1. CASE ReadCb
  <2>1. pc = "cb" /\ Ask = 2 /\ Go("skip") /\ UNCHANGED <<locals, format>>
    BY <1>1, AskIs DEF ReadCb
  <2>2. TypeOK'
    BY <2>1, GoFacts DEF Kept, FmtInv, TypeOK, Skipping, locals, format
  <2>3. PlaceInv' /\ BranchInv'
    BY <2>1, GoFacts DEF Kept, FmtInv, PlaceInv, BranchInv, locals
  <2> QED BY <2>1, <2>2, <2>3, EarlyStep DEF Kept, FmtInv
<1>2. CASE Skip
  <2>1. pc = "skip" /\ Ask = skip /\ Go("classify") /\ UNCHANGED <<locals, format>>
    BY <1>2, AskIs DEF Skip, Skipping
  <2>2. TypeOK'
    BY <2>1, GoFacts DEF Kept, FmtInv, TypeOK, locals, format
  <2>3. PlaceInv' /\ BranchInv'
    BY <2>1, GoFacts DEF Kept, FmtInv, PlaceInv, BranchInv
  <2> QED BY <2>1, <2>2, <2>3, EarlyStep DEF Kept, FmtInv
<1> QED BY <1>1, <1>2

LEMMA AdpcmCbStep ==
  ASSUME Kept, AdpcmCb
  PROVE  Kept'
<1>1. pc = "adpcmCb" /\ Ask = 2 /\ consumed = 16 /\ core.tag \in {"MsAdpcm", "ImaAdpcm"}
      /\ AdpcmAccepted
  BY AskIs DEF AdpcmCb, Kept, FmtInv, PlaceInv, BranchInv
<1>2. PICK n \in Extras :
         IF ExtraFits(n)
         THEN /\ extra' = n /\ Go(IF core.tag = "MsAdpcm" THEN "msHead" ELSE "imaHead")
              /\ UNCHANGED <<skip, coefs, valid, sub, format>>
         ELSE Refuse
  BY DEF AdpcmCb
<1>3. CASE ~ExtraFits(n)
  BY <1>1, <1>2, <1>3, RefusedStep
<1>4. CASE ExtraFits(n)
  <2>1. PICK p \in {"msHead", "imaHead"} : Go(p) /\ (p = "msHead" <=> core.tag = "MsAdpcm")
    BY <1>2, <1>4
  <2>2. extra' = n /\ n \in Nat /\ UNCHANGED <<skip, coefs, valid, sub, format>>
        /\ n >= LeastExtra /\ n <= chunkLen - 18
    BY <1>2, <1>4, Numerals DEF ExtraFits
  <2>3. TypeOK'
    BY <2>1, <2>2, GoFacts DEF Kept, FmtInv, TypeOK, FieldLens, format
  <2>4. LeastExtra' = LeastExtra
    BY <2>1, GoFacts DEF LeastExtra
  <2>5. PlaceInv' /\ BranchInv'
    BY <1>1, <2>1, <2>2, <2>4, GoFacts DEF PlaceInv, BranchInv, AdpcmAccepted
  <2> QED BY <1>1, <2>1, <2>2, <2>3, <2>5, EarlyStep DEF Kept, FmtInv
<1> QED BY <1>3, <1>4

LEMMA MsHeadStep ==
  ASSUME Kept, MsHead
  PROVE  Kept'
<1>1. pc = "msHead" /\ Ask = 4 /\ consumed = 18 /\ core.tag = "MsAdpcm"
      /\ AdpcmAccepted /\ extra <= chunkLen - 18
  BY AskIs DEF MsHead, Kept, FmtInv, PlaceInv, BranchInv
<1>2. PICK n \in CoefCounts :
         IF CoefsFit(n)
         THEN /\ coefs' = n /\ skip' = extra - 4 - 4 * n /\ Go("coefs")
              /\ UNCHANGED <<extra, valid, sub, format>>
         ELSE Refuse
  BY DEF MsHead
<1>3. CASE ~CoefsFit(n)
  BY <1>1, <1>2, <1>3, RefusedStep
<1>4. CASE CoefsFit(n)
  <2>1. /\ coefs' = n /\ skip' = extra - 4 - 4 * n /\ Go("coefs")
        /\ UNCHANGED <<extra, valid, sub, format>>
        /\ n \in Nat /\ n > 0 /\ extra >= 4 + 4 * n
    BY <1>2, <1>4 DEF CoefsFit
  <2>2. TypeOK'
    BY <2>1, GoFacts DEF Kept, FmtInv, TypeOK, FieldLens, format
  <2>3. PlaceInv' /\ BranchInv'
    BY <1>1, <2>1, GoFacts DEF PlaceInv, BranchInv, AdpcmAccepted
  <2> QED BY <1>1, <2>1, <2>2, <2>3, EarlyStep DEF Kept, FmtInv
<1> QED BY <1>3, <1>4

LEMMA ReadCoefStep ==
  ASSUME Kept, ReadCoef
  PROVE  Kept'
<1>1. /\ pc = "coefs" /\ Ask = 4 /\ coefs > 0 /\ consumed + 4 * coefs + skip = 18 + extra
      /\ extra <= chunkLen - 18 /\ core.tag = "MsAdpcm" /\ AdpcmAccepted
      /\ coefs' = coefs - 1 /\ UNCHANGED <<extra, skip, valid, sub, format>>
      /\ Go(IF coefs > 1 THEN "coefs" ELSE "rest")
  BY AskIs DEF ReadCoef, Kept, FmtInv, PlaceInv, BranchInv
<1>2. PICK p \in {"coefs", "rest"} : Go(p) /\ (p = "coefs" <=> coefs > 1)
  BY <1>1
<1>3. TypeOK'
  BY <1>1, <1>2, GoFacts DEF Kept, FmtInv, TypeOK, FieldLens, Skipping, format
<1>4. PlaceInv'
  BY <1>1, <1>2, GoFacts DEF PlaceInv
<1>5. BranchInv'
  BY <1>1, <1>2, GoFacts DEF BranchInv, AdpcmAccepted
<1> QED BY <1>1, <1>2, <1>3, <1>4, <1>5, EarlyStep DEF Kept, FmtInv

LEMMA ImaHeadStep ==
  ASSUME Kept, ImaHead
  PROVE  Kept'
<1>1. /\ pc = "imaHead" /\ Ask = 2 /\ consumed = 18 /\ core.tag = "ImaAdpcm" /\ extra >= 2
      /\ AdpcmAccepted /\ extra <= chunkLen - 18
      /\ skip' = extra - 2 /\ UNCHANGED <<extra, coefs, valid, sub, format>> /\ Go("rest")
  BY AskIs DEF ImaHead, Kept, FmtInv, PlaceInv, BranchInv, LeastExtra
<1>2. TypeOK'
  BY <1>1, GoFacts DEF Kept, FmtInv, TypeOK, Skipping, format
<1>3. PlaceInv' /\ BranchInv'
  BY <1>1, GoFacts DEF PlaceInv, BranchInv, AdpcmAccepted
<1> QED BY <1>1, <1>2, <1>3, EarlyStep DEF Kept, FmtInv

LEMMA SkipRestStep ==
  ASSUME Kept, SkipRest
  PROVE  Kept'
<1>1. /\ pc = "rest" /\ Ask = skip /\ consumed + skip = 18 + extra
      /\ core.tag \in {"MsAdpcm", "ImaAdpcm"} /\ AdpcmAccepted /\ extra <= chunkLen - 18
      /\ skip' = chunkLen - 18 - extra /\ Go("tail")
      /\ UNCHANGED <<extra, coefs, valid, sub, format>>
  BY AskIs DEF SkipRest, Kept, FmtInv, PlaceInv, BranchInv, Skipping
<1>2. TypeOK'
  BY <1>1, GoFacts DEF Kept, FmtInv, TypeOK, Skipping, format
<1>3. PlaceInv' /\ BranchInv'
  BY <1>1, GoFacts DEF PlaceInv, BranchInv, AdpcmAccepted
<1> QED BY <1>1, <1>2, <1>3, EarlyStep DEF Kept, FmtInv

(* ADPCM needs no classification: its format is known from the tag.          *)
LEMMA SkipTailStep ==
  ASSUME Kept, SkipTail
  PROVE  Kept'
<1>1. /\ pc = "tail" /\ Ask = skip /\ consumed + skip = chunkLen
      /\ core.tag \in {"MsAdpcm", "ImaAdpcm"} /\ AdpcmAccepted
      /\ Go("gate") /\ codec' = core.tag /\ width' = 1 /\ UNCHANGED <<locals, rate>>
  BY AskIs DEF SkipTail, Kept, FmtInv, PlaceInv, BranchInv, Skipping
<1>2. TypeOK'
  BY <1>1, GoFacts DEF Kept, FmtInv, TypeOK, locals, Codecs
<1>3. PlaceInv' /\ BranchInv' /\ CodecInv'
  BY <1>1, GoFacts DEF PlaceInv, BranchInv, CodecInv
<1>4. CanBeConverted'
  BY <1>1, GoFacts DEF CanBeConverted, AdpcmAccepted, SampleBytes
<1>5. TagsAgree'
  BY <1>1, GoFacts DEF TagsAgree
<1> QED BY <1>2, <1>3, <1>4, <1>5 DEF Kept, FmtInv

LEMMA ExtCbStep ==
  ASSUME Kept, ExtCb
  PROVE  Kept'
<1>1. pc = "extCb" /\ Ask = 2 /\ consumed = 16 /\ chunkLen >= 40 /\ core.tag = "Extensible"
  BY AskIs DEF ExtCb, Kept, FmtInv, PlaceInv, BranchInv
<1>2. PICK n \in Extras :
         IF n >= 22 /\ n <= chunkLen - 18
         THEN extra' = n /\ Go("extValid") /\ UNCHANGED <<skip, coefs, valid, sub, format>>
         ELSE Refuse
  BY DEF ExtCb
<1>3. CASE ~(n >= 22 /\ n <= chunkLen - 18)
  BY <1>1, <1>2, <1>3, RefusedStep
<1>4. CASE n >= 22 /\ n <= chunkLen - 18
  <2>1. extra' = n /\ n \in Nat /\ Go("extValid") /\ UNCHANGED <<skip, coefs, valid, sub, format>>
    BY <1>2, <1>4, Numerals
  <2>2. TypeOK'
    BY <2>1, GoFacts DEF Kept, FmtInv, TypeOK, FieldLens, format
  <2>3. PlaceInv' /\ BranchInv'
    BY <1>1, <2>1, GoFacts DEF PlaceInv, BranchInv
  <2> QED BY <1>1, <2>1, <2>2, <2>3, EarlyStep DEF Kept, FmtInv
<1> QED BY <1>3, <1>4

LEMMA ExtValidStep ==
  ASSUME Kept, ExtValid
  PROVE  Kept'
<1>1. /\ pc = "extValid" /\ Ask = 2 /\ consumed = 18 /\ chunkLen >= 40
      /\ core.bits \in Nat /\ core.tag = "Extensible"
  BY AskIs, CoreFacts DEF ExtValid, Kept, FmtInv, PlaceInv, BranchInv, TypeOK
<1>2. PICK v \in ValidBits :
         IF core.bits % 8 = 0
         THEN /\ valid' = (IF v = 0 THEN core.bits ELSE v) /\ Go("extGuid")
              /\ UNCHANGED <<extra, skip, coefs, sub, format>>
         ELSE Refuse
  BY DEF ExtValid
<1>3. CASE ~(core.bits % 8 = 0)
  BY <1>1, <1>2, <1>3, RefusedStep
<1>4. CASE core.bits % 8 = 0
  <2>1. valid' \in Nat /\ Go("extGuid") /\ UNCHANGED <<extra, skip, coefs, sub, format>>
    BY <1>1, <1>2, <1>4, Numerals
  <2>2. TypeOK'
    BY <2>1, GoFacts DEF Kept, FmtInv, TypeOK, FieldLens, format
  <2>3. PlaceInv' /\ BranchInv'
    BY <1>1, <2>1, GoFacts DEF PlaceInv, BranchInv
  <2> QED BY <1>1, <2>1, <2>2, <2>3, EarlyStep DEF Kept, FmtInv
<1> QED BY <1>3, <1>4

LEMMA ExtGuidStep ==
  ASSUME Kept, ExtGuid
  PROVE  Kept'
<1>1. /\ pc = "extGuid" /\ Ask = 20 /\ consumed = 20 /\ chunkLen >= 40
      /\ core.tag = "Extensible"
  BY AskIs DEF ExtGuid, Kept, FmtInv, PlaceInv, BranchInv
<1>2. PICK s \in SubFormats :
         /\ sub' = s /\ skip' = BehindGuid /\ Go("skip")
         /\ UNCHANGED <<extra, coefs, valid, format>>
  BY DEF ExtGuid
<1>3. TypeOK'
  BY <1>1, <1>2, GoFacts DEF Kept, FmtInv, TypeOK, BehindGuid, Skipping, format
<1>4. PlaceInv' /\ BranchInv'
  BY <1>1, <1>2, GoFacts DEF PlaceInv, BranchInv, BehindGuid
<1> QED BY <1>1, <1>2, <1>3, <1>4, EarlyStep DEF Kept, FmtInv

LEMMA ClassifyStep ==
  ASSUME Kept, Classify
  PROVE  Kept'
<1>1. pc = "classify" /\ Ask = 0 /\ consumed = chunkLen
  BY AskIs DEF Classify, Kept, FmtInv, PlaceInv
<1>2. CASE Formats = {}
  BY <1>1, <1>2, RefusedStep DEF Classify
<1>3. CASE Formats # {}
  <2>1. PICK f \in Formats :
           /\ codec' = f.codec /\ width' = f.width
           /\ Go("gate") /\ UNCHANGED <<locals, rate>>
    BY <1>3 DEF Classify
  <2>2. /\ f.codec \in Codecs \ {"None", "MsAdpcm", "ImaAdpcm"} /\ f.width \in Nat
        /\ f.codec = "Unresolved0064" <=> core.tag = "Tag0064"
        /\ core.channels \in 1 .. 26 /\ f.width > 0 /\ f.width >= SampleBytes(f.codec)
        /\ f.codec = "S24" => f.width = 3
    BY <1>1, FormatFacts DEF Kept
  <2>3. TypeOK'
    BY <2>1, <2>2, GoFacts DEF Kept, FmtInv, TypeOK, locals
  <2>4. PlaceInv' /\ BranchInv' /\ CodecInv'
    BY <1>1, <2>1, <2>2, GoFacts DEF PlaceInv, BranchInv, CodecInv
  <2>5. CanBeConverted'
    BY <2>1, <2>2, GoFacts DEF CanBeConverted, SampleBytes
  <2>6. TagsAgree'
    BY <2>1, GoFacts DEF TagsAgree
  <2> QED BY <2>3, <2>4, <2>5, <2>6 DEF Kept, FmtInv
<1> QED BY <1>2, <1>3

(* What the gate admits under tag 0x0064 with policy G726, the parser would    *)
(* have taken for G.726 under its own tag, and the other way round.          *)
LEMMA ForcedIsFixed ==
  ASSUME core \in Cores, Supported("G726")
  PROVE  ForcedG726 <=> FixedG726
<1>1. core.rate = 8000
  BY DEF Supported
<1> QED BY <1>1 DEF ForcedG726, FixedG726

LEMMA GateRefuses ==
  ASSUME Kept, Gate, {f \in Resolved : Supported(f.codec)} = {}
  PROVE  Kept'
<1>1. pc = "gate" /\ Ask = 0 /\ Refuse /\ consumed = chunkLen
  BY AskIs DEF Gate, Kept, FmtInv, PlaceInv
<1>2. Go("refused") /\ UNCHANGED <<chunkLen, core, policy, maxRate, adpcm, extra, skip,
                                    coefs, valid, sub, codec, width, rate>>
  BY <1>1, GoFacts DEF Refuse, locals, format
<1>3. TypeOK'
  BY <1>2, GoFacts DEF Kept, FmtInv, TypeOK
<1>4. PlaceInv' /\ BranchInv' /\ CodecInv'
  BY <1>2, GoFacts DEF PlaceInv, BranchInv, CodecInv
<1>5. CanBeConverted'
  BY <1>2, GoFacts DEF CanBeConverted, Parsed
<1>6. TagsAgree'
  <2>1. SUFFICES ASSUME core.tag = "Tag0064", policy = "G726", FixedG726, Supported("G726")
                 PROVE  FALSE
    BY <1>2, GoFacts, SameVerdict DEF TagsAgree
  <2>2. codec = "Unresolved0064" /\ core \in Cores
    BY <1>1, <2>1 DEF Kept, FmtInv, CodecInv, TypeOK
  <2>3. ForcedG726
    BY <2>1, <2>2, ForcedIsFixed
  <2>4. [codec |-> "G726", width |-> AgreedBits] \in Resolved
    BY <2>1, <2>2, <2>3 DEF Resolved, Only
  <2> QED BY <2>1, <2>4
<1> QED BY <1>3, <1>4, <1>5, <1>6 DEF Kept, FmtInv

LEMMA GateAdmits ==
  ASSUME Kept, pc = "gate", NEW f \in Resolved, Supported(f.codec), Go("admitted"),
         codec' = f.codec, width' = f.width, rate' = OutputRate(f.codec), UNCHANGED locals
  PROVE  Kept'
<1>1. Ask = 0 /\ consumed = chunkLen /\ core \in Cores /\ core.rate \in Nat
  BY AskIs, CoreFacts DEF Kept, FmtInv, PlaceInv, TypeOK
<1>2. /\ f.codec \in Codecs \ {"None", "Unresolved0064"} /\ f.width \in Nat
      /\ \/ f.codec = codec /\ f.width = width
         \/ f.codec \in {"G722", "G726"} /\ f.width > 0
  BY ResolvedFacts DEF Kept
<1>3. TypeOK'
  <2>1. rate' \in Nat
    BY <1>1 DEF OutputRate
  <2> QED BY <1>2, <2>1, GoFacts DEF Kept, FmtInv, TypeOK, locals
<1>4. PlaceInv' /\ BranchInv' /\ CodecInv'
  BY <1>1, GoFacts DEF PlaceInv, BranchInv, CodecInv
<1>5. CanBeConverted'
  <2>1. /\ core.channels \in 1 .. 26 /\ width > 0 /\ width >= SampleBytes(codec)
        /\ codec = "S24" => width = 3
        /\ codec \in {"MsAdpcm", "ImaAdpcm"} => core.align > 0 /\ core.channels <= 2
    BY DEF Kept, CanBeConverted, Parsed
  <2>2. CASE f.codec = codec /\ f.width = width
    BY <2>1, <2>2, GoFacts DEF CanBeConverted, SampleBytes
  <2>3. CASE f.codec \in {"G722", "G726"} /\ f.width > 0
    BY <1>2, <2>1, <2>3, GoFacts DEF CanBeConverted, SampleBytes
  <2> QED BY <1>2, <2>2, <2>3
<1>6. TagsAgree'
  <2>1. SUFFICES ASSUME core.tag = "Tag0064", policy = "G726"
                 PROVE  FixedG726 /\ Supported("G726")
    BY GoFacts, SameVerdict DEF TagsAgree
  <2>2. codec = "Unresolved0064"
    BY <2>1 DEF Kept, FmtInv, CodecInv
  <2>3. ForcedG726 /\ f = [codec |-> "G726", width |-> AgreedBits]
    BY <2>1, <2>2, ResolvedChoice
  <2>4. f.codec = "G726"
    BY <2>3
  <2> QED BY <1>1, <2>3, <2>4, ForcedIsFixed
<1> QED BY <1>3, <1>4, <1>5, <1>6 DEF Kept, FmtInv

LEMMA GateStep ==
  ASSUME Kept, Gate
  PROVE  Kept'
<1>1. CASE {f \in Resolved : Supported(f.codec)} = {}
  BY <1>1, GateRefuses
<1>2. CASE {f \in Resolved : Supported(f.codec)} # {}
  <2>1. PICK f \in {f \in Resolved : Supported(f.codec)} :
           /\ codec' = f.codec /\ width' = f.width /\ rate' = OutputRate(f.codec)
           /\ Go("admitted") /\ UNCHANGED locals
    BY <1>2 DEF Gate
  <2>2. pc = "gate" /\ f \in Resolved /\ Supported(f.codec)
    BY <2>1 DEF Gate
  <2> QED BY <2>1, <2>2, GateAdmits
<1> QED BY <1>1, <1>2

-----------------------------------------------------------------------------
LEMMA InitKept == Init => Kept
<1> SUFFICES ASSUME Init PROVE Kept
  OBVIOUS
<1>1. TypeOK
  BY DEF Init, TypeOK, SubFormats, Codecs
<1>2. PlaceInv /\ BranchInv /\ CodecInv
  BY DEF Init, PlaceInv, BranchInv, CodecInv
<1>3. CanBeConverted /\ TagsAgree
  BY DEF Init, CanBeConverted, Parsed, TagsAgree
<1> QED BY <1>1, <1>2, <1>3 DEF Kept, FmtInv

LEMMA StutterKept ==
  ASSUME Kept, UNCHANGED vars
  PROVE  Kept'
<1>1. UNCHANGED <<chunkLen, core, policy, maxRate, adpcm, pc, consumed, extra, skip, coefs,
                  valid, sub, codec, width, rate>>
  BY DEF vars, chunk, options, locals, format
<1>2. TypeOK'
  BY <1>1 DEF Kept, FmtInv, TypeOK
<1>3. PlaceInv'
  BY <1>1 DEF Kept, FmtInv, PlaceInv, LeastExtra
<1>4. BranchInv' /\ CodecInv'
  BY <1>1 DEF Kept, FmtInv, BranchInv, CodecInv, AdpcmAccepted
<1>5. CanBeConverted'
  BY <1>1 DEF Kept, CanBeConverted, Parsed, SampleBytes
<1>6. TagsAgree'
  BY <1>1, SameVerdict DEF Kept, TagsAgree
<1> QED BY <1>2, <1>3, <1>4, <1>5, <1>6 DEF Kept, FmtInv

LEMMA NextKept == Kept /\ [Next]_vars => Kept'
<1> SUFFICES ASSUME Kept, [Next]_vars PROVE Kept'
  OBVIOUS
<1>1. CASE Length \/ ReadCore \/ ReadCb \/ Skip
  BY <1>1, LengthStep, ReadCoreStep, SkipSteps
<1>2. CASE AdpcmCb \/ MsHead \/ ReadCoef \/ ImaHead \/ SkipRest \/ SkipTail
  BY <1>2, AdpcmCbStep, MsHeadStep, ReadCoefStep, ImaHeadStep, SkipRestStep, SkipTailStep
<1>3. CASE ExtCb \/ ExtValid \/ ExtGuid
  BY <1>3, ExtCbStep, ExtValidStep, ExtGuidStep
<1>4. CASE Classify \/ Gate
  BY <1>4, ClassifyStep, GateStep
<1>5. CASE ReadFails
  BY <1>5, ReadFailsStep
<1>6. CASE UNCHANGED vars
  BY <1>6, StutterKept
<1> QED BY <1>1, <1>2, <1>3, <1>4, <1>5, <1>6, Zenon DEF Next, Read

LEMMA AlwaysKept == Spec => []Kept
BY InitKept, NextKept, PTL DEF Spec

-----------------------------------------------------------------------------
(* The inductive invariant: in every step of every branch, the bytes consumed *)
(* and the bytes to come add up to the chunk.                                *)
THEOREM Invariance == Spec => []FmtInv
<1>1. Kept => FmtInv
  BY DEF Kept
<1> QED BY <1>1, AlwaysKept, PTL

(* The locals and the fields of parse_fmt_chunk keep their types; skip, a     *)
(* difference of u32 lengths, is never negative.                             *)
THEOREM TypeCorrect == Spec => []TypeOK
<1>1. FmtInv => TypeOK
  BY DEF FmtInv
<1> QED BY <1>1, Invariance, PTL

(* A chunk that is accepted is consumed to its last byte, whichever branch of *)
(* parse_fmt_chunk accepts it, whatever its length and cbSize.               *)
THEOREM Consumes == Spec => []ConsumesExactly
<1>1. FmtInv => ConsumesExactly
  BY DEF FmtInv, PlaceInv, ConsumesExactly, Parsed
<1> QED BY <1>1, Invariance, PTL

(* No read or skip of parse_fmt_chunk reaches behind the chunk, not even in    *)
(* one that is refused in the end.                                           *)
THEOREM StaysInChunk == Spec => []NeverPastChunk
<1>1. FmtInv => NeverPastChunk
  <2> SUFFICES ASSUME FmtInv, Ask > 0 PROVE consumed + Ask <= chunkLen
    BY DEF NeverPastChunk
  <2>1. TypeOK /\ PlaceInv /\ chunkLen \in Nat /\ extra \in Nat /\ skip \in Nat
        /\ consumed \in Nat /\ coefs \in Nat /\ LeastExtra \in {2, 8}
        /\ (pc = "msHead" => LeastExtra = 8)
    BY Numerals DEF FmtInv, TypeOK, LeastExtra, BranchInv
  <2>2. pc \in DOMAIN FieldLens \cup Skipping
    BY <2>1, AskIs DEF TypeOK
  <2>3. CASE pc \in Skipping
    BY <2>1, <2>3, AskIs DEF Skipping, PlaceInv
  <2>4. CASE pc \in {"core", "cb", "adpcmCb", "msHead", "coefs"}
    BY <2>1, <2>4, AskIs DEF PlaceInv
  <2>5. CASE pc \in {"imaHead", "extCb", "extValid", "extGuid"}
    BY <2>1, <2>5, AskIs DEF PlaceInv
  <2> QED BY <2>2, <2>3, <2>4, <2>5 DEF FieldLens
<1> QED BY <1>1, Invariance, PTL

(* What parse_fmt_chunk lets through satisfies what the conversion kernels     *)
(* and the block walks assume of a format.                                   *)
THEOREM Convertible == Spec => []CanBeConverted
<1>1. Kept => CanBeConverted
  BY DEF Kept
<1> QED BY <1>1, AlwaysKept, PTL

(* resolve_tag admits G.726 under tag 0x0064 exactly when fmt_fixed would      *)
(* accept the same chunk under tag 0x0045.                                   *)
THEOREM TagsAgreeAlways == Spec => []TagsAgree
<1>1. Kept => TagsAgree
  BY DEF Kept
<1> QED BY <1>1, AlwaysKept, PTL

-----------------------------------------------------------------------------
(* What an admitted G.726 stream says about itself.                          *)

LEMMA AgreedWithByteRate ==
  ASSUME core \in Cores, core.channels = 1, core.rate = 8000,
         NEW b \in 2 .. 5, core.byteRate = 1000 * b
  PROVE  RateBits = b
<1>1. core.byteRate \in Nat /\ core.byteRate % 1 = 0 /\ core.byteRate \div 1 = 1000 * b
  OBVIOUS
<1>2. ((1000 * b) * 8) % 8000 = 0 /\ ((1000 * b) * 8) \div 8000 = b
  OBVIOUS
<1> QED BY <1>1, <1>2 DEF RateBits

LEMMA AgreedWithFields ==
  ASSUME core \in Cores, core.channels = 1, core.rate = 8000, AgreedBits > 0
  PROVE  /\ AgreedBits \in 2 .. 5
         /\ core.bits \in 2 .. 5 => core.bits = AgreedBits
         /\ core.byteRate \in {1000 * b : b \in 2 .. 5} => core.byteRate = 1000 * AgreedBits
<1>1. AgreedBits \in 2 .. 5
  BY AgreedRange
<1>2. core.bits \in 2 .. 5 => core.bits = AgreedBits
  BY <1>1 DEF AgreedBits
<1>3. ASSUME NEW b \in 2 .. 5, core.byteRate = 1000 * b
      PROVE  b = AgreedBits
  <2>1. RateBits = b
    BY <1>3, AgreedWithByteRate
  <2> QED BY <1>1, <2>1 DEF AgreedBits
<1> QED BY <1>1, <1>2, <1>3

LEMMA AgreedKept ==
  ASSUME core' = core
  PROVE  AgreedBits' = AgreedBits
<1>1. RateBits' = RateBits
  BY DEF RateBits
<1> QED BY <1>1 DEF AgreedBits

(* The codec is only written where the chunk is classified, where an ADPCM     *)
(* chunk ends, and at the gate.                                              *)
LEMMA WritesCodec ==
  ASSUME Kept, [Next]_vars
  PROVE  \/ SkipTail \/ Classify \/ Gate
         \/ pc' \notin {"gate", "admitted"}
         \/ UNCHANGED <<pc, core, maxRate, codec, width, rate>>
<1>1. CASE Length \/ ReadCore \/ ReadCb \/ Skip
  BY <1>1 DEF Length, ReadCore, ReadCb, Skip, Go, Refuse
<1>2. CASE AdpcmCb \/ MsHead \/ ReadCoef \/ ImaHead \/ SkipRest
  BY <1>2 DEF AdpcmCb, MsHead, ReadCoef, ImaHead, SkipRest, Go, Refuse
<1>3. CASE ExtCb \/ ExtValid \/ ExtGuid
  BY <1>3 DEF ExtCb, ExtValid, ExtGuid, Go, Refuse
<1>4. CASE ReadFails
  BY <1>4 DEF ReadFails
<1>5. CASE UNCHANGED vars
  BY <1>5 DEF vars, chunk, options, format
<1>6. CASE SkipTail \/ Classify \/ Gate
  BY <1>6
<1> QED BY <1>1, <1>2, <1>3, <1>4, <1>5, <1>6, Zenon DEF Next, Read

LEMMA SkipTailPlayable ==
  ASSUME Kept, SkipTail
  PROVE  G726Inv' /\ AdmittedIsPlayable'
<1>1. pc = "tail" /\ pc' = "gate" /\ codec' = core.tag
  BY DEF SkipTail, Go
<1>2. core.tag \in {"MsAdpcm", "ImaAdpcm"}
  BY <1>1 DEF Kept, FmtInv, BranchInv
<1> QED BY <1>1, <1>2 DEF G726Inv, AdmittedIsPlayable

LEMMA ClassifyPlayable ==
  ASSUME Kept, Classify
  PROVE  G726Inv' /\ AdmittedIsPlayable'
<1>1. CASE Formats = {}
  <2>1. pc' = "refused"
    BY <1>1 DEF Classify, Refuse, Go
  <2> QED BY <2>1 DEF G726Inv, Parsed, AdmittedIsPlayable
<1>2. CASE Formats # {}
  <2>1. PICK f \in Formats :
           /\ codec' = f.codec /\ width' = f.width
           /\ Go("gate") /\ UNCHANGED <<locals, rate>>
    BY <1>2 DEF Classify
  <2>2. pc' = "gate" /\ core' = core
    BY <2>1, GoFacts
  <2>3. f.codec = "G726" => FixedG726 /\ f.width = AgreedBits
    BY FormatFacts DEF Classify, Kept
  <2> QED BY <2>1, <2>2, <2>3, AgreedKept DEF G726Inv, AdmittedIsPlayable, FixedG726
<1> QED BY <1>1, <1>2

LEMMA AdmitsPlayable ==
  ASSUME Kept, G726Inv, pc = "gate", NEW f \in Resolved, Supported(f.codec), Go("admitted"),
         codec' = f.codec, width' = f.width, rate' = OutputRate(f.codec)
  PROVE  G726Inv' /\ AdmittedIsPlayable'
<1>1. /\ pc' = "admitted" /\ core' = core /\ maxRate' = maxRate /\ core \in Cores
      /\ core.rate \in Nat /\ maxRate \in Nat
  BY GoFacts, CoreFacts, Numerals DEF Kept, FmtInv, TypeOK
<1>2. f.codec \notin {"None", "Unresolved0064", "Unsupported"}
  BY ResolvedFacts DEF Kept, Supported
<1>3. core.rate \in 1 .. maxRate /\ OutputRate(f.codec) <= maxRate
      /\ (f.codec = "G726" => core.rate = 8000)
  BY DEF Supported
<1>4. OutputRate(f.codec) \in 1 .. maxRate /\ (f.codec = "G722" => rate' = 16000)
      /\ (f.codec = "G726" => rate' = 8000)
  BY <1>1, <1>3 DEF OutputRate
<1>5. f.codec = "G726" => core.channels = 1 /\ AgreedBits > 0 /\ f.width = AgreedBits
  <2>1. CASE codec # "Unresolved0064" /\ f = [codec |-> codec, width |-> width]
    <3>1. f.codec = codec /\ f.width = width
      BY <2>1
    <3> QED BY <3>1 DEF G726Inv, Parsed
  <2>2. CASE f = [codec |-> "G722", width |-> 1]
    BY <2>2
  <2>3. CASE ForcedG726 /\ f = [codec |-> "G726", width |-> AgreedBits]
    BY <2>3 DEF ForcedG726
  <2> QED BY <2>1, <2>2, <2>3, ResolvedChoice
<1>6. G726Inv'
  BY <1>1, <1>5, AgreedKept DEF G726Inv
<1>7. f.codec = "G726" =>
        /\ AgreedBits \in 2 .. 5
        /\ core.bits \in 2 .. 5 => core.bits = AgreedBits
        /\ core.byteRate \in {1000 * b : b \in 2 .. 5} => core.byteRate = 1000 * AgreedBits
  BY <1>1, <1>3, <1>5, AgreedWithFields
<1>8. AdmittedIsPlayable'
  BY <1>1, <1>2, <1>4, <1>5, <1>7 DEF AdmittedIsPlayable
<1> QED BY <1>6, <1>8

LEMMA GatePlayable ==
  ASSUME Kept, G726Inv, Gate
  PROVE  G726Inv' /\ AdmittedIsPlayable'
<1>1. CASE {f \in Resolved : Supported(f.codec)} = {}
  <2>1. pc' = "refused"
    BY <1>1 DEF Gate, Refuse, Go
  <2> QED BY <2>1 DEF G726Inv, Parsed, AdmittedIsPlayable
<1>2. CASE {f \in Resolved : Supported(f.codec)} # {}
  <2>1. PICK f \in {f \in Resolved : Supported(f.codec)} :
           /\ codec' = f.codec /\ width' = f.width /\ rate' = OutputRate(f.codec)
           /\ Go("admitted") /\ UNCHANGED locals
    BY <1>2 DEF Gate
  <2>2. pc = "gate" /\ f \in Resolved /\ Supported(f.codec)
    BY <2>1 DEF Gate
  <2> QED BY <2>1, <2>2, AdmitsPlayable
<1> QED BY <1>1, <1>2

LEMMA PlayableKept ==
  ASSUME Kept, G726Inv, AdmittedIsPlayable, [Next]_vars
  PROVE  G726Inv' /\ AdmittedIsPlayable'
<1>1. CASE pc' \notin {"gate", "admitted"}
  BY <1>1 DEF G726Inv, Parsed, AdmittedIsPlayable
<1>2. CASE UNCHANGED <<pc, core, maxRate, codec, width, rate>>
  BY <1>2, AgreedKept DEF G726Inv, Parsed, AdmittedIsPlayable
<1> QED BY <1>1, <1>2, WritesCodec, SkipTailPlayable, ClassifyPlayable, GatePlayable

(* After parse_fmt_chunk and codec_gate no codec is open, the output rate is   *)
(* under the caller's ceiling, also when G.722 doubles it, and the codeword    *)
(* width of G.726 contradicts neither field of the chunk that states it.     *)
THEOREM Playable == Spec => []AdmittedIsPlayable
<1>1. Init => G726Inv /\ AdmittedIsPlayable
  BY DEF Init, G726Inv, Parsed, AdmittedIsPlayable
<1>2. Kept /\ G726Inv /\ AdmittedIsPlayable /\ [Next]_vars
        => G726Inv' /\ AdmittedIsPlayable'
  BY PlayableKept
<1> QED BY <1>1, <1>2, AlwaysKept, PTL DEF Spec

-----------------------------------------------------------------------------
(* The session.  SessionInv says what its properties leave out: how far the peek  *)
(* came, what a sniff said of the file, and what was answered for which form.     *)

CallUnderWay ==
  /\ file \in Files /\ reader \in BOOLEAN
  /\ pos \in Nat /\ start \in Nat /\ filled \in Nat
  /\ op \in Calls \cup {"idle"}
  /\ step \in {"none", "peek", "judge", "header", "payload", "return", "rewind"}
  /\ op = "idle" <=> step = "none"
  /\ step = "return" => op = "decode"

(* The peek asks until it has its prefix or the file ends. *)
PeekIsFull ==
  /\ step \in {"peek", "judge"} => pos = start + filled
  /\ op # "idle" => filled <= Prefix
  /\ step = "peek" => filled < Prefix
  /\ step = "judge" \/ at # None => filled = Prefix \/ start + filled >= file.len
  /\ op # "idle" /\ start = 0 => filled <= file.len

HeaderPlace ==
  /\ step \in {"none", "peek", "judge"} => at = None
  /\ step \in {"header", "payload"} => at # None
  /\ at # None => op \in {"probe", "decode"} /\ at = IF GoesOnAsW64 THEN start ELSE 0

FileIsWave ==
  /\ file.wave
  /\ \/ file.kind = "Riff" /\ file.len >= 12
     \/ file.kind = "W64" /\ file.len >= 40

(* A sniff from the start sees what the file is, and the next call starts there. *)
SniffIsTrue ==
  /\ op = "sniff" /\ step = "rewind" /\ start = 0 =>
       (result = "true" => FileIsWave) /\ (result = "false" => ~FileIsWave)
  /\ (verdict = "true" => FileIsWave) /\ (verdict = "false" => ~FileIsWave)
  /\ verdict \in {"true", "false"} => IF op = "idle" THEN pos = 0 ELSE start = 0

AnswerFitsForm ==
  /\ step = "payload" => Form = "Ok"
  /\ at # None /\ step \in {"return", "rewind"} =>
       /\ result = "NotWave" => Form # "Ok"
       /\ result \in {"Ok", "Format"} => Form = "Ok"

SessionInv ==
  CallUnderWay /\ PeekIsFull /\ HeaderPlace /\ SniffIsTrue /\ AnswerFitsForm /\ NextCallBeginsAtZero

LEMMA SessionTypes ==
  ASSUME CallUnderWay
  PROVE  /\ file.len \in Nat /\ file.w64At \subseteq Nat \ {0}
         /\ file.sound => file.head \in 40 .. file.len
         /\ pos \in Nat /\ start \in Nat /\ filled \in Nat
         /\ Prefix \in {16, 40}
BY SessionAssumption DEF CallUnderWay, File, Prefix

(* What a step that leaves the file and the peek alone leaves as it was. *)
LEMMA SameView ==
  ASSUME UNCHANGED <<file, op, start, filled>>
  PROVE  /\ Prefix' = Prefix /\ (GoesOnAsW64' <=> GoesOnAsW64) /\ (FileIsWave' <=> FileIsWave)
         /\ (at' = at => Form' = Form)
<1>1. Prefix' = Prefix
  BY DEF Prefix
<1>2. GoesOnAsW64' <=> GoesOnAsW64
  BY DEF GoesOnAsW64, Begins
<1>3. FileIsWave' <=> FileIsWave
  BY DEF FileIsWave
<1>4. ASSUME at' = at
      PROVE  Form' = Form
  BY <1>2, <1>4 DEF Form, UpTo, FormIsWave, Begins
<1> QED BY <1>1, <1>2, <1>3, <1>4

(* Form is Ok for a WAVE form behind the peek of a Wave64 file, or in a RIFF file; *)
(* a full peek from the start makes that the same question as FileIsWave.       *)
LEMMA FormIs ==
  ASSUME CallUnderWay, PeekIsFull, HeaderPlace, at # None
  PROVE  /\ Form = "Ok" <=>
              /\ FormIsWave(at)
              /\ \/ GoesOnAsW64 /\ start + 40 <= file.len
                 \/ ~GoesOnAsW64 /\ file.kind = "Riff" /\ file.len >= 12
         /\ start = 0 => (Form = "Ok" <=> FileIsWave)
<1>1. /\ op # "sniff" /\ op # "idle" /\ Prefix = 16 /\ (filled = 16 \/ start + filled >= file.len)
      /\ at = IF GoesOnAsW64 THEN start ELSE 0
  BY DEF HeaderPlace, PeekIsFull, Prefix
<1>2. Form = "Ok" <=>
        /\ FormIsWave(at)
        /\ \/ GoesOnAsW64 /\ start + 40 <= file.len
           \/ ~GoesOnAsW64 /\ file.kind = "Riff" /\ file.len >= 12
  <2>0. ASSUME NEW n \in Nat
        PROVE  UpTo(n) = "Ok" <=> FormIsWave(at) /\ n <= file.len
    BY SessionTypes DEF UpTo
  <2>1. CASE GoesOnAsW64
    <3>1. at = start /\ start + 40 \in Nat /\ Form = UpTo(start + 40)
      BY <1>1, <2>1, SessionTypes DEF Form
    <3> QED BY <2>0, <2>1, <3>1
  <2>2. CASE ~GoesOnAsW64
    <3>1. at = 0 /\ Begins(at) = file.kind
      BY <1>1, <2>2 DEF Begins
    <3>2. CASE file.len >= 4 /\ file.kind # "Riff"
      <4>1. Form = "NotWave"
        BY <2>2, <3>1, <3>2 DEF Form
      <4> QED BY <2>2, <3>2, <4>1
    <3>3. CASE ~(file.len >= 4 /\ file.kind # "Riff")
      <4>1. Form = UpTo(12)
        BY <2>2, <3>1, <3>3 DEF Form
      <4>2. 12 <= file.len <=> file.kind = "Riff" /\ file.len >= 12
        BY <3>3, SessionTypes
      <4> QED BY <2>0, <2>2, <4>1, <4>2
    <3> QED BY <3>2, <3>3
  <2> QED BY <2>1, <2>2
<1>3. ASSUME start = 0
      PROVE  Form = "Ok" <=> FileIsWave
  <2>1. GoesOnAsW64 <=> filled = 16 /\ file.kind = "W64"
    BY <1>3 DEF GoesOnAsW64, Begins
  <2>2. file.len >= 40 => filled = 16
    BY <1>1, <1>3, SessionTypes DEF PeekIsFull
  <2>3. at = 0 /\ (FormIsWave(at) <=> file.wave)
    BY <1>1, <1>3 DEF FormIsWave
  <2> QED BY <1>2, <1>3, <2>1, <2>2, <2>3, SessionTypes DEF FileIsWave
<1> QED BY <1>2, <1>3

-----------------------------------------------------------------------------
(* Each action of the session keeps the invariant.                           *)

LEMMA SessionStarts ==
  ASSUME SessionInit
  PROVE  SessionInv
<1>1. CallUnderWay /\ HeaderPlace /\ PeekIsFull
  BY DEF SessionInit, CallUnderWay, HeaderPlace, PeekIsFull, Calls
<1>2. SniffIsTrue /\ AnswerFitsForm /\ NextCallBeginsAtZero
  BY DEF SessionInit, SniffIsTrue, AnswerFitsForm, NextCallBeginsAtZero, Nothing
<1> QED BY <1>1, <1>2 DEF SessionInv

LEMMA CallStep ==
  ASSUME SessionInv, Call
  PROVE  SessionInv'
<1>1. /\ op = "idle" /\ op' \in Calls /\ step' = "peek" /\ start' = pos /\ filled' = 0 /\ at' = None
      /\ UNCHANGED <<file, reader, pos, result, last, stuck, verdict>>
  BY DEF Call, source
<1>2. CallUnderWay'
  BY <1>1 DEF SessionInv, CallUnderWay, Calls
<1>3. Prefix' \in {16, 40} /\ pos \in Nat /\ file.len \in Nat
  BY SessionTypes DEF SessionInv, Prefix
<1>4. PeekIsFull'
  BY <1>1, <1>3 DEF PeekIsFull
<1>5. HeaderPlace'
  BY <1>1 DEF HeaderPlace
<1>6. SniffIsTrue'
  BY <1>1 DEF SessionInv, SniffIsTrue, FileIsWave, Calls
<1>7. AnswerFitsForm'
  BY <1>1 DEF AnswerFitsForm
<1>8. NextCallBeginsAtZero'
  BY <1>1 DEF SessionInv, NextCallBeginsAtZero, Calls
<1> QED BY <1>2, <1>4, <1>5, <1>6, <1>7, <1>8 DEF SessionInv

(* A step inside a call, told by what it does to the peek, the place and the      *)
(* answer: the other parts of the invariant follow.                           *)
LEMMA Inside ==
  ASSUME SessionInv, step # "none", step' # "none", step' # "return" \/ op = "decode",
         UNCHANGED <<file, reader, op, start, last, stuck, verdict>>,
         pos' \in Nat, filled' \in Nat,
         step' \in {"peek", "judge", "header", "payload", "return", "rewind"}
  PROVE  CallUnderWay' /\ NextCallBeginsAtZero'
<1>1. op # "idle" /\ op' # "idle"
  BY DEF SessionInv, CallUnderWay
<1>2. CallUnderWay'
  BY <1>1 DEF SessionInv, CallUnderWay
<1>3. NextCallBeginsAtZero'
  BY <1>1 DEF SessionInv, NextCallBeginsAtZero
<1> QED BY <1>2, <1>3

(* A sniff that is not judged in the step stays true of the file. *)
LEMMA SniffKept ==
  ASSUME SessionInv, step # "none", step' # "none",
         UNCHANGED <<file, op, start, verdict>>,
         op = "sniff" /\ step' = "rewind" => result' \notin {"true", "false"}
  PROVE  SniffIsTrue'
<1>1. op # "idle"
  BY DEF SessionInv, CallUnderWay
<1> QED BY <1>1 DEF SessionInv, SniffIsTrue, FileIsWave

LEMMA PeekStep ==
  ASSUME SessionInv, Peek
  PROVE  SessionInv'
<1>1. PICK m \in Delivered :
         /\ pos' = pos + m /\ filled' = filled + m
         /\ step' = IF PeekEnds(m) THEN "judge" ELSE "peek"
  BY DEF Peek
<1>2. /\ step = "peek" /\ op # "idle" /\ at = None
      /\ UNCHANGED <<file, reader, op, start, at, result, last, stuck, verdict>>
  BY DEF Peek, source, SessionInv, CallUnderWay, HeaderPlace
<1>3. pos = start + filled /\ filled < Prefix /\ (start = 0 => filled <= file.len)
  BY <1>2 DEF SessionInv, PeekIsFull
<1>4. file.len \in Nat /\ pos \in Nat /\ start \in Nat /\ filled \in Nat /\ Prefix \in {16, 40}
  BY SessionTypes DEF SessionInv
<1>5. m \in Nat /\ m <= Prefix - filled /\ (m = 0 \/ m <= file.len - pos) /\ (m = 0 => pos >= file.len)
  BY <1>1, <1>3, <1>4 DEF Delivered, Least
<1>6. CallUnderWay' /\ NextCallBeginsAtZero'
  BY <1>1, <1>2, <1>4, <1>5, Inside
<1>7. Prefix' = Prefix
  BY <1>2 DEF Prefix
<1>8. PeekIsFull'
  <2>1. CASE PeekEnds(m)
    BY <1>1, <1>2, <1>3, <1>4, <1>5, <1>7, <2>1 DEF PeekIsFull, PeekEnds
  <2>2. CASE ~PeekEnds(m)
    BY <1>1, <1>2, <1>3, <1>4, <1>5, <1>7, <2>2 DEF PeekIsFull, PeekEnds
  <2> QED BY <2>1, <2>2
<1>9. HeaderPlace' /\ AnswerFitsForm'
  BY <1>1, <1>2 DEF HeaderPlace, AnswerFitsForm
<1>10. SniffIsTrue'
  BY <1>1, <1>2, SniffKept
<1> QED BY <1>6, <1>8, <1>9, <1>10 DEF SessionInv

(* A call that ends before it has a header. *)
LEMMA EndsEarly ==
  ASSUME SessionInv, step \in {"peek", "judge"}, NEW r, Ends(r),
         UNCHANGED <<file, reader, pos, op, start, filled, at, last, stuck, verdict>>
  PROVE  /\ CallUnderWay' /\ PeekIsFull' /\ HeaderPlace' /\ AnswerFitsForm' /\ NextCallBeginsAtZero'
         /\ result' = r /\ step' \in {"return", "rewind"} /\ at = None
<1>1. at = None /\ result' = r /\ step' = After /\ After \in {"return", "rewind"}
      /\ (After = "return" => op = "decode") /\ pos \in Nat /\ filled \in Nat
  BY DEF SessionInv, HeaderPlace, CallUnderWay, Ends, After
<1>2. CallUnderWay' /\ NextCallBeginsAtZero'
  BY <1>1, Inside
<1>3. Prefix' = Prefix
  BY DEF Prefix
<1>4. PeekIsFull'
  BY <1>1, <1>3 DEF SessionInv, PeekIsFull
<1>5. HeaderPlace' /\ AnswerFitsForm'
  BY <1>1 DEF HeaderPlace, AnswerFitsForm
<1> QED BY <1>1, <1>2, <1>4, <1>5

LEMMA EarlyFailures ==
  ASSUME SessionInv, PeekFails \/ StartOverFails
  PROVE  SessionInv'
<1>1. /\ step \in {"peek", "judge"} /\ Ends("Io")
      /\ UNCHANGED <<file, reader, pos, op, start, filled, at, last, stuck, verdict>>
  BY DEF PeekFails, StartOverFails, source
<1>2. SniffIsTrue'
  BY <1>1, EndsEarly, SniffKept
<1> QED BY <1>1, <1>2, EndsEarly DEF SessionInv

LEMMA JudgeStep ==
  ASSUME SessionInv, JudgeSniff
  PROVE  SessionInv'
<1> DEFINE r == IF IsWave THEN "true" ELSE "false"
<1>1. /\ op = "sniff" /\ step = "judge" /\ Ends(r)
      /\ UNCHANGED <<file, reader, pos, op, start, filled, at, last, stuck, verdict>>
  BY DEF JudgeSniff, source
<1>2. /\ CallUnderWay' /\ PeekIsFull' /\ HeaderPlace' /\ AnswerFitsForm' /\ NextCallBeginsAtZero'
      /\ result' = r
  BY <1>1, EndsEarly
<1>3. start = 0 => (IsWave <=> FileIsWave)
  <2>1. filled <= file.len \/ start # 0
    BY <1>1 DEF SessionInv, PeekIsFull
  <2>2. filled = 40 \/ start + filled >= file.len
    BY <1>1 DEF SessionInv, PeekIsFull, Prefix
  <2>3. file.len \in Nat /\ filled \in Nat
    BY SessionTypes DEF SessionInv
  <2> QED BY <2>1, <2>2, <2>3 DEF IsWave, FormIsWave, Begins, FileIsWave
<1>4. SniffIsTrue'
  BY <1>1, <1>2, <1>3 DEF SessionInv, SniffIsTrue, FileIsWave
<1> QED BY <1>2, <1>4 DEF SessionInv

LEMMA HeaderBegins ==
  ASSUME SessionInv, GoOn \/ StartOver
  PROVE  SessionInv'
<1>1. /\ op # "sniff" /\ step = "judge" /\ step' = "header"
      /\ at' = IF GoesOnAsW64 THEN start ELSE 0
      /\ pos' \in {pos, 0}
      /\ UNCHANGED <<file, reader, op, start, filled, result, last, stuck, verdict>>
  BY DEF GoOn, StartOver, source
<1>2. pos \in Nat /\ start \in Nat /\ filled \in Nat
  BY SessionTypes DEF SessionInv
<1>3. CallUnderWay' /\ NextCallBeginsAtZero'
  BY <1>1, <1>2, Inside
<1>4. Prefix' = Prefix /\ (GoesOnAsW64' <=> GoesOnAsW64)
  BY <1>1, SameView
<1>5. PeekIsFull'
  BY <1>1, <1>4 DEF SessionInv, PeekIsFull
<1>6. HeaderPlace'
  <2>1. op \in {"probe", "decode"}
    BY <1>1 DEF SessionInv, CallUnderWay, Calls
  <2>2. at' # None
    BY <1>1, <1>2 DEF None
  <2> QED BY <1>1, <1>4, <2>1, <2>2 DEF HeaderPlace
<1>7. AnswerFitsForm'
  BY <1>1 DEF AnswerFitsForm
<1>8. SniffIsTrue'
  BY <1>1, SniffKept
<1> QED BY <1>3, <1>5, <1>6, <1>7, <1>8 DEF SessionInv

(* From the header to the payload or to an answer that fits the form. *)
LEMMA BehindHeader ==
  ASSUME SessionInv, step \in {"header", "payload"}, pos' \in Nat,
         UNCHANGED <<file, reader, op, start, filled, at, last, stuck, verdict>>,
         \/ step' = "payload" /\ Form = "Ok"
         \/ /\ step' = After
            /\ result' = "NotWave" => Form # "Ok"
            /\ result' \in {"Ok", "Format"} => Form = "Ok"
  PROVE  SessionInv'
<1>1. at # None /\ op \in {"probe", "decode"} /\ step' \in {"payload", "return", "rewind"}
      /\ (step' = "return" => op = "decode") /\ filled \in Nat
  BY DEF SessionInv, HeaderPlace, CallUnderWay, After
<1>2. CallUnderWay' /\ NextCallBeginsAtZero'
  BY <1>1, Inside
<1>3. Prefix' = Prefix /\ (GoesOnAsW64' <=> GoesOnAsW64) /\ Form' = Form
  BY SameView
<1>4. PeekIsFull'
  BY <1>1, <1>3 DEF SessionInv, PeekIsFull
<1>5. HeaderPlace'
  BY <1>1, <1>3 DEF SessionInv, HeaderPlace
<1>6. AnswerFitsForm'
  BY <1>1, <1>3 DEF AnswerFitsForm, After
<1>7. SniffIsTrue'
  BY <1>1, SniffKept
<1> QED BY <1>2, <1>4, <1>5, <1>6, <1>7 DEF SessionInv

LEMMA HeaderStep ==
  ASSUME SessionInv, Header
  PROVE  SessionInv'
<1>1. /\ step = "header"
      /\ UNCHANGED <<file, reader, op, start, filled, at, last, stuck, verdict>>
  BY DEF Header, source
<1>2. file.len \in Nat /\ pos \in Nat /\ (file.sound => file.head \in Nat)
  BY SessionTypes DEF SessionInv
<1>3. CASE Form # "Ok" /\ Ends(Form) /\ pos' \in pos .. file.len
  <2>1. Form # "Format"
    BY DEF Form, UpTo
  <2> QED BY <1>1, <1>2, <1>3, <2>1, BehindHeader DEF Ends
<1>4. CASE Form = "Ok" /\ Ends("Format") /\ pos' \in pos .. file.len
  BY <1>1, <1>2, <1>4, BehindHeader DEF Ends
<1>5. CASE /\ Form = "Ok" /\ (at = 0 => file.sound)
           /\ pos' \in IF at = 0 THEN {file.head} ELSE pos .. file.len
           /\ IF op = "probe" THEN Ends("Ok") ELSE step' = "payload" /\ UNCHANGED result
  <2>1. pos' \in Nat
    BY <1>2, <1>5
  <2> QED BY <1>1, <1>5, <2>1, BehindHeader DEF Ends
<1> QED BY <1>3, <1>4, <1>5 DEF Header

LEMMA LateSteps ==
  ASSUME SessionInv, HeaderFails \/ Payload
  PROVE  SessionInv'
<1>1. /\ step \in {"header", "payload"} /\ pos' \in pos .. file.len
      /\ UNCHANGED <<file, reader, op, start, filled, at, last, stuck, verdict>>
  BY DEF HeaderFails, Payload, source
<1>2. file.len \in Nat /\ pos \in Nat
  BY SessionTypes DEF SessionInv
<1>3. CASE HeaderFails
  BY <1>1, <1>2, <1>3, BehindHeader DEF HeaderFails, Ends
<1>4. CASE Payload
  <2>1. PICK outcome \in {"Ok", "Io", "Format"} : Ends(outcome)
    BY <1>4 DEF Payload
  <2>2. Form = "Ok"
    BY <1>4 DEF Payload, SessionInv, AnswerFitsForm
  <2> QED BY <1>1, <1>2, <2>1, <2>2, BehindHeader DEF Ends
<1> QED BY <1>3, <1>4

LEMMA ReturnStep ==
  ASSUME SessionInv, ReturnDecoded \/ Rewind \/ RewindFails
  PROVE  SessionInv'
<1>1. PICK o : Return(o) /\ (o = result \/ o = "Io")
               /\ (RewindFails => o \notin {"Ok", "true", "false"})
  BY DEF ReturnDecoded, Rewind, RewindFails
<1>2. /\ op' = "idle" /\ step' = "none" /\ last' = [op |-> op, outcome |-> o]
      /\ verdict' = IF op = "sniff" /\ start = 0 THEN o ELSE "none"
      /\ start' = 0 /\ filled' = 0 /\ at' = None /\ UNCHANGED <<file, reader>>
  BY <1>1 DEF Return, source
<1>3. /\ step \in {"return", "rewind"} /\ (step = "return" <=> op = "decode" /\ ReturnDecoded)
      /\ \/ step = "return" /\ op = "decode" /\ stuck' = FALSE /\ pos' = pos
         \/ step = "rewind" /\ stuck' = FALSE /\ pos' = 0
         \/ step = "rewind" /\ stuck' = TRUE /\ pos' = pos /\ o \notin {"Ok", "true", "false"}
  BY <1>1 DEF ReturnDecoded, Rewind, RewindFails, SessionInv, CallUnderWay
<1>4. pos' \in Nat
  BY <1>3 DEF SessionInv, CallUnderWay
<1>5. CallUnderWay' /\ HeaderPlace' /\ AnswerFitsForm'
  BY <1>2, <1>4 DEF SessionInv, CallUnderWay, HeaderPlace, AnswerFitsForm
<1>6. PeekIsFull'
  BY <1>2 DEF PeekIsFull
<1>7. SniffIsTrue'
  <2>1. CASE op = "sniff" /\ start = 0
    BY <1>1, <1>2, <1>3, <2>1 DEF SessionInv, SniffIsTrue, FileIsWave
  <2>2. CASE ~(op = "sniff" /\ start = 0)
    BY <1>2, <2>2 DEF SniffIsTrue
  <2> QED BY <2>1, <2>2
<1>8. NextCallBeginsAtZero'
  BY <1>2, <1>3 DEF NextCallBeginsAtZero
<1> QED BY <1>5, <1>6, <1>7, <1>8 DEF SessionInv

LEMMA SessionStep ==
  ASSUME SessionInv, [SessionNext]_sessionVars
  PROVE  SessionInv'
<1>1. CASE UNCHANGED sessionVars
  BY <1>1 DEF sessionVars, source, SessionInv, CallUnderWay, PeekIsFull, HeaderPlace, SniffIsTrue,
     AnswerFitsForm, NextCallBeginsAtZero, Prefix, FileIsWave, GoesOnAsW64, Form, UpTo, FormIsWave,
     Begins
<1> QED BY <1>1, CallStep, PeekStep, EarlyFailures, JudgeStep, HeaderBegins, HeaderStep, LateSteps,
     ReturnStep DEF SessionNext

(* What the invariant says of the calls of a session. *)
THEOREM SessionInvariant == SessionSpec => []SessionInv
BY SessionStarts, SessionStep, PTL DEF SessionSpec

-----------------------------------------------------------------------------
(* wav.rs, sniff_is_riff_wave and probe_with: for every file, every way a reader     *)
(* splits and fails its reads, and every order of calls, the call behind a sniff or   *)
(* a probe starts at the beginning, unless its rewind was refused, which it says.  *)
THEOREM NextCallIsFresh == SessionSpec => []NextCallBeginsAtZero
<1>1. SessionInv => NextCallBeginsAtZero
  BY DEF SessionInv
<1> QED BY <1>1, SessionInvariant, PTL

(* header/riff.rs, sniff_wave_prefix and parse_header: the two peeks agree on every  *)
(* file, so that what a sniff from the start said is what the next call finds.      *)
THEOREM SniffIsRight == SessionSpec => []SniffForetells
<1>1. SessionInv => SniffForetells
  <2>1. SUFFICES ASSUME SessionInv, step \in {"return", "rewind"}, op # "sniff", at # None
                 PROVE  /\ verdict = "true" => result # "NotWave" /\ Form = "Ok"
                        /\ verdict = "false" => result \notin {"Ok", "Format"} /\ Form # "Ok"
    BY DEF SniffForetells
  <2>2. op # "idle"
    BY <2>1 DEF SessionInv, CallUnderWay
  <2>3. verdict \in {"true", "false"} => (Form = "Ok" <=> FileIsWave)
    BY <2>1, <2>2, FormIs DEF SessionInv, SniffIsTrue
  <2> QED BY <2>1, <2>3 DEF SessionInv, SniffIsTrue, AnswerFitsForm
<1> QED BY <1>1, SessionInvariant, PTL

(* header/riff.rs, parse_header: where a retry takes its header from, whatever the   *)
(* call before left behind: the beginning, or a Wave64 marker right at the cursor. *)
THEOREM HeaderIsFound == SessionSpec => []HeaderIsOfTheFile
<1>1. SessionInv => HeaderIsOfTheFile
  <2>1. SUFFICES ASSUME SessionInv, step \in {"header", "payload"}
                 PROVE  /\ at = 0 \/ start \in file.w64At
                        /\ Form = "Ok" /\ at = 0 => file.kind = "Riff" \/ start = 0
    BY DEF HeaderIsOfTheFile
  <2>2. at # None /\ at = IF GoesOnAsW64 THEN start ELSE 0
    BY <2>1 DEF SessionInv, HeaderPlace
  <2>3. at = 0 \/ start \in file.w64At
    BY <2>2 DEF GoesOnAsW64, Begins
  <2>4. Form = "Ok" => GoesOnAsW64 \/ file.kind = "Riff"
    BY <2>1, <2>2, FormIs DEF SessionInv
  <2> QED BY <2>2, <2>3, <2>4
<1> QED BY <1>1, SessionInvariant, PTL
=============================================================================
