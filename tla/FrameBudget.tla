---------------------------- MODULE FrameBudget ----------------------------
(***************************************************************************)
(* open_decode (src/pull/mod.rs) behind the header and the codec gate: the      *)
(* length of the payload, the frames it is worth, and the two budgets they are  *)
(* checked against before a byte is decoded.  probe_with runs the same count     *)
(* without the budgets.  Behind it the decoding of the payload, as the bytes     *)
(* each codec takes and the frames it makes of them (its loops are modelled in    *)
(* PullWindows, G726Stream and AdpcmWalk).                                   *)
(***************************************************************************)
EXTENDS FrameCounts

CONSTANTS
  Formats,        \* values of Format
  PayloadLengths, \* bytes from data_pos to the end of the source
  DeclaredSizes,  \* declared_data_len and declared_sample_count, None included
  Durations,      \* max_duration_secs; 0 also stands for a negative one or NaN
  DecodeRates,    \* max_decode_sample_rate
  OutputCaps      \* max_output_bytes

Codecs == {"Pcm", "G722", "Gsm", "G726", "Ms", "Ima"}

(* unit: bytes of a PCM sample, bits of a codeword, or block_align. *)
Format == [codec : Codecs, channels : Nat \ {0}, unit : Nat \ {0}, rate : Nat \ {0}]

ASSUME BudgetAssumption ==
  /\ Formats \subseteq Format
  /\ \A f \in Formats : f.codec = "G726" => f.unit \in 2 .. 5 /\ f.channels = 1
  /\ \A f \in Formats : f.codec = "Gsm" => f.channels = 1
  /\ \A f \in Formats : f.codec \in {"Ms", "Ima"} => f.channels <= 2
  /\ PayloadLengths \subseteq 0 .. WordMax /\ DeclaredSizes \subseteq Nat \cup {None}
  /\ Durations \subseteq Nat /\ DecodeRates \subseteq Nat /\ OutputCaps \subseteq 0 .. WordMax

VARIABLES
  fmt, available, declaredLen, declaredCount, lengthKnown,  \* header and source
  mode, secs, decodeRate, outputCap,                        \* options
  stage,
  planned, count,  \* the payload and its frames; None if not known
  probed,          \* WavProbe::declared_frames
  used, delivered  \* bytes decoded and frames made of them

header == <<fmt, available, declaredLen, declaredCount, lengthKnown>>
options == <<mode, secs, decodeRate, outputCap>>
budgetVars == <<header, options, stage, planned, count, probed, used, delivered>>

BudgetInit ==
  /\ fmt \in Formats /\ available \in PayloadLengths /\ lengthKnown \in BOOLEAN
  /\ declaredLen \in DeclaredSizes /\ declaredCount \in DeclaredSizes
  /\ mode \in {"Mono", "Split"} /\ secs \in Durations
  /\ decodeRate \in DecodeRates /\ outputCap \in OutputCaps
  /\ stage = "probe" /\ planned = None /\ count = None /\ probed = None
  /\ used = 0 /\ delivered = 0

-----------------------------------------------------------------------------
(* The operators named Bug... are seeded faults, used by no specification.    *)

AtLeast1(n) == IF n < 1 THEN 1 ELSE n

(* WavHeader::data_len: what is declared, cut to what is there. *)
Payload ==
  IF lengthKnown
    THEN IF declaredLen # None THEN Least(declaredLen, available) ELSE available
    ELSE declaredLen

(* frame_layout, and framed_count for the three framed codecs, which know a      *)
(* count by declaration alone.                                               *)
Frames(len) ==
  CASE len = None -> IF fmt.codec \in {"G722", "Gsm", "G726"} THEN declaredCount ELSE None
    [] fmt.codec = "Pcm" -> Capped(PcmFrames(len, fmt.unit * fmt.channels), declaredCount)
    [] fmt.codec = "G722" -> Capped(G722Frames(len, fmt.channels), declaredCount)
    [] fmt.codec = "Gsm" -> Capped(GsmFrames(len), declaredCount)
    [] fmt.codec = "G726" -> Capped(G726Frames(len, fmt.unit), declaredCount)
    [] OTHER -> Capped(AdpcmFrames(len, fmt.unit, fmt.channels, fmt.codec = "Ima"), declaredCount)

(* probe_inner: no budget. *)
Probe ==
  /\ stage = "probe" /\ stage' = "open"
  /\ probed' = Frames(Payload)
  /\ UNCHANGED <<header, options, planned, count, used, delivered>>

(* byte_len().ok_or(StreamLengthUnknown), then the same count. *)
Open ==
  /\ stage = "open"
  /\ IF lengthKnown
       THEN planned' = Payload /\ count' = Frames(Payload) /\ stage' = "duration"
       ELSE stage' = "StreamLengthUnknown" /\ UNCHANGED <<planned, count>>
  /\ UNCHANGED <<header, options, probed, used, delivered>>

(* DecodeOptions::max_frames of the output rate. *)
MaxFrames == secs * AtLeast1(Least(fmt.rate, decodeRate))

CheckDuration ==
  /\ stage = "duration"
  /\ stage' = IF count > MaxFrames THEN "TooLong" ELSE "output"
  /\ UNCHANGED <<header, options, planned, count, probed, used, delivered>>

Planes == IF mode = "Mono" THEN 1 ELSE fmt.channels

BugOutputBytes == Saturated(count * 4)
OutputBytes == Saturated(Saturated(Planes * count) * 4)

CheckOutput ==
  /\ stage = "output"
  /\ stage' = IF OutputBytes > outputCap THEN "OutputTooLarge" ELSE "decode"
  /\ UNCHANGED <<header, options, planned, count, probed, used, delivered>>

-----------------------------------------------------------------------------
(* The bytes a decoder takes at a time, and the frames it has made of the first n. *)
Unit ==
  CASE fmt.codec = "Pcm" -> fmt.unit * fmt.channels
    [] fmt.codec = "G722" -> fmt.channels
    [] fmt.codec = "Gsm" -> MsBlock
    [] fmt.codec = "G726" -> 1
    [] OTHER -> fmt.unit

BlockHead == IF fmt.codec = "Ms" THEN 7 * fmt.channels ELSE 4 * fmt.channels

(* The samples of the block's header and of the nibbles behind it; stereo IMA     *)
(* takes them in groups of eight bytes.                                      *)
BlockFrames ==
  IF fmt.codec = "Ms"
    THEN 2 + ((Unit - BlockHead) * 2) \div fmt.channels
    ELSE 1 + IF fmt.channels = 2
               THEN 8 * ((Unit - BlockHead) \div 8)
               ELSE 2 * (Unit - BlockHead)

Made(n) ==
  CASE fmt.codec = "Pcm" -> n \div Unit
    [] fmt.codec = "G722" -> 2 * (n \div Unit)
    [] fmt.codec = "Gsm" -> MsSamples * (n \div Unit)
    [] fmt.codec = "G726" -> (8 * n) \div fmt.unit
    [] OTHER -> BlockFrames * (n \div Unit)

(* A block shorter than its header is refused by the walk (AdpcmWalk). *)
Decode ==
  /\ stage = "decode" /\ delivered < count
  /\ fmt.codec \in {"Ms", "Ima"} => fmt.unit >= BlockHead
  /\ used' = used + Unit /\ delivered' = Least(count, Made(used'))
  /\ UNCHANGED <<header, options, stage, planned, count, probed>>

BudgetNext == Probe \/ Open \/ CheckDuration \/ CheckOutput \/ Decode

BudgetSpec == BudgetInit /\ [][BudgetNext]_budgetVars

-----------------------------------------------------------------------------
(* Properties                                                                *)

(* open_decode, "Hard upper bound on decoded audio length", "Hard cap on decoded  *)
(* planar f32 bytes": whatever is delivered was admitted, in the rate decoding     *)
(* runs at and with every plane counted.  A cap that is u64::MAX caps nothing.   *)
DeliveryInBudget ==
  stage = "decode" =>
    /\ delivered <= count /\ count <= secs * AtLeast1(Least(fmt.rate, decodeRate))
    /\ outputCap < WordMax => Planes * count * 4 <= outputCap

(* frame_layout: the plan never promises a frame the payload does not hold, so no *)
(* decoder reads past it, whatever the header declares.                      *)
EstimateIsInTheData == used <= available /\ (declaredLen # None => used <= declaredLen)

(* "Smaller positive fact/ds64 counts trim the available audio; larger            *)
(* declarations never inflate it": nothing but such a count loses a frame of the    *)
(* payload, a count of zero among them, and the plan is what a probe of the same   *)
(* source announced.                                                         *)
NothingIsLost ==
  stage = "decode" =>
    /\ probed = count
    /\ \/ declaredCount > 0 /\ count = declaredCount
       \/ delivered < count
       \/ planned - used < Unit
       \/ planned * 8 > WordMax  \* the count of frames saturates
=============================================================================
