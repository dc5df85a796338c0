----------------------------- MODULE MCFmtChunk -----------------------------
(* Two studies: chunks of many lengths with few formats, and many formats in  *)
(* chunks of few lengths.                                                    *)
EXTENDS FmtChunk

Core(tag, channels, sampleRate, byteRate, align, bits) ==
  [tag |-> tag, channels |-> channels, rate |-> sampleRate, byteRate |-> byteRate,
   align |-> align, bits |-> bits]

(* A few chunks of every tag, some of which are refused. *)
OneOfEach ==
  {Core(t, 1, 8000, 4000, a, b) : t \in Tags, a \in {0, 1}, b \in {4, 8}}
    \cup {Core("Gsm", 2, 8000, 0, 65, 0)}

ManyLens == 14 .. 50
FewLens == {16, 30, 40}
ManyExtras == {0, 1, 2, 3, 7, 8, 9, 11, 12, 13, 16, 22, 23, 30, 40}
SomeCoefs == {0, 1, 2, 3, 257}

PcmLike ==
  {Core(t, c, 48000, 0, a, b) :
     t \in {"Pcm", "Float", "Extensible"}, c \in {0, 1, 2, 10, 27},
     a \in {0, 4, 6, 8, 18}, b \in {0, 8, 12, 16, 24, 32, 64, 72}}

G726Like ==
  {Core(t, c, r, y, a, b) :
     t \in {"G726", "Tag0064", "G722"}, c \in {1, 2}, r \in {0, 8000, 16000},
     y \in {0, 2000, 3000, 5000, 8000, 16000}, a \in {0, 1, 3, 5}, b \in {0, 3, 5, 8}}

Others ==
  {Core(t, c, 8000, 0, a, b) :
     t \in {"ALaw", "Gsm", "MsAdpcm", "ImaAdpcm"}, c \in {0, 1, 2, 3, 27},
     a \in {0, 1, 65}, b \in {4, 8}}

AllFormats == PcmLike \cup G726Like \cup Others
AllCores == OneOfEach \cup AllFormats
SomeValid == {0, 4, 8, 16, 24, 32, 64}

OfLengths == core \in OneOfEach /\ maxRate = 8000
OfFormats == core \in AllFormats /\ chunkLen \in FewLens

(* Formats are told apart by few of the values the other fields take. *)
Bounded == OfLengths \/ (extra \in {0, 2, 8, 22} /\ coefs <= 1)

MCInit == Init /\ (OfLengths \/ OfFormats)
MCSpec == MCInit /\ [][Next /\ Bounded']_vars
=============================================================================
