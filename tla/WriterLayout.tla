---------------------------- MODULE WriterLayout ----------------------------
(***************************************************************************)
(* Sizes of the five file layouts of the WAVE encoder                      *)
(* (src/encode/layout.rs, src/encode/header.rs): how long a header is, when *)
(* the 32-bit size fields overflow, what a layout is promoted to, and which *)
(* numbers a header carries.  The encoder's constants (44, 80, u32::MAX,    *)
(* u64::MAX ...) are CONSTANTS here so that small instances reach every     *)
(* boundary and the theorems hold for the real values.                      *)
(***************************************************************************)
EXTENDS Integers

CONSTANTS
  HeaderLen,  \* HeaderLen[layout][fact]: bytes before the payload
  Marker,     \* bytes of "RIFF" and its size field, which the size leaves out
  SizeMax,    \* u32::MAX
  WordMax     \* u64::MAX

Layouts == {"Riff", "Rf64", "Rf64Extensible", "Rifx", "Extensible"}
UserLayouts == Layouts \ {"Rf64Extensible"}
Classic == {"Riff", "Rifx", "Extensible"}

(* A WriteSpec: bytes of a frame and of a sample, IEEE float or not, with a *)
(* fact chunk or not, and whether validate_spec and pcm_layout accept it.   *)
WriteSpecs == [frame : Nat \ {0}, width : Nat \ {0},
               float : BOOLEAN, fact : BOOLEAN, valid : BOOLEAN]

Promoted(l) == IF l = "Extensible" THEN "Rf64Extensible" ELSE "Rf64"

ASSUME LayoutAssumption ==
  /\ Marker \in Nat /\ SizeMax \in Nat /\ WordMax \in Nat
  /\ SizeMax < WordMax
  /\ HeaderLen \in [Layouts -> [BOOLEAN -> Nat]]
  /\ \A l \in Layouts, f \in BOOLEAN : 0 < HeaderLen[l][f] /\ Marker <= HeaderLen[l][f]
  /\ \A l \in Classic, f \in BOOLEAN : HeaderLen[l][f] <= HeaderLen[Promoted(l)][f]

-----------------------------------------------------------------------------
HeaderLength(l, s) == HeaderLen[l][s.fact]

Pad(d) == d % 2

(* riff_prefix, extensible_riff_prefix: what the RIFF size counts besides    *)
(* the payload.                                                             *)
Prefix(l, s) == HeaderLength(l, s) - Marker

FileLen(l, s, d) == HeaderLength(l, s) + d + Pad(d)

FileLenFits(l, s, d) == FileLen(l, s, d) <= WordMax

\* a seeded fault for the sensitivity runs: forgets the pad byte
BugOverflows(l, s, d) == l \in Classic /\ Prefix(l, s) + d > SizeMax

Overflows(l, s, d) == l \in Classic /\ Prefix(l, s) + d + Pad(d) > SizeMax

(* Layout::header returns Ok: the specification is accepted, the file length *)
(* is a u64 and a classic header's sizes are u32.                           *)
HeaderFits(l, s, d) ==
  /\ s.valid
  /\ FileLenFits(l, s, d)
  /\ l \in Classic => d <= SizeMax /\ Prefix(l, s) + d + Pad(d) <= SizeMax

(* The sizes a header of layout l states: the container size, the data size *)
(* and the frame count, of the classic fields or of the ds64 chunk.         *)
HeaderSizes(l, s, d) ==
  [riff   |-> IF l \in Classic THEN Prefix(l, s) + d + Pad(d)
                               ELSE FileLen(l, s, d) - Marker,
   data   |-> d,
   frames |-> d \div s.frame]

(* The layout encode, encode_rf64, encode_rifx, encode_extensible and the    *)
(* sample encoders choose for a payload of d bytes; "none" is RiffTooLarge.  *)
OneShotLayout(l, s, d) ==
  IF ~Overflows(l, s, d) THEN l
  ELSE IF l = "Rifx" THEN "none" ELSE Promoted(l)
=============================================================================
