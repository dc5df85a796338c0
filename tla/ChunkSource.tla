---------------------------- MODULE ChunkSource -----------------------------
(***************************************************************************)
(* What the header walks need of a byte source (src/source.rs): its length,  *)
(* whether it is known, and the position.  The content of the file is left   *)
(* to the walks, which read every byte at most once before they end.  A      *)
(* length that is known is taken to be right, although from_read_seek        *)
(* believes its caller.                                                     *)
(***************************************************************************)
EXTENDS Integers

CONSTANTS
  FileLens,      \* lengths of the file
  WordMax,       \* u64::MAX
  SeekThreshold  \* SEEK_THRESHOLD (8192)

ASSUME SourceAssumption ==
  /\ FileLens \subseteq Nat /\ WordMax \in Nat
  /\ \A n \in FileLens : n + 8 <= WordMax
  /\ SeekThreshold \in Nat \ {0}

VARIABLES fileLen, lengthKnown, pos

source == <<fileLen, lengthKnown>>

SourceInit == fileLen \in FileLens /\ lengthKnown \in BOOLEAN /\ pos = 0

SourceTypeOK == fileLen \in FileLens /\ lengthKnown \in BOOLEAN /\ pos \in 0 .. WordMax

Least(a, b) == IF a <= b THEN a ELSE b
Larger(a, b) == IF a >= b THEN a ELSE b

SatAdd(a, b) == Least(a + b, WordMax)

(* n bytes can be read from position p. *)
Has(p, n) == n = 0 \/ p + n <= fileLen

BugCanSkip(p, n) == Has(p, n) \/ n >= SeekThreshold

(* ignore_bytes(n) at position p may succeed: n bytes are there, or the skip *)
(* is a seek and nobody knows where the file ends.  It may fail with the end  *)
(* of the file whenever they are not there: after a failed seek it reads.    *)
CanSkip(p, n) == Has(p, n) \/ (n >= SeekThreshold /\ ~lengthKnown)
=============================================================================
