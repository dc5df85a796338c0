--------------------------- MODULE SourceContract ---------------------------
(***************************************************************************)
(* What the walks and the decoders rely on in a byte source, whatever is     *)
(* behind it: a position in a file, moved by exact reads, skips and seeks.    *)
(* One step is one call with its answer, and the answer is judged by what     *)
(* that call asked for.                                                     *)
(***************************************************************************)
EXTENDS ChunkSource, Sequences

CONSTANT Requests  \* numbers of bytes a call asks for

VARIABLES
  ahead,   \* how far the reader stands beyond the position the source reports
  answer   \* the last call and what it returned: [method, asked, outcome, bytes]

vars == <<source, pos, ahead, answer>>

Answer(method, asked, outcome, bytes) ==
  [method |-> method, asked |-> asked, outcome |-> outcome, bytes |-> bytes]

Places(p, n) == [i \in 1 .. n |-> p + i - 1]

(* The position is right, or a logical zero over a cursor nobody could tell. *)
Init ==
  /\ fileLen \in FileLens /\ lengthKnown \in BOOLEAN
  /\ pos \in 0 .. fileLen /\ ahead \in 0 .. fileLen
  /\ ahead = 0 \/ pos = 0
  /\ answer = Answer("none", 0, "Ok", <<>>)

(* Where the next byte comes from. *)
Place == pos + ahead

MovesOn(n) == Has(Place, n) /\ pos' = pos + n /\ UNCHANGED ahead

(* All the bytes asked for, from there on, in order. *)
Reads(n) == MovesOn(n) /\ answer' = Answer("read", n, "Ok", Places(Place, n))

(* A long skip goes to a place of the file, and the position is right again. *)
Jumps(n) ==
  /\ n >= SeekThreshold /\ CanSkip(pos, n)
  /\ pos' = SatAdd(pos, n) /\ ahead' = 0

Skips(n) == (MovesOn(n) \/ Jumps(n)) /\ answer' = Answer("skip", n, "Ok", <<>>)

(* A call that fails has moved on by a part of what was asked and is there.  *)
StopsShort(n) ==
  /\ pos' \in pos .. (pos + n - 1) /\ UNCHANGED ahead
  /\ pos' = pos \/ pos' + ahead <= fileLen

(* The end of the file is reported only if these n bytes are not there. *)
EndsEarly(method, n) ==
  ~Has(Place, n) /\ StopsShort(n) /\ answer' = Answer(method, n, "Eof", <<>>)

BreaksOff(method, n) == StopsShort(n) /\ answer' = Answer(method, n, "Io", <<>>)

Seeks(p) == pos' = p /\ ahead' = 0 /\ answer' = Answer("seek", p, "Ok", <<>>)

SeekBreaksOff(p) == UNCHANGED <<pos, ahead>> /\ answer' = Answer("seek", p, "Io", <<>>)

Next ==
  /\ \/ \E n \in Requests :
          \/ Reads(n) \/ Skips(n)
          \/ \E method \in {"read", "skip"} : EndsEarly(method, n) \/ BreaksOff(method, n)
     \/ \E p \in 0 .. fileLen : Seeks(p) \/ SeekBreaksOff(p)
  /\ UNCHANGED source

Spec == Init /\ [][Next]_vars
=============================================================================
