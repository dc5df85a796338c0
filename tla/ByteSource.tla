----------------------------- MODULE ByteSource -----------------------------
(***************************************************************************)
(* ByteSource (src/source.rs): a memory window or a reader behind one       *)
(* interface, with the position counted beside the reader's own cursor.      *)
(*                                                                          *)
(* One step is one call of the inner reader: a read that delivers any part   *)
(* of what was asked, or a seek.  Each may fail; an inner seek that fails     *)
(* leaves the cursor where it was.  An interrupted call is repeated and      *)
(* changes nothing, so it is a stuttering step.                              *)
(***************************************************************************)
EXTENDS ChunkSource, Sequences

CONSTANTS
  Requests,    \* numbers of bytes a call asks for
  ScratchLen   \* bytes ignore_bytes discards at a time (8192)

ASSUME ByteSourceAssumption ==
  Requests \subseteq Nat /\ ScratchLen \in Nat \ {0}

VARIABLES
  backing,           \* "Memory" or "Reader"
  cur,               \* the reader's own cursor
  op,                \* "idle", or what the call under way does next
  want, left,        \* bytes it asked for (or the place to seek to), and to go
  from, got,         \* history: its first position, the places it delivered
  blind,             \* history: the constructor could not tell the cursor
  answer             \* the last call: method, bytes or place asked for, outcome

call == <<op, want, left, from, got>>
vars == <<source, pos, backing, cur, call, blind, answer>>

Answer(method, asked, outcome, bytes) ==
  [method |-> method, asked |-> asked, outcome |-> outcome, bytes |-> bytes]

(* from_slice, from_vec. *)
FromMemory ==
  backing = "Memory" /\ lengthKnown = TRUE /\ cur = 0 /\ pos = 0 /\ blind = FALSE

(* try_from_file, try_from_read_seek, when they succeed. *)
Strict ==
  backing = "Reader" /\ lengthKnown = TRUE /\ cur = 0 /\ pos = 0 /\ blind = FALSE

(* from_file, from_read_seek: the seeks to the end and back, and the query of *)
(* the cursor, may each fail.                                               *)
BestEffort ==
  /\ backing = "Reader"
  /\ \E start \in 0 .. fileLen, supplied, ended, rewound, told \in BOOLEAN :
       /\ lengthKnown = (supplied \/ ended)
       /\ cur = IF rewound THEN 0 ELSE IF ~supplied /\ ended THEN fileLen ELSE start
       /\ pos = (IF told THEN cur ELSE 0) /\ blind = ~told

Init ==
  /\ fileLen \in FileLens /\ (FromMemory \/ Strict \/ BestEffort)
  /\ op = "idle" /\ want = 0 /\ left = 0 /\ from = pos /\ got = <<>>
  /\ answer = Answer("none", 0, "Ok", <<>>)

-----------------------------------------------------------------------------
(* The operators named Bug... are seeded faults, used by no specification.    *)

(* The method under way: ignore_bytes advances, or discards, or both. *)
Method == IF op \in {"read", "seek"} THEN op ELSE "skip"

Return(outcome, bytes) == op' = "idle" /\ answer' = Answer(Method, want, outcome, bytes)

Start(o, n) ==
  /\ op = "idle" /\ op' = o
  /\ want' = n /\ left' = n /\ from' = pos /\ got' = <<>>
  /\ UNCHANGED <<source, pos, backing, cur, blind, answer>>

(* A call that returns at once and asks the reader for nothing. *)
AtOnce(method, n, outcome, bytes) ==
  /\ op = "idle" /\ op' = "idle" /\ answer' = Answer(method, n, outcome, bytes)
  /\ want' = n /\ left' = n /\ from' = pos /\ got' = bytes
  /\ UNCHANGED <<source, backing, cur, blind>>

Places(p, n) == [i \in 1 .. n |-> p + i - 1]

ReadExact ==
  \E n \in Requests :
    IF n = 0 THEN AtOnce("read", 0, "Ok", <<>>) /\ UNCHANGED pos ELSE Start("read", n)

(* read_window: memory is borrowed, all of it or nothing. *)
ReadWindow ==
  \E n \in Requests :
    IF backing = "Reader" /\ n > 0 THEN Start("read", n)
    ELSE IF Has(pos, n) THEN AtOnce("read", n, "Ok", Places(pos, n)) /\ pos' = pos + n
    ELSE AtOnce("read", n, "Eof", <<>>) /\ UNCHANGED pos

(* A long skip that cannot succeed is refused, if the length is known. *)
BeyondEnd(n) == lengthKnown /\ SatAdd(pos, n) > fileLen

IgnoreBytes ==
  \E n \in Requests :
    IF n = 0 THEN AtOnce("skip", 0, "Ok", <<>>) /\ UNCHANGED pos
    ELSE IF n < SeekThreshold THEN Start("discard", n)
    ELSE IF BeyondEnd(n) THEN AtOnce("skip", n, "Eof", <<>>) /\ UNCHANGED pos
    ELSE Start("advance", n)

(* The crate seeks to the start and back to a payload it has found.           *)
SeekTo == \E p \in 0 .. fileLen : Start("seek", p)

-----------------------------------------------------------------------------
Asked == IF op = "discard" THEN Least(left, ScratchLen) ELSE left

(* Where the next byte comes from, and how many one read may deliver. *)
Here == IF backing = "Memory" THEN pos ELSE cur

Deliverable ==
  IF Here >= fileLen THEN {0}
  ELSE LET most == Least(Asked, fileLen - Here)
       IN IF backing = "Memory" THEN {most} ELSE 1 .. most

(* What the position counts is what was delivered. *)
CountRead(m) ==
  /\ pos' = pos + m
  /\ cur' = IF backing = "Memory" THEN cur ELSE cur + m

EndOfFile(m) == m = 0

InnerRead ==
  /\ op \in {"read", "discard"}
  /\ \E m \in Deliverable :
       /\ CountRead(m)
       /\ left' = left - m /\ got' = got \o Places(Here, m)
       /\ IF EndOfFile(m) THEN Return("Eof", <<>>)
          ELSE IF left' > 0 THEN UNCHANGED <<op, answer>>
          ELSE Return("Ok", IF op = "read" THEN got' ELSE <<>>)
  /\ UNCHANGED <<source, backing, want, from, blind>>

InnerReadFails ==
  /\ op \in {"read", "discard"} /\ backing = "Reader"
  /\ Return("Io", <<>>)
  /\ UNCHANGED <<source, pos, backing, cur, want, left, from, got, blind>>

Target == IF op = "advance" THEN SatAdd(pos, want) ELSE want

BugInnerSeek ==
  /\ op \in {"advance", "seek"}
  /\ pos' = Target
  /\ cur' = IF backing = "Memory" THEN cur ELSE Target
  /\ blind' = FALSE
  /\ IF op = "advance" THEN op' = "discard" /\ UNCHANGED answer ELSE Return("Ok", <<>>)
  /\ UNCHANGED <<source, backing, want, left, from, got>>

InnerSeek ==
  /\ op \in {"advance", "seek"}
  /\ pos' = Target
  /\ cur' = IF backing = "Memory" THEN cur ELSE Target
  /\ blind' = FALSE
  /\ Return("Ok", <<>>)
  /\ UNCHANGED <<source, backing, want, left, from, got>>

(* A skip whose seek failed starts over by reading. *)
AdvanceFails ==
  /\ op = "advance" /\ backing = "Reader"
  /\ op' = "discard"
  /\ UNCHANGED <<source, pos, backing, cur, want, left, from, got, blind, answer>>

(* A reader refused, or the place was before the start of the file.          *)
SeekFails ==
  /\ op = "seek"
  /\ Return("Io", <<>>)
  /\ UNCHANGED <<source, pos, backing, cur, want, left, from, got, blind>>

Run == InnerRead \/ InnerReadFails \/ InnerSeek \/ AdvanceFails \/ SeekFails

Next == ReadExact \/ ReadWindow \/ IgnoreBytes \/ SeekTo \/ Run

Spec == Init /\ [][Next]_vars

-----------------------------------------------------------------------------
(* TypeOK: the fields and locals keep their types. *)
TypeOK ==
  /\ SourceTypeOK /\ backing \in {"Memory", "Reader"} /\ blind \in BOOLEAN
  /\ cur \in 0 .. WordMax /\ from \in 0 .. WordMax
  /\ want \in Nat /\ left \in 0 .. want
  /\ op \in {"idle", "read", "discard", "advance", "seek"}
  /\ answer.outcome \in {"Ok", "Eof", "Io"}

(* PosIsCursor: the position the source reports is where the reader stands,  *)
(* after any mix of short reads, failures and fallbacks, unless the          *)
(* best-effort constructor could not learn it.                              *)
PosIsCursor == backing = "Reader" /\ ~blind => pos = cur

(* What a call under way has done: a read is that far along, a seek has not   *)
(* moved, and a skip that seeks stays inside a file whose end is known.      *)
CallInv ==
  /\ op \in {"read", "discard", "advance"} => want \in Requests
  /\ op \in {"read", "discard"} => left > 0 /\ pos = from + (want - left)
  /\ op = "advance" => /\ pos = from /\ left = want /\ got = <<>>
                       /\ want >= SeekThreshold /\ ~BeyondEnd(want)
  /\ op = "seek" => pos = from /\ left = want /\ want \in 0 .. fileLen

(* How far the reader stands beyond the position. *)
Ahead == IF backing = "Memory" THEN 0 ELSE cur - pos

(* What a read under way has delivered.                                      *)
GotInv ==
  op \in {"read", "discard"} =>
    /\ got = Places(from + Ahead, want - left)
    /\ left < want => pos + Ahead <= fileLen

(* A count that misses where the reader was handed over is only behind.       *)
NotAhead == backing = "Reader" => pos <= cur

(* SourceInv: the inductive invariant of ByteSourceProofs: in the middle of a *)
(* call position, count to go and bytes delivered agree.                    *)
SourceInv == TypeOK /\ CallInv /\ GotInv /\ NotAhead /\ PosIsCursor

(* ImplementsContract: a source of either kind, from every constructor, is    *)
(* what the walks take it for: a call moves the position by what it asked or  *)
(* fails, a read delivers exactly the bytes from where the reader stands, the *)
(* end of the file is reported only when the bytes of this call are not      *)
(* there.  A position that starts as a logical zero stays behind the reader   *)
(* by the same distance until a seek or a long skip goes to a place.         *)
Contract ==
  INSTANCE SourceContract
    WITH pos <- IF op = "idle" THEN pos ELSE from, ahead <- Ahead

ImplementsContract == Contract!Spec
=============================================================================
