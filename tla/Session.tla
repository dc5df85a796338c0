------------------------------ MODULE Session ------------------------------
(***************************************************************************)
(* A caller and one ByteSource (src/wav.rs): sniff_is_riff_wave, probe_with    *)
(* and the decoders, in any order, each starting where the one before left the  *)
(* cursor.  The peek of sixteen bytes that opens parse_header is here step by     *)
(* step; what follows it is modelled in RiffWalk, W64Walk, FrameBudget and the   *)
(* loops behind them, and is one step here.                                   *)
(***************************************************************************)
EXTENDS Integers

CONSTANT Files  \* values of File

Kinds == {"Riff", "W64", "Other"}

(* kind: the marker the file begins with; wave: the form behind it is WAVE.       *)
(* w64At: where a payload holds a Wave64 file of its own.                      *)
(* sound: the header of the file is accepted, and ends at head.                *)
File == [len : Nat, kind : Kinds, wave : BOOLEAN, w64At : SUBSET (Nat \ {0}),
         head : Nat, sound : BOOLEAN]

ASSUME SessionAssumption ==
  /\ Files \subseteq File
  /\ \A f \in Files : f.sound => f.head \in 40 .. f.len

VARIABLES
  file, reader,   \* the bytes; behind a reader, or in memory
  pos,            \* cursor of the source
  op, step,       \* the call under way, and where it is
  start, filled,  \* where its peek began, and how far it came
  at,             \* history: where it took the header from
  result,         \* what it will return, unless the rewind fails
  last,           \* history: the last call and what it returned
  stuck,          \* history: its rewind failed
  verdict         \* history: what a sniff from the start said, until another call ends

source == <<file, reader>>
sessionVars == <<source, pos, op, step, start, filled, at, result, last, stuck, verdict>>

None == -1
Nothing == [op |-> "none", outcome |-> "Ok"]

SessionInit ==
  /\ file \in Files /\ reader \in BOOLEAN
  /\ pos = 0 /\ op = "idle" /\ step = "none" /\ start = 0 /\ filled = 0 /\ at = None
  /\ result = "Ok" /\ last = Nothing /\ stuck = FALSE /\ verdict = "none"

-----------------------------------------------------------------------------
(* The operators named Bug... are seeded faults, used by no specification.    *)

Least(a, b) == IF a <= b THEN a ELSE b

Calls == {"sniff", "probe", "decode"}

Call ==
  /\ op = "idle" /\ op' \in Calls
  /\ step' = "peek" /\ start' = pos /\ filled' = 0 /\ at' = None
  /\ UNCHANGED <<source, pos, result, last, stuck, verdict>>

(* The prefix of sniff_wave_prefix, head16 of parse_header. *)
Prefix == IF op = "sniff" THEN 40 ELSE 16

(* One inner read, of any part of what is asked for; nothing only at the end. *)
Delivered ==
  LET most == Least(Prefix - filled, file.len - pos)
  IN IF pos >= file.len THEN {0} ELSE IF reader THEN 1 .. most ELSE {most}

BugPeekEnds(m) == m < Prefix - filled
PeekEnds(m) == m = 0 \/ filled + m = Prefix

Peek ==
  /\ step = "peek"
  /\ \E m \in Delivered :
       /\ pos' = pos + m /\ filled' = filled + m
       /\ step' = IF PeekEnds(m) THEN "judge" ELSE "peek"
  /\ UNCHANGED <<source, op, start, at, result, last, stuck, verdict>>

(* A sniff and a probe go on to their rewind, a decoder returns. *)
After == IF op = "decode" THEN "return" ELSE "rewind"
Ends(outcome) == result' = outcome /\ step' = After

PeekFails ==
  /\ step = "peek" /\ reader /\ Ends("Io")
  /\ UNCHANGED <<source, pos, op, start, filled, at, last, stuck, verdict>>

-----------------------------------------------------------------------------
(* What the bytes from p on begin. *)
Begins(p) == IF p = 0 THEN file.kind ELSE IF p \in file.w64At THEN "W64" ELSE "Other"

(* The form behind the marker there. *)
FormIsWave(p) == p = 0 => file.wave

IsWave ==
  /\ FormIsWave(start)
  /\ \/ Begins(start) = "Riff" /\ filled >= 12
     \/ Begins(start) = "W64" /\ filled >= 40

JudgeSniff ==
  /\ op = "sniff" /\ step = "judge"
  /\ Ends(IF IsWave THEN "true" ELSE "false")
  /\ UNCHANGED <<source, pos, op, start, filled, at, last, stuck, verdict>>

(* parse_header goes on behind a Wave64 marker, wherever that was, and starts    *)
(* over from the beginning of the file for everything else.                   *)
GoesOnAsW64 == filled = 16 /\ Begins(start) = "W64"

GoOn ==
  /\ op # "sniff" /\ step = "judge" /\ GoesOnAsW64
  /\ at' = start /\ step' = "header"
  /\ UNCHANGED <<source, pos, op, start, filled, result, last, stuck, verdict>>

BugStartOver ==
  /\ op # "sniff" /\ step = "judge" /\ ~GoesOnAsW64
  /\ at' = start /\ pos' = start /\ step' = "header"
  /\ UNCHANGED <<source, op, start, filled, result, last, stuck, verdict>>
StartOver ==
  /\ op # "sniff" /\ step = "judge" /\ ~GoesOnAsW64
  /\ at' = 0 /\ pos' = 0 /\ step' = "header"
  /\ UNCHANGED <<source, op, start, filled, result, last, stuck, verdict>>

StartOverFails ==
  /\ op # "sniff" /\ step = "judge" /\ ~GoesOnAsW64 /\ reader
  /\ Ends("Io")
  /\ UNCHANGED <<source, pos, op, start, filled, at, last, stuck, verdict>>

(* The marker and the form behind it; a file that stops before is Truncated. *)
UpTo(n) ==
  IF file.len < n THEN "Truncated" ELSE IF FormIsWave(at) THEN "Ok" ELSE "NotWave"

Form ==
  CASE GoesOnAsW64 -> UpTo(at + 40)
    [] ~GoesOnAsW64 /\ file.len >= 4 /\ Begins(at) # "Riff" -> "NotWave"
    [] OTHER -> UpTo(12)

(* The rest of the header, the codec gate, the budgets: one answer for the file  *)
(* as it is, any for bytes in the middle of it.                               *)
Header ==
  /\ step = "header"
  /\ \/ /\ Form # "Ok" /\ Ends(Form) /\ pos' \in pos .. file.len
     \/ /\ Form = "Ok" /\ (at = 0 => ~file.sound)
        /\ Ends("Format") /\ pos' \in pos .. file.len
     \/ /\ Form = "Ok" /\ (at = 0 => file.sound)
        /\ pos' \in IF at = 0 THEN {file.head} ELSE pos .. file.len
        /\ IF op = "probe" THEN Ends("Ok") ELSE step' = "payload" /\ UNCHANGED result
  /\ UNCHANGED <<source, op, start, filled, at, last, stuck, verdict>>

HeaderFails ==
  /\ step = "header" /\ reader /\ Ends("Io")
  /\ pos' \in pos .. file.len
  /\ UNCHANGED <<source, op, start, filled, at, last, stuck, verdict>>

(* decode_collect, pull_decode, the read of decode_s16: how far they move is in   *)
(* PullWindows.                                                              *)
Payload ==
  /\ step = "payload"
  /\ \E outcome \in IF reader THEN {"Ok", "Io", "Format"} ELSE {"Ok", "Format"} : Ends(outcome)
  /\ pos' \in pos .. file.len
  /\ UNCHANGED <<source, op, start, filled, at, last, stuck, verdict>>

-----------------------------------------------------------------------------
Return(outcome) ==
  /\ op' = "idle" /\ step' = "none"
  /\ last' = [op |-> op, outcome |-> outcome]
  /\ verdict' = IF op = "sniff" /\ start = 0 THEN outcome ELSE "none"
  /\ start' = 0 /\ filled' = 0 /\ at' = None /\ result' = "Ok"
  /\ UNCHANGED source

(* decode_with, decode_streaming and decode_s16 leave the cursor where it is. *)
ReturnDecoded ==
  /\ step = "return" /\ Return(result)
  /\ stuck' = FALSE /\ UNCHANGED pos

(* Attempted after an error as well, which then is what is returned. *)
BugRewind ==
  /\ step = "rewind" /\ Return(result) /\ stuck' = FALSE
  /\ pos' = IF result \in {"Ok", "true", "false"} THEN 0 ELSE pos
Rewind ==
  /\ step = "rewind" /\ Return(result) /\ stuck' = FALSE
  /\ pos' = 0

RewindFails ==
  /\ step = "rewind" /\ reader
  /\ Return(IF result \in {"Ok", "true", "false"} THEN "Io" ELSE result)
  /\ stuck' = TRUE /\ UNCHANGED pos

SessionNext ==
  \/ Call \/ Peek \/ PeekFails \/ JudgeSniff
  \/ GoOn \/ StartOver \/ StartOverFails \/ Header \/ HeaderFails \/ Payload
  \/ ReturnDecoded \/ Rewind \/ RewindFails

SessionSpec == SessionInit /\ [][SessionNext]_sessionVars

-----------------------------------------------------------------------------
(* Properties                                                                *)

(* sniff_is_riff_wave and probe_with, "Rewind to position 0 is attempted           *)
(* afterwards, including on I/O error": behind either the next call begins at the  *)
(* start of the file, also after short reads, a header cut off or an error in the   *)
(* middle of it; only a refused rewind leaves the cursor elsewhere, and then the   *)
(* call has not said Ok.                                                     *)
NextCallBeginsAtZero ==
  /\ op = "idle" /\ last.op \in {"sniff", "probe"} => pos = 0 \/ stuck
  /\ stuck => last.outcome \notin {"Ok", "true", "false"}

(* Same markers in the sniff of forty bytes as in the peek of sixteen: a file that  *)
(* was sniffed as a WAVE is NotWave to no probe or decoder that follows, nor         *)
(* Truncated before its form; one sniffed as none is accepted by neither, however  *)
(* the reads of both were split.                                             *)
SniffForetells ==
  step \in {"return", "rewind"} /\ op # "sniff" /\ at # None =>
    /\ verdict = "true" => result # "NotWave" /\ Form = "Ok"
    /\ verdict = "false" => result \notin {"Ok", "Format"} /\ Form # "Ok"

(* decode_streaming, "Rewind explicitly before retrying": where a retry without a  *)
(* rewind goes.  A RIFF file is found from every cursor, unless a Wave64 file     *)
(* starts there; a Wave64 file is found from its start and from nowhere else.   *)
HeaderIsOfTheFile ==
  step \in {"header", "payload"} =>
    /\ at = 0 \/ start \in file.w64At
    /\ Form = "Ok" /\ at = 0 => file.kind = "Riff" \/ start = 0
=============================================================================
