----------------------------- MODULE G726Stream -----------------------------
(***************************************************************************)
(* Codewords of two to five bits out of bytes: the unpacker and push, finish   *)
(* and reset of the incremental decoder (src/g726/{unpack,decode}.rs), under   *)
(* its three users: the windowed walk of a WAVE file (src/pull/g726.rs), the   *)
(* headerless decode_g726 (src/g726/mod.rs) and a caller that pushes chunks of  *)
(* any length into buffers of any length.  What the core makes of a codeword    *)
(* is in G726Scale; here the output is the codewords.                         *)
(***************************************************************************)
EXTENDS Integers, Sequences

CONSTANTS
  Scratch,      \* SCRATCH: bytes of one window, 4096
  SliceSamples, \* samples decode_g726 converts at a time, 4096
  Payloads,     \* contents of the data: sequences of bytes
  Limits,       \* max_samples
  Caps          \* lengths of the buffers a caller pushes into

ASSUME G726Assumption ==
  /\ Scratch \in Nat \ {0} /\ SliceSamples \in Nat \ {0}
  /\ Payloads \subseteq Seq(0 .. 255) /\ Limits \subseteq Nat /\ Caps \subseteq Nat

None == -1  \* no sample count given

VARIABLES
  driver,         \* "windows", "slice" or "caller"
  bits, packing,  \* codeword width and bit order
  data, total,    \* the bytes and the frames to deliver; None for decode_g726's None
  max,            \* max_samples; for decode_g726 the smaller of its two limits, in samples
  pc,
  pos,            \* bytes handed to the unpacker
  pending, nbits, \* Unpacker
  codes,          \* codewords decoded since the start, finish or reset
  base,           \* where in the data that was
  first, last,    \* the input slice of the running push: data[first + 1 .. last]
  cap, made,      \* its output length and what it wrote
  produced,       \* samples delivered
  error           \* "", or why the driver stopped

input == <<driver, bits, packing, data, max>>
unpacker == <<pos, pending, nbits, codes>>
call == <<first, last, cap, made>>
vars == <<input, total, pc, unpacker, base, call, produced, error>>

Complete == (Len(data) * 8) \div bits

(* A plan's total is capped by the codewords there are (FrameBudget); decode_g726  *)
(* takes any count.                                                          *)
Init ==
  /\ driver \in {"windows", "slice", "caller"}
  /\ bits \in 2 .. 5 /\ packing \in {"Rfc3551", "Aal2"}
  /\ data \in Payloads /\ max \in Limits
  /\ \/ driver = "windows" /\ total \in 0 .. Complete
     \/ driver = "slice" /\ total \in 0 .. Complete + 1 \cup {None}
     \/ driver = "caller" /\ total = 0
  /\ pc = IF driver = "caller" THEN "idle" ELSE "begin"
  /\ pos = 0 /\ pending = 0 /\ nbits = 0 /\ codes = <<>> /\ base = 0
  /\ first = 0 /\ last = 0 /\ cap = 0 /\ made = 0 /\ produced = 0 /\ error = ""

-----------------------------------------------------------------------------
(* The operators named Bug... are seeded faults, used by no specification.    *)

Least(a, b) == IF a <= b THEN a ELSE b
CeilDiv(a, b) == (a + b - 1) \div b

Stop(why) ==
  /\ pc' = (IF why = "" THEN "done" ELSE "failed") /\ error' = why
  /\ UNCHANGED <<input, unpacker, base, call>>

(* decode_windows up to its loop. *)
BeginWindows ==
  /\ pc = "begin" /\ driver = "windows"
  /\ \/ total > max /\ Stop("TooLong")
     \/ total = 0 /\ Stop("")
     \/ /\ total \in 1 .. max /\ pc' = "loop"
        /\ UNCHANGED <<input, unpacker, base, call, error>>
  /\ UNCHANGED <<total, produced>>

(* decode_frames: a count given must be there, one not given needs whole codewords. *)
CountRefused ==
  \/ total = 0 \/ total > Complete
  \/ total = None /\ (Len(data) * 8) % bits # 0

BeginSlice ==
  /\ pc = "begin" /\ driver = "slice"
  /\ total' = IF total = None THEN Complete ELSE total
  /\ \/ data = <<>> /\ Stop("Empty")
     \/ data # <<>> /\ CountRefused /\ Stop("InvalidSize")
     \/ data # <<>> /\ ~CountRefused /\ total' > max /\ Stop("TooLong")
     \/ /\ data # <<>> /\ ~CountRefused /\ total' <= max /\ pc' = "loop"
        /\ UNCHANGED <<input, unpacker, base, call, error>>
  /\ UNCHANGED produced

-----------------------------------------------------------------------------
(* The loops around push                                                     *)

SamplesCap == (Scratch * 8 + 7) \div bits

BugBytesNeeded(samples) == Least(CeilDiv(samples * bits, 8), Scratch)
BytesNeeded(samples) ==
  LET missing == IF samples * bits > nbits THEN samples * bits - nbits ELSE 0
  IN Least(CeilDiv(missing, 8), Scratch)

Call(n, to) ==
  /\ cap' = n /\ made' = 0 /\ first' = pos /\ last' = to /\ pc' = "push"
  /\ UNCHANGED <<input, total, unpacker, base, produced, error>>

(* decode_windows: as many samples as fit pcm, as many bytes as they need. *)
Window == Least(total - produced, Least(total, SamplesCap))

ReadWindow ==
  /\ pc = "loop" /\ driver = "windows" /\ produced < total
  /\ IF pos + BytesNeeded(Window) <= Len(data)
       THEN Call(Window, pos + BytesNeeded(Window))
       ELSE Stop("Eof") /\ UNCHANGED <<total, produced>>

ReadFails ==
  /\ pc = "loop" /\ driver = "windows" /\ produced < total
  /\ Stop("Io") /\ UNCHANGED <<total, produced>>

(* decode_g726: all the rest of the data, as many samples as fit scratch. *)
NextSlice ==
  /\ pc = "loop" /\ driver = "slice" /\ produced < total
  /\ Call(Least(total - produced, SliceSamples), Len(data))

Finished ==
  /\ pc = "loop" /\ produced >= total
  /\ Stop("") /\ UNCHANGED <<total, produced>>

CallerPushes ==
  /\ pc = "idle"
  /\ \E n \in Caps, to \in pos .. Len(data) : Call(n, to)

-----------------------------------------------------------------------------
(* G726Decoder::push                                                         *)

(* Unpacker::try_take, msb_first or not. *)
Taken ==
  IF packing = "Aal2"
    THEN (pending \div (2 ^ (nbits - bits))) % (2 ^ bits)
    ELSE pending % (2 ^ bits)

Rest == IF packing = "Aal2" THEN pending % (2 ^ (nbits - bits)) ELSE pending \div (2 ^ bits)

TakeCode ==
  /\ pc = "push" /\ made < cap /\ nbits >= bits
  /\ codes' = Append(codes, Taken)
  /\ pending' = Rest /\ nbits' = nbits - bits
  /\ made' = made + 1
  /\ UNCHANGED <<input, total, pc, pos, base, first, last, cap, produced, error>>

(* Unpacker::push_byte *)
Pushed(byte) ==
  IF packing = "Aal2" THEN pending * 256 + byte ELSE pending + byte * (2 ^ nbits)

PushByte ==
  /\ pc = "push" /\ made < cap /\ nbits < bits /\ pos < last
  /\ pending' = Pushed(data[pos + 1]) /\ nbits' = nbits + 8 /\ pos' = pos + 1
  /\ UNCHANGED <<input, total, pc, codes, base, call, produced, error>>

BugPushEnds == pos = last
PushEnds == made >= cap \/ (nbits < bits /\ pos >= last)

Returns ==
  /\ pc = "push" /\ PushEnds
  /\ pc' = IF driver = "caller" THEN "idle" ELSE "returned"
  /\ UNCHANGED <<input, total, unpacker, base, call, produced, error>>

-----------------------------------------------------------------------------
Refused == made = 0 \/ (driver = "windows" /\ pos # last)

(* Both loops refuse an empty push, the windowed one also bytes left over; else   *)
(* the samples reach the output or the callback and the loop goes on.         *)
Visit ==
  /\ pc = "returned"
  /\ IF Refused
       THEN Stop("InvalidSize") /\ UNCHANGED produced
       ELSE /\ produced' = produced + made /\ pc' = "loop"
            /\ UNCHANGED <<input, unpacker, base, call, error>>
  /\ UNCHANGED total

CallbackFails ==
  /\ pc = "returned" /\ driver = "windows" /\ ~Refused
  /\ Stop("Callback") /\ UNCHANGED <<total, produced>>

-----------------------------------------------------------------------------
(* finish discards what is pending, reset the predictor as well: the next byte  *)
(* pushed starts a codeword.                                                 *)
BugCleared == nbits' = 0 /\ UNCHANGED pending
Cleared == pending' = 0 /\ nbits' = 0

FinishOrReset ==
  /\ pc = "idle" /\ Cleared
  /\ codes' = <<>> /\ base' = pos
  /\ UNCHANGED <<input, total, pc, pos, call, produced, error>>

Next ==
  \/ BeginWindows \/ BeginSlice \/ ReadWindow \/ ReadFails \/ NextSlice \/ Finished
  \/ CallerPushes \/ TakeCode \/ PushByte \/ Returns
  \/ Visit \/ CallbackFails \/ FinishOrReset

Spec == Init /\ [][Next]_vars

(* push and the loops around it run to their end once entered; nothing makes a  *)
(* caller push.                                                              *)
Running == BeginWindows \/ BeginSlice \/ ReadWindow \/ NextSlice \/ Finished
             \/ TakeCode \/ PushByte \/ Returns \/ Visit
FairSpec == Spec /\ WF_vars(Running)

-----------------------------------------------------------------------------
(* Properties                                                                *)

BitOf(x, v) == (x \div (2 ^ v)) % 2

(* Which bit of n comes i-th in the stream.                                   *)
Weight(n, i) == IF packing = "Aal2" THEN n - 1 - i ELSE i

(* Bit k of the data from `base` on. *)
Bit(k) == BitOf(data[base + k \div 8 + 1], Weight(8, k % 8))

(* x is the n bits of the stream that begin at bit k. *)
Holds(x, n, k) ==
  /\ x \in 0 .. 2 ^ n - 1
  /\ \A i \in 0 .. n - 1 : BitOf(x, Weight(n, i)) = Bit(k + i)

(* g726/unpack.rs: however the bytes are cut into pushes and the samples into    *)
(* buffers, the codewords are those of the bit stream, none lost, doubled or    *)
(* taken from bits of two packings.                                          *)
CodesAreTheStream == \A i \in 1 .. Len(codes) : Holds(codes[i], bits, (i - 1) * bits)

(* pull/g726.rs, "n == 0 || consumed != want": with the bytes asked for by        *)
(* bytes_needed, a stream that holds the codewords of the plan is never refused   *)
(* nor read past its end, in any split into windows, and the bytes read are those   *)
(* its codewords need; nor is a count refused that decode_frames let through.    *)
AdmittedIsDecoded ==
  /\ pc = "returned" => ~Refused
  /\ driver = "windows" =>
       /\ error # "Eof"
       /\ pc = "done" => pos = CeilDiv(total * bits, 8)

(* push returns, and so does every loop around it. *)
EveryPushReturns == (pc # "idle") ~> (pc \in {"idle", "done", "failed"})
=============================================================================
