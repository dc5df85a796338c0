----------------------------- MODULE WavWriter ------------------------------
(***************************************************************************)
(* The incremental WAVE writer of src/encode/writer.rs over a sink each of  *)
(* whose I/O calls may fail.  One step is one I/O call of the code with the *)
(* bookkeeping up to the next one: pc names the call that comes next, and   *)
(* "idle" means that no method is running.  A failing write_all may have    *)
(* written any proper prefix.                                               *)
(*                                                                          *)
(* The bytes the caller hands over are numbered in the order in which they   *)
(* are accepted, so that a cell of the sink says which input byte it holds.  *)
(***************************************************************************)
EXTENDS ByteSink

CONSTANTS
  Specs,        \* the write specifications a caller may ask for
  CopyScratch,  \* bytes of the relocation scratch (65536)
  ConvScratch,  \* bytes of the conversion scratch (8192)
  MaxCall,      \* bytes, or float samples, of one write call at most
  MaxStale      \* bytes a generic sink may hold beforehand

ASSUME WriterAssumption ==
  /\ Specs \subseteq WriteSpecs
  /\ \A s \in Specs : s.frame % s.width = 0 /\ s.frame <= ConvScratch
  /\ CopyScratch \in Nat \ {0} /\ ConvScratch \in Nat \ {0}
  /\ MaxCall \in Nat /\ MaxStale \in Nat

VARIABLES
  sink, cursor,    \* the byte store and its position
  readable,        \* whether the sink was opened for reading too
  spec, asked,     \* the caller's specification and requested layout
  layout, state, dataBytes,              \* the fields of WavWriter
  pc, op,                                \* next I/O call, and the method in it
  next, sent, rest, remaining, scratch,  \* its local variables
  result,          \* what the last method returned
  faulted, stale   \* history: an I/O call failed; size of the sink at the start

wfields == <<layout, state, dataBytes>>
locals == <<next, sent, rest, remaining, scratch>>
given == <<readable, spec, asked, stale>>
vars == <<sink, cursor, given, wfields, pc, op, locals, result, faulted>>

States == {"Absent", "Open", "Finalized", "Failed"}
Methods == {"none", "new", "pcm", "f32", "finalize", "drop"}
PromoteSteps == {"readSeek", "read", "writeSeek", "write",
                 "headSeek", "headWrite", "tailSeek"}
FinalizeSteps == {"pad", "finSeek", "finHeader", "finEnd", "flush"}
Steps == {"startPos", "startHeader", "part", "payload"}
           \cup PromoteSteps \cup FinalizeSteps
Refusals == {"BadSpec", "InvalidOperation", "OddPcm", "RiffTooLarge", "Unsupported"}
Results == {"None", "Ok", "Io"} \cup Refusals

Init ==
  /\ spec \in Specs /\ asked \in UserLayouts
  /\ stale \in 0 .. MaxStale
  /\ sink = Repeat(Stale, stale)
  /\ cursor \in 0 .. stale
  /\ readable = TRUE
  /\ layout = asked /\ state = "Absent" /\ dataBytes = 0
  /\ pc = "idle" /\ op = "none"
  /\ next = 0 /\ sent = 0 /\ rest = 0 /\ remaining = 0 /\ scratch = NoBytes
  /\ result = "None" /\ faulted = FALSE

-----------------------------------------------------------------------------
(* The operators named Bug... are faults seeded for testing the properties:  *)
(* nothing uses them but the sensitivity runs that put them in the place of   *)
(* the definition they precede.                                             *)

(* A method returns r; its locals are gone.  A drop leaves no writer.        *)
Return(r) ==
  /\ pc' = IF op = "drop" THEN "gone" ELSE "idle"
  /\ op' = "none" /\ result' = r
  /\ next' = 0 /\ sent' = 0 /\ rest' = 0 /\ remaining' = 0 /\ scratch' = NoBytes

(* The `?' of an I/O call: the method returns the error at once, leaving the *)
(* state it set before the first mutation.                                  *)
IoError == Return("Io") /\ faulted' = TRUE /\ UNCHANGED <<wfields, given>>

Put(b) == sink' = Splice(sink, cursor, b) /\ cursor' = cursor + b.len

PutFails(b) == (\E k \in 0 .. (b.len - 1) : Put(Take(b, k))) /\ IoError

Seek(p) == cursor' = p /\ UNCHANGED sink

SeekFails == IoError /\ UNCHANGED <<sink, cursor>>

Goto(step) == pc' = step /\ UNCHANGED <<op, result, faulted>>

HeaderBytes(l, d) == Repeat(Hdr(l, d), HeaderLength(l, spec))

-----------------------------------------------------------------------------
(* Construction: create* opens a file, new* takes a generic sink; both check *)
(* the header first and then run start.                                     *)
Starts == pc = "idle" /\ state = "Absent"

RefuseSpec ==
  /\ Starts /\ ~HeaderFits(asked, spec, 0)
  /\ result' = "BadSpec"
  /\ UNCHANGED <<sink, cursor, given, wfields, pc, op, locals, faulted>>

BugOpenedForReading(l) == l = "Riff"

OpenedForReading(l) == l \in {"Riff", "Extensible"}

CreateFile ==
  /\ Starts /\ HeaderFits(asked, spec, 0)
  /\ pc' = "startPos" /\ op' = "new"
  /\ sink' = NoBytes /\ cursor' = 0 /\ stale' = 0
  /\ readable' = OpenedForReading(asked)
  /\ UNCHANGED <<spec, asked, wfields, locals, result, faulted>>

OpenFails ==
  /\ Starts /\ HeaderFits(asked, spec, 0)
  /\ result' = "Io" /\ faulted' = TRUE
  /\ UNCHANGED <<sink, cursor, given, wfields, pc, op, locals>>

NewOnSink ==
  /\ Starts /\ HeaderFits(asked, spec, 0)
  /\ pc' = "startPos" /\ op' = "new"
  /\ UNCHANGED <<sink, cursor, given, wfields, locals, result, faulted>>

StartPosition ==
  /\ pc = "startPos"
  /\ \/ /\ cursor = 0
        /\ Goto("startHeader")
        /\ UNCHANGED <<sink, cursor, given, wfields, locals>>
     \/ /\ cursor # 0
        /\ Return("InvalidOperation")
        /\ UNCHANGED <<sink, cursor, given, wfields, faulted>>
     \/ SeekFails

StartHeader ==
  /\ pc = "startHeader"
  /\ LET header == HeaderBytes(asked, 0)
     IN \/ /\ Put(header)
           /\ state' = "Open" /\ layout' = asked /\ dataBytes' = 0
           /\ Return("Ok") /\ UNCHANGED <<given, faulted>>
        \/ PutFails(header)

-----------------------------------------------------------------------------
(* What write_pcm and write_f32_samples check before any I/O.                *)
Target(d) == IF Overflows(layout, spec, d) THEN Promoted(layout) ELSE layout

SizeVerdict(d) ==
  IF d > WordMax \/ ~FileLenFits(Target(d), spec, d)
     \/ (layout = "Rifx" /\ Overflows(layout, spec, d))
  THEN "RiffTooLarge" ELSE "Ok"

PcmVerdict(n) ==
  IF state # "Open" THEN "InvalidOperation"
  ELSE IF n % spec.frame # 0 THEN "OddPcm"
  ELSE SizeVerdict(dataBytes + n)

BugF32Verdict(n) ==
  IF state # "Open" THEN "InvalidOperation"
  ELSE IF ~spec.float THEN "Unsupported"
  ELSE IF n % (spec.frame \div spec.width) # 0 THEN "OddPcm"
  ELSE SizeVerdict(dataBytes + n)

F32Verdict(n) ==
  IF state # "Open" THEN "InvalidOperation"
  ELSE IF ~spec.float THEN "Unsupported"
  ELSE IF n % (spec.frame \div spec.width) # 0 THEN "OddPcm"
  ELSE SizeVerdict(dataBytes + n * spec.width)

BugRefuse(verdict) ==
  /\ Return(verdict)
  /\ state' = (IF verdict = "RiffTooLarge" THEN "Failed" ELSE state)
  /\ UNCHANGED <<sink, cursor, given, layout, dataBytes, faulted>>

Refuse(verdict) ==
  Return(verdict) /\ UNCHANGED <<sink, cursor, given, wfields, faulted>>

(* write_pcm(n bytes) from its entry to its first I/O; left is what remains  *)
(* of the write_f32_samples call it was made from.                          *)
WritePcm(method, n, left) ==
  LET grown == dataBytes + n
      promote == Overflows(layout, spec, grown)
  IN IF PcmVerdict(n) # "Ok" THEN Refuse(PcmVerdict(n))
     ELSE IF promote /\ ~HeaderFits(Promoted(layout), spec, dataBytes)
     THEN /\ state' = "Failed"
          /\ Return("RiffTooLarge")
          /\ UNCHANGED <<sink, cursor, given, layout, dataBytes, faulted>>
     ELSE /\ state' = "Failed"
          /\ op' = method /\ next' = grown /\ sent' = 0 /\ rest' = left
          /\ remaining' = (IF promote THEN dataBytes ELSE 0)
          /\ pc' = (IF ~promote THEN "payload"
                    ELSE IF dataBytes > 0 THEN "readSeek" ELSE "headSeek")
          /\ UNCHANGED <<sink, cursor, given, layout, dataBytes, scratch,
                         result, faulted>>

Called == pc = "idle" /\ state # "Absent"

WritePcmCall == Called /\ \E n \in 0 .. MaxCall : WritePcm("pcm", n, 0)

WriteF32Call ==
  /\ Called
  /\ \E n \in 0 .. MaxCall :
       IF F32Verdict(n) # "Ok" THEN Refuse(F32Verdict(n))
       ELSE /\ op' = "f32" /\ rest' = n * spec.width /\ pc' = "part"
            /\ UNCHANGED <<sink, cursor, given, wfields, next, sent, remaining,
                           scratch, result, faulted>>

BugChunkBytes == (ConvScratch \div (spec.frame * spec.width)) * spec.frame

(* Whole frames that fit the conversion scratch. *)
ChunkBytes == (ConvScratch \div spec.frame) * spec.frame

Least(a, b) == IF a <= b THEN a ELSE b

F32Part ==
  /\ pc = "part"
  /\ IF rest = 0 THEN Refuse("Ok")
     ELSE LET n == Least(rest, ChunkBytes) IN WritePcm("f32", n, rest - n)

-----------------------------------------------------------------------------
(* promote_to_rf64: move the payload up, last chunk first, through scratch;  *)
(* then write the longer header in front of it.                             *)
CopyLen == Least(remaining, CopyScratch)

BugCopyFrom == HeaderLength(layout, spec) + dataBytes - remaining

CopyFrom == HeaderLength(layout, spec) + remaining - CopyLen

CopyTo == CopyFrom + HeaderLength(Promoted(layout), spec) - HeaderLength(layout, spec)

PromoteReadSeek ==
  /\ pc = "readSeek"
  /\ \/ /\ Seek(CopyFrom) /\ Goto("read")
        /\ UNCHANGED <<given, wfields, locals>>
     \/ SeekFails

PromoteRead ==
  /\ pc = "read"
  /\ \/ /\ readable /\ cursor + CopyLen <= sink.len
        /\ scratch' = Slice(sink, cursor, CopyLen)
        /\ cursor' = cursor + CopyLen
        /\ Goto("writeSeek")
        /\ UNCHANGED <<sink, given, wfields, next, sent, rest, remaining>>
     \/ /\ \E k \in 0 .. CopyLen : cursor' = cursor + k
        /\ IoError /\ UNCHANGED sink

PromoteWriteSeek ==
  /\ pc = "writeSeek"
  /\ \/ /\ Seek(CopyTo) /\ Goto("write")
        /\ UNCHANGED <<given, wfields, locals>>
     \/ SeekFails

PromoteWrite ==
  /\ pc = "write"
  /\ \/ /\ Put(scratch)
        /\ remaining' = remaining - CopyLen /\ scratch' = NoBytes
        /\ Goto(IF remaining > CopyLen THEN "readSeek" ELSE "headSeek")
        /\ UNCHANGED <<given, wfields, next, sent, rest>>
     \/ PutFails(scratch)

PromoteHeadSeek ==
  /\ pc = "headSeek"
  /\ \/ /\ Seek(0) /\ Goto("headWrite")
        /\ UNCHANGED <<given, wfields, locals>>
     \/ SeekFails

PromoteHeadWrite ==
  /\ pc = "headWrite"
  /\ LET header == HeaderBytes(Promoted(layout), dataBytes)
     IN \/ /\ Put(header) /\ Goto("tailSeek")
           /\ UNCHANGED <<given, wfields, locals>>
        \/ PutFails(header)

PromoteTailSeek ==
  /\ pc = "tailSeek"
  /\ \/ /\ Seek(HeaderLength(Promoted(layout), spec) + dataBytes)
        /\ layout' = Promoted(layout)
        /\ Goto("payload")
        /\ UNCHANGED <<given, state, dataBytes, locals>>
     \/ SeekFails

-----------------------------------------------------------------------------
(* Position, in a run of n bytes, of the byte that sample.reverse() over its *)
(* whole samples puts at j; a tail shorter than a sample is left as it is.   *)
Reversed(n, j) ==
  LET w == spec.width
  IN IF j < (n \div w) * w THEN (j \div w) * w + (w - 1 - (j % w)) ELSE j

(* The bytes of the next write_all: on RIFX one conversion chunk of swapped  *)
(* samples, elsewhere the whole slice.                                      *)
PayloadBytes ==
  LET left == next - dataBytes - sent
      n == IF layout = "Rifx" THEN Least(left, ChunkBytes) ELSE left
  IN [len |-> n,
      at |-> [j \in 0 .. (n - 1) |->
                Pay(dataBytes + sent
                      + (IF layout = "Rifx" THEN Reversed(n, j) ELSE j))]]

WritePayload ==
  /\ pc = "payload"
  /\ LET bytes == PayloadBytes
         done == dataBytes + sent + bytes.len = next
     IN \/ /\ Put(bytes) /\ ~done
           /\ sent' = sent + bytes.len
           /\ UNCHANGED <<given, wfields, pc, op, next, rest, remaining, scratch,
                          result, faulted>>
        \/ /\ Put(bytes) /\ done
           /\ dataBytes' = next /\ state' = "Open"
           /\ IF op = "f32"
              THEN /\ pc' = "part" /\ next' = 0 /\ sent' = 0
                   /\ UNCHANGED <<op, rest, remaining, scratch, result>>
              ELSE Return("Ok")
           /\ UNCHANGED <<given, layout, faulted>>
        \/ PutFails(bytes)

-----------------------------------------------------------------------------
BugBeginFinalize(method) ==
  /\ op' = method
  /\ pc' = (IF Pad(dataBytes) # 0 THEN "pad" ELSE "finSeek")
  /\ UNCHANGED <<sink, cursor, given, wfields, locals, result, faulted>>

(* finalize, called by the user or by drop. *)
BeginFinalize(method) ==
  /\ state' = "Failed" /\ op' = method
  /\ pc' = (IF Pad(dataBytes) # 0 THEN "pad" ELSE "finSeek")
  /\ UNCHANGED <<sink, cursor, given, layout, dataBytes, locals, result, faulted>>

FinalizeVerdict ==
  IF state = "Finalized" THEN "Ok"
  ELSE IF state # "Open" THEN "InvalidOperation"
  ELSE IF ~HeaderFits(layout, spec, dataBytes) THEN "RiffTooLarge"
  ELSE "Begin"

Finalize ==
  /\ Called
  /\ IF FinalizeVerdict = "Begin" THEN BeginFinalize("finalize")
     ELSE Refuse(FinalizeVerdict)

(* Drop finalizes an open writer and ignores the outcome. *)
Drop ==
  /\ Called
  /\ IF state = "Open" /\ FinalizeVerdict = "Begin" THEN BeginFinalize("drop")
     ELSE /\ pc' = "gone"
          /\ UNCHANGED <<sink, cursor, given, wfields, op, locals, result, faulted>>

FinalizePad ==
  /\ pc = "pad"
  /\ LET padding == Repeat(Zero, 1)
     IN \/ /\ Put(padding) /\ Goto("finSeek")
           /\ UNCHANGED <<given, wfields, locals>>
        \/ PutFails(padding)

FinalizeSeek ==
  /\ pc = "finSeek"
  /\ \/ /\ Seek(0) /\ Goto("finHeader")
        /\ UNCHANGED <<given, wfields, locals>>
     \/ SeekFails

FinalizeHeader ==
  /\ pc = "finHeader"
  /\ LET header == HeaderBytes(layout, dataBytes)
     IN \/ /\ Put(header) /\ Goto("finEnd")
           /\ UNCHANGED <<given, wfields, locals>>
        \/ PutFails(header)

FinalizeEnd ==
  /\ pc = "finEnd"
  /\ \/ /\ Seek(FileLen(layout, spec, dataBytes)) /\ Goto("flush")
        /\ UNCHANGED <<given, wfields, locals>>
     \/ SeekFails

FinalizeFlush ==
  /\ pc = "flush"
  /\ \/ /\ state' = "Finalized"
        /\ Return("Ok")
        /\ UNCHANGED <<sink, cursor, given, layout, dataBytes, faulted>>
     \/ SeekFails

-----------------------------------------------------------------------------
Construct == RefuseSpec \/ CreateFile \/ OpenFails \/ NewOnSink

Call == WritePcmCall \/ WriteF32Call \/ Finalize \/ Drop

Promote ==
  \/ PromoteReadSeek \/ PromoteRead \/ PromoteWriteSeek \/ PromoteWrite
  \/ PromoteHeadSeek \/ PromoteHeadWrite \/ PromoteTailSeek

FinishFile ==
  \/ FinalizePad \/ FinalizeSeek \/ FinalizeHeader \/ FinalizeEnd \/ FinalizeFlush

(* A method that runs goes on: this is the code's own control flow.          *)
Run == StartPosition \/ StartHeader \/ F32Part \/ Promote \/ WritePayload \/ FinishFile

Next == Construct \/ Call \/ Run

Spec == Init /\ [][Next]_vars

(* The caller owes the writer nothing, but a method that was entered is run. *)
FairSpec == Spec /\ WF_vars(Run)

-----------------------------------------------------------------------------
(* What the invariants speak about. *)
Base(l) == HeaderLength(l, spec)

(* The input byte that offset k of the payload must hold: RIFX stores every *)
(* sample with its bytes reversed, encode_rifx reverses the payload at once. *)
StoredByte(l, k) ==
  Pay(IF l = "Rifx" THEN (k \div spec.width) * spec.width + spec.width - 1 - (k % spec.width)
      ELSE k)

(* Payload bytes from .. upto-1 are in the sink, after a header of base bytes. *)
Holds(base, from, upto) ==
  /\ base + upto <= sink.len
  /\ \A k \in from .. (upto - 1) : sink.at[base + k] = StoredByte(layout, k)

(* TypeOK: every variable of the writer and its sink keeps its type, and the  *)
(* sink has a byte at every position below its length.                      *)
TypeOK ==
  /\ IsBytes(sink) /\ IsBytes(scratch)
  /\ cursor \in Nat /\ stale \in Nat
  /\ readable \in BOOLEAN /\ faulted \in BOOLEAN
  /\ spec \in Specs /\ asked \in UserLayouts
  /\ layout \in Layouts /\ state \in States /\ dataBytes \in Nat
  /\ pc \in Steps \cup {"idle", "gone"} /\ op \in Methods
  /\ next \in Nat /\ sent \in Nat /\ rest \in Nat /\ remaining \in Nat
  /\ result \in Results

(* RelocationKeepsPayload: while promote_to_rf64 moves the payload to its     *)
(* new place, with source and destination overlapping, every accepted byte   *)
(* stays intact: the moved part at the new offset, the rest at the old one,  *)
(* and the chunk in flight in scratch (no chunk overwrites bytes that a later *)
(* chunk has still to read).                                                *)
RelocationKeepsPayload ==
  pc \in PromoteSteps =>
    LET new == Base(Promoted(layout))
    IN /\ Holds(new, remaining, dataBytes) \/ remaining = dataBytes
       /\ pc \in {"readSeek", "read"} => Holds(Base(layout), 0, remaining)
       /\ pc \in {"writeSeek", "write"} =>
            /\ scratch.len = CopyLen
            /\ Holds(Base(layout), 0, remaining - CopyLen)
            /\ \A k \in 0 .. (CopyLen - 1) :
                 scratch.at[k] = StoredByte(layout, remaining - CopyLen + k)

(* PromotionCanRead: relocation reads the sink back, and create_rf64 and      *)
(* create_rifx open their file for writing only; a writer that reaches the   *)
(* read step must have been opened for reading.                             *)
PromotionCanRead == pc \in PromoteSteps => readable

(* OpenWriterIsPositioned: whenever a method returns leaving the writer open, *)
(* whatever mix of write_pcm, write_f32_samples, RIFX conversion chunks and  *)
(* promotion came before, the payload is in the sink right after a header    *)
(* slot of the current layout and the cursor is behind its last byte.        *)
OpenWriterIsPositioned ==
  state = "Open" =>
    /\ cursor = Base(layout) + dataBytes
    /\ Holds(Base(layout), 0, dataBytes)
    /\ \A i \in 0 .. (Base(layout) - 1) : sink.at[i].kind = "hdr" /\ sink.at[i].of = layout

(* PromotedExactlyWhenNeeded: an open or finalized file has left the layout   *)
(* the caller asked for if and only if the file no longer fits 32-bit sizes,  *)
(* so a small file is never RF64 by accident and a big one never RIFF.        *)
PromotedExactlyWhenNeeded ==
  state \in {"Open", "Finalized"} =>
    IF asked \in Classic /\ FileLen(asked, spec, dataBytes) - Marker > SizeMax
    THEN asked # "Rifx" /\ layout = Promoted(asked)
    ELSE layout = asked

(* OpenWriterCanFinalize: what write_pcm accepts, finalize can describe: the  *)
(* header of an open writer's data always fits its layout, pad byte included. *)
OpenWriterCanFinalize == state = "Open" => HeaderFits(layout, spec, dataBytes)

(* FinalizedFileIsComplete: a finalized file is byte for byte what the        *)
(* one-shot encoder of the asked layout makes of the same payload: header    *)
(* with the right sizes, payload, pad byte; longer only by what a generic    *)
(* sink already held behind it; the cursor is at its end.                    *)
FinalizedFileIsComplete ==
  state = "Finalized" =>
    LET end == FileLen(layout, spec, dataBytes)
    IN /\ layout = OneShotLayout(asked, spec, dataBytes)
       /\ \A i \in 0 .. (Base(layout) - 1) : sink.at[i] = Hdr(layout, dataBytes)
       /\ Holds(Base(layout), 0, dataBytes)
       /\ Pad(dataBytes) = 1 => sink.at[end - 1] = Zero
       /\ sink.len = Larger(end, stale)
       /\ cursor = end
       /\ HeaderSizes(layout, spec, dataBytes).riff + Marker = end

(* OnlyIoErrorsAreTerminal: a writer fails for good only after an I/O call    *)
(* failed; no refused argument or size, in any method, leaves it unusable.   *)
OnlyIoErrorsAreTerminal == pc \in {"idle", "gone"} /\ state = "Failed" => faulted

(* NoLateRefusal: write_f32_samples checks the whole slice up front, so none *)
(* of its per-chunk write_pcm calls can be refused after earlier chunks were *)
(* written: a refused call has appended nothing.                            *)
NoLateRefusal == pc = "part" /\ rest > 0 => PcmVerdict(Least(rest, ChunkBytes)) = "Ok"

(* FailureIsTerminal: once a method returned with the writer failed, nothing *)
(* touches the sink any more, no call succeeds, and drop does not repair it. *)
FailureIsTerminal ==
  [][pc = "idle" /\ state = "Failed" =>
       /\ state' = "Failed" /\ UNCHANGED <<sink, cursor, dataBytes>>
       /\ pc' = "gone" \/ result' = "InvalidOperation"]_vars

(* EveryCallReturns: each method that is entered returns, whatever fails,     *)
(* so the relocation and the chunk loops end.                               *)
EveryCallReturns == pc \in Steps ~> pc \in {"idle", "gone"}
=============================================================================
