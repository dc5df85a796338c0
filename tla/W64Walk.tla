------------------------------ MODULE W64Walk -------------------------------
(***************************************************************************)
(* The chunk walk of parse_header_w64 over a Sony Wave64 file               *)
(* (src/header/riff.rs).  As in RiffWalk the file is chosen while it is      *)
(* read and `seen' keeps the chunk headers for the properties.              *)
(***************************************************************************)
EXTENDS ChunkSource, Sequences

CONSTANTS
  ChunkSizes,  \* ChunkSizes[guid]: values of the size field of a chunk
  FactCounts,  \* values of the sample count of a fact chunk
  SizeMax,     \* u32::MAX
  FmtCore      \* bytes a fmt chunk has at least (16)

GuidLen == 16
ChunkHead == 24  \* GUID and 64-bit size, which counts them
FormHead == 40   \* riff GUID, size, wave GUID
FactLen == 4
Alignment == 8

Guids == {"fmt ", "fact", "data", "other"}

ASSUME WalkAssumption ==
  /\ ChunkSizes \in [Guids -> SUBSET (0 .. WordMax)]
  /\ FactCounts \subseteq Nat
  /\ SizeMax \in Nat /\ FmtCore \in Nat

VARIABLES
  pc,                         \* "start", "loop", "body", "pad", "end", "done"
  chunk,                      \* the chunk being read: its guid, length and body
  fmt, pending, factSamples,  \* locals of parse_header_w64, as in RiffWalk
  result, header,             \* what parse_header returned
  seen                        \* history: the chunk headers, in file order

found == <<fmt, pending, factSamples>>
returned == <<result, header>>
walkVars == <<source, pos, pc, chunk, found, returned, seen>>

None == -1

NoData == [at |-> 0, declared |-> None]

Chunk(guid, len, at) == [guid |-> guid, len |-> len, at |-> at, samples |-> 0]

WalkInit ==
  /\ SourceInit /\ pc = "start"
  /\ chunk = Chunk("other", 0, 0)
  /\ fmt = 0 /\ pending = NoData /\ factSamples = None
  /\ result = "None" /\ header = [at |-> 0, declared |-> None, samples |-> None, fmt |-> 0]
  /\ seen = <<>>

-----------------------------------------------------------------------------
(* The operators named Bug... are seeded faults, used by no specification.    *)

Fail(error) ==
  /\ pc' = "done" /\ result' = error
  /\ UNCHANGED <<source, pos, chunk, found, header, seen>>

ReadFails == pc # "done" /\ Fail("Io")

(* parse_header has read the riff GUID to get here. *)
ReadForm ==
  /\ pc = "start" /\ Has(GuidLen, FormHead - GuidLen)
  /\ \/ Fail("NotWave")
     \/ /\ pos' = FormHead /\ pc' = "loop"
        /\ UNCHANGED <<source, chunk, found, returned, seen>>

ShortForm == pc = "start" /\ ~Has(GuidLen, FormHead - GuidLen) /\ Fail("Truncated")

(* The end of the file, also in the middle of a GUID, ends the walk. *)
LeaveLoop ==
  /\ pc = "loop" /\ ~Has(pos, GuidLen)
  /\ pos' = Larger(pos, fileLen) /\ pc' = "end"
  /\ UNCHANGED <<source, chunk, found, returned, seen>>

ShortHeader ==
  pc = "loop" /\ Has(pos, GuidLen) /\ ~Has(pos, ChunkHead) /\ Fail("Truncated")

BodyLen(size) == size - ChunkHead

ReadHeader ==
  /\ pc = "loop" /\ Has(pos, ChunkHead)
  /\ \E guid \in Guids : \E size \in ChunkSizes[guid] :
       IF size < ChunkHead THEN Fail("MalformedChunk")
       ELSE /\ chunk' = Chunk(guid, BodyLen(size), pos + ChunkHead)
            /\ seen' = Append(seen, chunk')
            /\ pos' = pos + ChunkHead /\ pc' = "body"
            /\ UNCHANGED <<source, found, returned>>

-----------------------------------------------------------------------------
Body(guids) == pc = "body" /\ chunk.guid \in guids

ToPad ==
  /\ pos' = SatAdd(pos, chunk.len) /\ pc' = "pad"
  /\ UNCHANGED <<source, chunk, returned>>

(* The first fmt is parsed, which consumes exactly its length. *)
FmtRead ==
  IF fmt # 0 THEN CanSkip(pos, chunk.len)
  ELSE Has(pos, FmtCore) /\ CanSkip(pos + FmtCore, chunk.len - FmtCore)

BugFirst(old) == Len(seen)

(* The number of the first fmt chunk, or this one. *)
First(old) == IF old = 0 THEN Len(seen) ELSE old

FmtBody ==
  /\ Body({"fmt "}) /\ chunk.len <= SizeMax
  /\ fmt # 0 \/ chunk.len >= FmtCore
  /\ FmtRead
  /\ fmt' = First(fmt)
  /\ ToPad /\ UNCHANGED <<pending, factSamples, seen>>

FmtRefused ==
  /\ Body({"fmt "})
  /\ \/ chunk.len > SizeMax /\ Fail("MalformedChunk")
     \/ /\ chunk.len <= SizeMax /\ fmt = 0
        /\ chunk.len < FmtCore \/ Has(pos, FmtCore)
        /\ Fail("Fmt")
     \/ /\ chunk.len <= SizeMax /\ (fmt # 0 \/ chunk.len >= FmtCore)
        /\ ~Has(pos, chunk.len) /\ Fail("Truncated")

FactRead == Has(pos, FactLen) /\ CanSkip(pos + FactLen, chunk.len - FactLen)

FactCount(n) == IF n > 0 THEN n ELSE factSamples

FactBody ==
  /\ Body({"fact"}) /\ chunk.len >= FactLen /\ FactRead
  /\ \E n \in FactCounts :
       /\ factSamples' = FactCount(n)
       /\ seen' = [seen EXCEPT ![Len(seen)].samples = n]
  /\ ToPad /\ UNCHANGED <<fmt, pending>>

FactRefused ==
  /\ Body({"fact"})
  /\ IF chunk.len < FactLen THEN Fail("MalformedChunk")
     ELSE ~Has(pos, chunk.len) /\ Fail("Truncated")

(* wav_header: back to the payload, and the header is returned. *)
Finish(data) ==
  /\ pos' = data.at /\ pc' = "done" /\ result' = "Ok"
  /\ header' = [at |-> data.at, declared |-> data.declared,
                samples |-> factSamples, fmt |-> fmt]
  /\ fmt' = 0
  /\ UNCHANGED <<source, chunk, pending, factSamples, seen>>

ThisData == [at |-> pos, declared |-> chunk.len]

DataBody == Body({"data"}) /\ pending = NoData /\ fmt # 0 /\ Finish(ThisData)

DataSkipped ==
  /\ Body({"data"}) /\ (pending # NoData \/ fmt = 0) /\ CanSkip(pos, chunk.len)
  /\ pending' = IF pending = NoData THEN ThisData ELSE pending
  /\ ToPad /\ UNCHANGED <<fmt, factSamples, seen>>

OtherBody ==
  /\ Body({"other"}) /\ CanSkip(pos, chunk.len)
  /\ ToPad /\ UNCHANGED <<found, seen>>

SkipRefused ==
  /\ \/ Body({"data"}) /\ (pending # NoData \/ fmt = 0)
     \/ Body({"other"})
  /\ ~Has(pos, chunk.len) /\ Fail("Truncated")

-----------------------------------------------------------------------------
BugPadding(len) == len % Alignment

Padding(len) == (Alignment - (len % Alignment)) % Alignment

SkipPad ==
  /\ pc = "pad" /\ CanSkip(pos, Padding(chunk.len))
  /\ pos' = SatAdd(pos, Padding(chunk.len)) /\ pc' = "loop"
  /\ UNCHANGED <<source, chunk, found, returned, seen>>

ShortPad == pc = "pad" /\ ~Has(pos, Padding(chunk.len)) /\ Fail("Truncated")

WalkEnds ==
  /\ pc = "end"
  /\ IF fmt # 0 /\ pending # NoData THEN Finish(pending) ELSE Fail("MissingChunk")

-----------------------------------------------------------------------------
Walk ==
  \/ ReadForm \/ ShortForm \/ LeaveLoop \/ ShortHeader \/ ReadHeader
  \/ FmtBody \/ FmtRefused \/ FactBody \/ FactRefused
  \/ DataBody \/ DataSkipped \/ OtherBody \/ SkipRefused
  \/ SkipPad \/ ShortPad \/ WalkEnds

WalkNext == Walk \/ ReadFails

WalkSpec == WalkInit /\ [][WalkNext]_walkVars

-----------------------------------------------------------------------------
Numbers(guid) == {i \in DOMAIN seen : seen[i].guid = guid}

IsFirst(i, guid) == i \in Numbers(guid) /\ \A j \in Numbers(guid) : i <= j

Counts == {i \in Numbers("fact") : seen[i].samples > 0}

(* ChunksAreAdjacent: every chunk starts where the one before ends by its own *)
(* size, rounded up to eight bytes: all headers of a Wave64 file lie on       *)
(* multiples of eight, whatever bodies were skipped or parsed before.        *)
ChunksAreAdjacent ==
  \A i \in DOMAIN seen :
    LET before == IF i = 1 THEN FormHead ELSE seen[i - 1].at + seen[i - 1].len
        start == seen[i].at - ChunkHead
    IN start % Alignment = 0 /\ before <= start /\ start < before + Alignment

(* FirstChunksWin: the header returned is that of the first data chunk and   *)
(* the first fmt chunk in whatever order they come, with the length of that   *)
(* data chunk, and the source stands on the first byte of its payload.  The   *)
(* sample count is the last one a fact chunk stated; a zero states nothing.  *)
FirstChunksWin ==
  result = "Ok" =>
    /\ IsFirst(header.fmt, "fmt ")
    /\ \E i \in Numbers("data") :
         /\ IsFirst(i, "data")
         /\ header.at = seen[i].at /\ header.declared = seen[i].len
    /\ IF Counts = {} THEN header.samples = None
       ELSE \E i \in Counts :
              header.samples = seen[i].samples /\ \A j \in Counts : j <= i
    /\ pos = header.at

=============================================================================
