------------------------------ MODULE RiffWalk ------------------------------
(***************************************************************************)
(* The chunk walk of parse_header over a RIFF, RIFX or RF64 file            *)
(* (src/header/riff.rs, src/header/size_table.rs).                          *)
(*                                                                          *)
(* The walk never goes back before it ends, so the file is chosen while it  *)
(* is read: its length at the start, each chunk header and each field when  *)
(* the walk reads them.  The history `seen' is the list of the chunk headers *)
(* read; the properties compare the parsed header with it.                  *)
(***************************************************************************)
EXTENDS ChunkSource, Sequences, FiniteSets

CONSTANTS
  RiffSizes,   \* values of the size field of the RIFF header
  ChunkSizes,  \* ChunkSizes[tag]: values of the size field of a chunk
  FactCounts,  \* values of the sample count of a fact chunk
  Ds64Bodies,  \* fixed fields of a ds64 chunk: [riff, data, samples]
  SizeTables,  \* contents of its size table
  SizeMax,     \* u32::MAX, the size that stands for "see ds64" or "unknown"
  FmtCore,     \* bytes a fmt chunk has at least (16)
  Ds64Core,    \* bytes of the fixed fields of ds64 (28)
  EntryLen,    \* bytes of a size table entry (12)
  MaxEntries   \* MAX_ENTRIES (4096)

FormHead == 12   \* "RIFF", size, "WAVE"
ChunkHead == 8   \* tag, size
FieldLen == 4    \* a tag or a 32-bit field; the least size of fact and LIST

Tags == {"ds64", "fmt ", "fact", "LIST", "data", "JUNK"}
Containers == {"Riff", "Rf64"}  \* RIFX differs from RIFF in byte order only

NoSize == -1     \* None of an Option<u64>

Entries == [tag : Tags, size : Nat]

ASSUME WalkAssumption ==
  /\ RiffSizes \subseteq 0 .. SizeMax
  /\ ChunkSizes \in [Tags -> SUBSET (0 .. SizeMax)]
  /\ FactCounts \subseteq Nat
  /\ Ds64Bodies \subseteq [riff : Nat, data : Nat, samples : Nat]
  /\ SizeTables \subseteq Seq(Entries)
  /\ \A t \in SizeTables : \A i \in DOMAIN t : t[i].size <= WordMax
  /\ SizeMax \in Nat /\ SizeMax < WordMax
  /\ FmtCore \in Nat /\ Ds64Core \in Nat /\ EntryLen \in Nat
  /\ MaxEntries \in Nat

VARIABLES
  pc,                    \* "start", "loop", "body", "end", "done"
  container, limit, consumed,           \* locals of parse_header_inner; limit
  chunk,                                \* is riff_data_len, chunk the header read
  fmt, pending,                         \* chunk number of the fmt in hand, or 0;
  sawDs64, dsData, dsSamples, table,    \* first data before it
  factSamples,
  result, header,        \* what parse_header returned
  seen                   \* history: the chunk headers, in file order

ds64Vars == <<sawDs64, dsData, dsSamples, table>>
found == <<fmt, pending, factSamples, ds64Vars>>
returned == <<result, header>>
vars == <<source, pos, pc, container, limit, consumed, chunk, found, returned, seen>>

(* A chunk: tag and size field of its header, its real length, the position  *)
(* of its body, and of its content what the walk reads: a sample count (fact *)
(* or ds64), the data size and the size table (ds64).                       *)
Chunk(tag, size, len, at) ==
  [tag |-> tag, size |-> size, len |-> len, at |-> at,
   samples |-> 0, data |-> NoSize, table |-> <<>>]

NoChunk == Chunk("JUNK", 0, 0, 0)
NoData == [at |-> 0, declared |-> NoSize]
NoHeader == [at |-> 0, declared |-> NoSize, samples |-> NoSize, fmt |-> 0]

Init ==
  /\ SourceInit /\ pc = "start"
  /\ container = "Riff" /\ limit = NoSize /\ consumed = 0
  /\ chunk = NoChunk /\ fmt = 0 /\ pending = NoData
  /\ sawDs64 = FALSE /\ dsData = NoSize /\ dsSamples = NoSize /\ table = <<>>
  /\ factSamples = NoSize
  /\ result = "None" /\ header = NoHeader
  /\ seen = <<>>

-----------------------------------------------------------------------------
(* parse_header returns an error.  The position no longer matters.           *)
Fail(error) ==
  /\ pc' = "done" /\ result' = error
  /\ UNCHANGED <<source, pos, container, limit, consumed, chunk, found, header>>

(* Any read or seek may fail for a reason other than the end of the file.    *)
ReadFails == pc # "done" /\ Fail("Io") /\ UNCHANGED seen

(* The file form: marker, size field, "WAVE".                                *)
ReadForm ==
  /\ pc = "start" /\ Has(0, FormHead)
  /\ \E c \in Containers, size \in RiffSizes :
       /\ container' = c
       /\ limit' = IF c = "Rf64" \/ size < FieldLen \/ size = SizeMax
                   THEN NoSize ELSE size - FieldLen
  /\ pos' = FormHead /\ pc' = "loop"
  /\ UNCHANGED <<source, consumed, chunk, found, returned, seen>>

ShortForm == pc = "start" /\ ~Has(0, FormHead) /\ Fail("Truncated") /\ UNCHANGED seen

NotWave == pc = "start" /\ Has(0, FieldLen) /\ Fail("NotWave") /\ UNCHANGED seen

-----------------------------------------------------------------------------
(* The operators named Bug... are seeded faults, used by no specification.    *)

(* The top of the loop: limit, pad byte, limit again, chunk header.          *)
BugPadding == 0

Padding == consumed % 2

(* The sums are u64: a release build wraps, a debug build panics.            *)
Beyond(n) == limit # NoSize /\ n % (WordMax + 1) > limit

AtLimit == limit # NoSize /\ consumed >= limit

(* Here the end of the file does not end the loop, which reads there forever. *)
BugLeaveLoop ==
  /\ pc = "loop"
  /\ \/ AtLimit /\ pc' = "end" /\ UNCHANGED <<pos, consumed>>
     \/ /\ ~AtLimit /\ Has(pos, Padding)
        /\ Beyond(consumed + Padding + ChunkHead)
        /\ pc' = "end" /\ pos' = pos + Padding /\ consumed' = consumed + Padding
     \/ /\ ~AtLimit /\ Has(pos, Padding)
        /\ ~Beyond(consumed + Padding + ChunkHead)
        /\ ~Has(pos + Padding, FieldLen) /\ fmt # 0 /\ pending # NoData
        /\ pc' = "loop" /\ pos' = Larger(pos, fileLen) /\ consumed' = consumed + Padding
  /\ UNCHANGED <<source, container, limit, chunk, found, returned, seen>>

LeaveLoop ==
  /\ pc = "loop"
  /\ \/ AtLimit /\ UNCHANGED <<pos, consumed>>
     \/ /\ ~AtLimit /\ Has(pos, Padding)
        /\ Beyond(consumed + Padding + ChunkHead)
        /\ pos' = pos + Padding /\ consumed' = consumed + Padding
     \/ /\ ~AtLimit /\ Has(pos, Padding)
        /\ ~Beyond(consumed + Padding + ChunkHead)
        /\ ~Has(pos + Padding, FieldLen) /\ fmt # 0 /\ pending # NoData
        /\ pos' = Larger(pos, fileLen) /\ consumed' = consumed + Padding
  /\ pc' = "end"
  /\ UNCHANGED <<source, container, limit, chunk, found, returned, seen>>

CounterOverflows ==
  /\ pc = "loop" /\ ~AtLimit /\ limit # NoSize /\ Has(pos, Padding)
  /\ consumed + Padding + ChunkHead > WordMax
  /\ Fail("Panic") /\ UNCHANGED seen

ShortHeader ==
  /\ pc = "loop" /\ ~AtLimit
  /\ \/ ~Has(pos, Padding)
     \/ /\ ~Beyond(consumed + Padding + ChunkHead)
        /\ ~Has(pos + Padding, ChunkHead)
        /\ Has(pos + Padding, FieldLen) \/ fmt = 0 \/ pending = NoData
  /\ Fail("Truncated") /\ UNCHANGED seen

(* Sentinel sizes of these tags are not looked up in the size table.         *)
OwnSentinel == {"ds64", "data", "fmt "}

Listed(tag) == {i \in DOMAIN table : table[i].tag = tag}

FirstListed(tag) == CHOOSE i \in Listed(tag) : \A j \in Listed(tag) : i <= j

BugTableWithout(i) == table

TableWithout(i) == SubSeq(table, 1, i - 1) \o SubSeq(table, i + 1, Len(table))

NeedsTable(tag, size) == size = SizeMax /\ tag \notin OwnSentinel

ChunkLen(tag, size) ==
  IF NeedsTable(tag, size) THEN table[FirstListed(tag)].size ELSE size

(* What a chunk adds to consumed before its body is looked at.               *)
Counted(tag, size) ==
  IF size = SizeMax /\ tag \in OwnSentinel THEN 0 ELSE ChunkLen(tag, size)

ReadHeader ==
  /\ pc = "loop" /\ ~AtLimit
  /\ Has(pos, Padding + ChunkHead) /\ ~Beyond(consumed + Padding + ChunkHead)
  /\ \E tag \in Tags : \E size \in ChunkSizes[tag] :
       LET head == consumed + Padding + ChunkHead
           at == pos + Padding + ChunkHead
       IN IF NeedsTable(tag, size) /\ Listed(tag) = {}
          THEN Fail("MalformedChunk") /\ UNCHANGED seen
          ELSE LET len == ChunkLen(tag, size)
                   this == Chunk(tag, size, len, at)
               IN /\ seen' = Append(seen, this)
                  /\ IF size # SizeMax /\ Beyond(head + len)
                     THEN Fail("MalformedChunk")
                     ELSE /\ chunk' = this
                          /\ pos' = at
                          /\ consumed' = SatAdd(head, Counted(tag, size))
                          /\ table' = (IF NeedsTable(tag, size)
                                       THEN TableWithout(FirstListed(tag)) ELSE table)
                          /\ pc' = "body"
                          /\ UNCHANGED <<source, container, limit, fmt, pending,
                                         factSamples, sawDs64, dsData, dsSamples,
                                         returned>>

-----------------------------------------------------------------------------
(* The bodies.  ToNext: n bytes of the body are left to skip, then the loop.  *)
Body(tags) == pc = "body" /\ chunk.tag \in tags

ToNext(n) ==
  /\ pos' = SatAdd(pos, n) /\ pc' = "loop"
  /\ UNCHANGED <<source, container, chunk, returned, seen>>

(* What the walk learnt from the body goes into the history.                 *)
Learn(samples, data, entries) ==
  seen' = [seen EXCEPT ![Len(seen)] =
             [@ EXCEPT !.samples = samples, !.data = data, !.table = entries]]

(* ChunkSizes::read accepts a table of n entries in what is left of the body. *)
TableFits(n) == n <= MaxEntries /\ n * EntryLen <= chunk.len - Ds64Core

Ds64Read(n) ==
  LET fields == Ds64Core + n * EntryLen
  IN Has(pos, fields) /\ CanSkip(pos + fields, chunk.len - fields)

BugDs64Counted == 0

(* A sentinel size is counted only now. *)
Ds64Counted == IF chunk.size = SizeMax THEN chunk.len ELSE 0

Ds64Accepted == Body({"ds64"}) /\ chunk.len >= Ds64Core /\ ~sawDs64

Ds64Body ==
  /\ Ds64Accepted
  /\ \E b \in Ds64Bodies, t \in SizeTables :
       /\ TableFits(Len(t)) /\ Ds64Read(Len(t))
       /\ sawDs64' = TRUE /\ table' = t
       /\ limit' = (IF b.riff >= FieldLen THEN b.riff - FieldLen ELSE limit)
       /\ dsData' = b.data
       /\ dsSamples' = (IF b.samples > 0 THEN b.samples ELSE dsSamples)
       /\ Learn(b.samples, b.data, t)
  /\ consumed' = SatAdd(consumed, Ds64Counted)
  /\ pos' = SatAdd(pos, chunk.len) /\ pc' = "loop"
  /\ UNCHANGED <<source, container, chunk, fmt, pending, factSamples, returned>>

Ds64Refused ==
  /\ Body({"ds64"})
  /\ \/ ~Ds64Accepted /\ Fail("MalformedChunk")
     \/ Ds64Accepted /\ Has(pos, Ds64Core) /\ Fail("MalformedChunk") \* too many entries
     \/ Ds64Accepted /\ ~Has(pos, chunk.len) /\ Fail("Truncated")
  /\ UNCHANGED seen

(* The first fmt is parsed, which consumes exactly its length; the others    *)
(* are skipped.                                                             *)
FmtRead ==
  IF fmt # 0 THEN CanSkip(pos, chunk.len)
  ELSE Has(pos, FmtCore) /\ CanSkip(pos + FmtCore, chunk.len - FmtCore)

FmtBody ==
  /\ Body({"fmt "}) /\ chunk.size # SizeMax
  /\ fmt # 0 \/ chunk.len >= FmtCore
  /\ FmtRead
  /\ fmt' = (IF fmt = 0 THEN Len(seen) ELSE fmt)
  /\ ToNext(chunk.len)
  /\ UNCHANGED <<limit, consumed, pending, factSamples, ds64Vars>>

FmtRefused ==
  /\ Body({"fmt "})
  /\ \/ chunk.size = SizeMax /\ Fail("MalformedChunk")
     \/ /\ chunk.size # SizeMax /\ fmt = 0
        /\ chunk.len < FmtCore \/ Has(pos, FmtCore)
        /\ Fail("Fmt")
     \/ /\ chunk.size # SizeMax /\ (fmt # 0 \/ chunk.len >= FmtCore)
        /\ ~Has(pos, chunk.len) /\ Fail("Truncated")
  /\ UNCHANGED seen

FactCount(n) == IF n > 0 THEN n ELSE factSamples

FactBody ==
  /\ Body({"fact"}) /\ chunk.len >= FieldLen
  /\ Has(pos, FieldLen) /\ CanSkip(pos + FieldLen, chunk.len - FieldLen)
  /\ \E n \in FactCounts :
       /\ factSamples' = FactCount(n)
       /\ Learn(n, NoSize, <<>>)
  /\ pos' = SatAdd(pos, chunk.len) /\ pc' = "loop"
  /\ UNCHANGED <<source, container, chunk, returned, limit, consumed,
                 fmt, pending, ds64Vars>>

FactRefused ==
  /\ Body({"fact"})
  /\ IF chunk.len < FieldLen THEN Fail("MalformedChunk")
     ELSE ~Has(pos, chunk.len) /\ Fail("Truncated")
  /\ UNCHANGED seen

SkippedBody ==
  /\ Body({"LIST", "JUNK"})
  /\ chunk.tag # "LIST" \/ chunk.len >= FieldLen
  /\ CanSkip(pos, chunk.len) /\ ToNext(chunk.len)
  /\ UNCHANGED <<limit, consumed, fmt, pending, factSamples, ds64Vars>>

SkippedRefused ==
  /\ Body({"LIST", "JUNK"})
  /\ IF chunk.tag = "LIST" /\ chunk.len < FieldLen THEN Fail("MalformedChunk")
     ELSE ~Has(pos, chunk.len) /\ Fail("Truncated")
  /\ UNCHANGED seen

(* wav_header: back to the payload, and the header is returned.              *)
Finish(at, declared) ==
  /\ pos' = at /\ pc' = "done" /\ result' = "Ok"
  /\ header' = [at |-> at, declared |-> declared, fmt |-> fmt,
                samples |-> IF dsSamples # NoSize THEN dsSamples ELSE factSamples]
  /\ UNCHANGED <<source, container, limit, consumed, chunk, pending, factSamples,
                 ds64Vars, seen>>

BugDeclared == IF dsData # NoSize THEN dsData ELSE chunk.len

Declared == IF chunk.size = SizeMax THEN dsData ELSE chunk.len

LacksDs64 == container = "Rf64" /\ ~sawDs64

(* The first data chunk after a fmt chunk ends the walk. *)
DataBody ==
  /\ Body({"data"}) /\ pending = NoData /\ fmt # 0
  /\ IF LacksDs64 THEN Fail("MissingChunk") /\ UNCHANGED seen
     ELSE fmt' = 0 /\ Finish(pos, Declared)

BugKeptData == [at |-> pos, declared |-> Declared]

KeptData == IF pending = NoData THEN [at |-> pos, declared |-> Declared] ELSE pending

(* Any other data chunk is remembered, if it is the first, and skipped. *)
DataSkipped ==
  /\ Body({"data"}) /\ (pending # NoData \/ fmt = 0) /\ chunk.size # SizeMax
  /\ CanSkip(pos, chunk.len)
  /\ pending' = KeptData
  /\ ToNext(chunk.len)
  /\ UNCHANGED <<limit, consumed, fmt, factSamples, ds64Vars>>

DataRefused ==
  /\ Body({"data"}) /\ (pending # NoData \/ fmt = 0)
  /\ IF chunk.size = SizeMax THEN Fail("MissingChunk")
     ELSE ~Has(pos, chunk.len) /\ Fail("Truncated")
  /\ UNCHANGED seen

WalkEnds ==
  /\ pc = "end"
  /\ IF fmt = 0 \/ pending = NoData \/ LacksDs64
     THEN Fail("MissingChunk") /\ UNCHANGED seen
     ELSE fmt' = 0 /\ Finish(pending.at, pending.declared)
-----------------------------------------------------------------------------
Open == ReadForm \/ ShortForm \/ NotWave

Loop == LeaveLoop \/ CounterOverflows \/ ShortHeader \/ ReadHeader

BodyRead ==
  \/ Ds64Body \/ FmtBody \/ FactBody \/ SkippedBody \/ DataBody \/ DataSkipped

BodyRefused ==
  \/ Ds64Refused \/ FmtRefused \/ FactRefused \/ SkippedRefused \/ DataRefused

Walk == Open \/ Loop \/ BodyRead \/ BodyRefused \/ WalkEnds

Next == Walk \/ ReadFails

Spec == Init /\ [][Next]_vars

(* parse_header runs on until it returns; no read is bound to fail. *)
FairSpec == Spec /\ WF_vars(Walk)

-----------------------------------------------------------------------------
(* What the file says, told from the chunks seen. *)
Numbers(tag) == {i \in DOMAIN seen : seen[i].tag = tag}

IsFirst(i, tag) == i \in Numbers(tag) /\ \A j \in Numbers(tag) : i <= j

(* TypeOK: the locals of the walk keep their types, and no option is mixed   *)
(* up with a number.                                                        *)
TypeOK ==
  /\ SourceTypeOK /\ consumed \in 0 .. WordMax /\ sawDs64 \in BOOLEAN
  /\ pc \in {"start", "loop", "body", "end", "done"}
  /\ container \in Containers
  /\ {limit, dsData, dsSamples, factSamples} \subseteq Nat \cup {NoSize}
  /\ fmt \in 0 .. Len(seen)
  /\ table \in Seq(Entries)

(* CounterFollowsPosition: `consumed', from which the padding and the end of  *)
(* the container are decided, is in step with the stream position before     *)
(* every chunk, whichever kinds of chunk and sentinel sizes came before.     *)
CounterFollowsPosition ==
  pc = "loop" => pos = FormHead + consumed \/ pos > fileLen

(* ChunksAreAdjacent: every header read starts where the previous chunk ends *)
(* by its own size, padded to an even offset: no body is skipped short or    *)
(* twice, whatever its kind.                                                *)
ChunksAreAdjacent ==
  \A i \in DOMAIN seen :
    LET before == IF i = 1 THEN FormHead ELSE seen[i - 1].at + seen[i - 1].len
    IN seen[i].at = before + (before % 2) + ChunkHead

(* FirstChunksWin: the header returned is that of the first data chunk and   *)
(* the first fmt chunk of the file, in whatever order and among however many *)
(* others they come, and the source is left on the first byte of payload.    *)
FirstChunksWin ==
  result = "Ok" =>
    /\ IsFirst(header.fmt, "fmt ")
    /\ \E d \in Numbers("data") : IsFirst(d, "data") /\ header.at = seen[d].at
    /\ pos = header.at

(* DeclaredSizeIsItsOwn: the payload length returned is the size field of     *)
(* that data chunk, or for the sentinel the ds64 one, or unknown; another     *)
(* data chunk or a later ds64 never supplies it.                            *)
DeclaredSizeIsItsOwn ==
  result = "Ok" =>
    \E d \in Numbers("data") :
      /\ IsFirst(d, "data")
      /\ IF seen[d].size # SizeMax THEN header.declared = seen[d].size
         ELSE IF Numbers("ds64") = {} THEN header.declared = NoSize
         ELSE \E k \in Numbers("ds64") :
                IsFirst(k, "ds64") /\ header.declared = seen[k].data

(* The fact chunks that state a count, and what the last of them says.        *)
Counts == {i \in Numbers("fact") : seen[i].samples > 0}

FactsSay(n) ==
  IF Counts = {} THEN n = NoSize
  ELSE \E i \in Counts : n = seen[i].samples /\ \A j \in Counts : j <= i

(* SampleCountIsItsOwn: the sample count is that of the ds64 chunk if it     *)
(* states one, else the last one a fact chunk stated; a zero states nothing,   *)
(* and a fact chunk behind the ds64 one changes nothing.                     *)
SampleCountIsItsOwn ==
  result = "Ok" =>
    \/ \E k \in Numbers("ds64") :
         IsFirst(k, "ds64") /\ seen[k].samples > 0 /\ header.samples = seen[k].samples
    \/ /\ \A k \in Numbers("ds64") : IsFirst(k, "ds64") => seen[k].samples = 0
       /\ FactsSay(header.samples)

(* SizeAndCountAreTheirOwn: both numbers of the header returned come from the *)
(* chunks they belong to, in whatever order fact, ds64 and data come.        *)
SizeAndCountAreTheirOwn == DeclaredSizeIsItsOwn /\ SampleCountIsItsOwn

(* TableSizesInOrder: the k-th sentinel chunk of a tag has the k-th size that *)
(* the ds64 table lists for that tag (docs/read.md: repeated IDs consume      *)
(* entries in order).                                                       *)
TableSizesInOrder ==
  \A i \in DOMAIN seen :
    NeedsTable(seen[i].tag, seen[i].size) =>
      LET tag == seen[i].tag
          nth == Cardinality({j \in 1 .. i : seen[j].tag = tag /\ seen[j].size = SizeMax})
          ds64 == CHOOSE k \in Numbers("ds64") : IsFirst(k, "ds64")
          entries == seen[ds64].table
      IN \E p \in DOMAIN entries :
           /\ entries[p].tag = tag /\ entries[p].size = seen[i].len
           /\ Cardinality({q \in 1 .. p : entries[q].tag = tag}) = nth

(* Rf64NeedsDs64: no RF64 header is returned without its ds64 chunk.          *)
Rf64NeedsDs64 ==
  result = "Ok" /\ container = "Rf64" => Numbers("ds64") # {}

(* CounterNeverOverflows: with a source that knows its length, no sequence of *)
(* chunk sizes, saturated ones included, makes consumed + 8 exceed u64.      *)
CounterNeverOverflows == lengthKnown => result # "Panic"

(* WalkReturns: parse_header returns for every file, also when no read fails  *)
(* but for the end of the file, and however many chunks follow the ones it    *)
(* was looking for.                                                         *)
WalkReturns == <>(pc = "done")
=============================================================================
