-------------------------- MODULE WavWriterProofs ---------------------------
(***************************************************************************)
(* Theorems about WavWriter, for every header length, size limit, scratch    *)
(* size, specification set and sink that its assumptions allow.             *)
(***************************************************************************)
EXTENDS WavWriterInv, WavWriterContract, TLAPS

-----------------------------------------------------------------------------
(* Facts about byte stores.                                                 *)

(* Writing bytes yields a byte store, changes nothing outside them and puts  *)
(* each of them in its place.                                               *)
LEMMA SpliceFacts ==
  ASSUME NEW f, NEW b, NEW p \in Nat, IsBytes(f), IsBytes(b)
  PROVE  /\ IsBytes(Splice(f, p, b))
         /\ Splice(f, p, b).len >= f.len
         /\ Splice(f, p, b).len = IF b.len = 0 THEN f.len ELSE Larger(f.len, p + b.len)
         /\ \A i \in p .. (p + b.len - 1) : Splice(f, p, b).at[i] = b.at[i - p]
         /\ \A i \in 0 .. (f.len - 1) :
              i < p \/ i >= p + b.len => Splice(f, p, b).at[i] = f.at[i]
<1>1. CASE b.len = 0
  BY <1>1 DEF Splice, IsBytes
<1>2. CASE b.len # 0
  <2> DEFINE n == Larger(f.len, p + b.len)
             g == [i \in 0 .. (n - 1) |->
                     IF p <= i /\ i < p + b.len THEN b.at[i - p]
                     ELSE IF i < f.len THEN f.at[i] ELSE Zero]
  <2>1. Splice(f, p, b) = [len |-> n, at |-> g]
    BY <1>2 DEF Splice
  <2>2. b.len \in Nat /\ f.len \in Nat /\ n \in Nat /\ n >= f.len /\ n >= p + b.len
    BY DEF IsBytes, Larger
  <2>3. g \in [0 .. (n - 1) -> Cells]
    <3>1. Zero \in Cells
      BY DEF Zero, Cells, Kinds
    <3> SUFFICES ASSUME NEW i \in 0 .. (n - 1)
                 PROVE  g[i] \in Cells
      BY Zenon DEF g
    <3>2. CASE p <= i /\ i < p + b.len
      BY <3>2, <2>2 DEF IsBytes
    <3>3. CASE ~(p <= i /\ i < p + b.len)
      BY <3>1, <3>3, <2>2 DEF IsBytes
    <3> QED BY <3>2, <3>3
  <2>4. IsBytes([len |-> n, at |-> g])
    BY <2>2, <2>3 DEF IsBytes
  <2>5. Splice(f, p, b).len = n /\ Splice(f, p, b).at = g
    BY <2>1
  <2>6. n = Larger(f.len, p + b.len)
    OBVIOUS
  <2>7. \A i \in p .. (p + b.len - 1) : g[i] = b.at[i - p]
    BY <2>2
  <2>8. \A i \in 0 .. (f.len - 1) : i < p \/ i >= p + b.len => g[i] = f.at[i]
    BY <2>2
  <2> HIDE DEF n, g
  <2> QED BY <1>2, <2>1, <2>2, <2>4, <2>5, <2>6, <2>7, <2>8
<1> QED BY <1>1, <1>2

(* The prefixes, slices and runs of equal bytes the writer works with.       *)
LEMMA TakeFacts ==
  ASSUME NEW b, IsBytes(b), NEW k \in 0 .. b.len
  PROVE  IsBytes(Take(b, k)) /\ Take(b, k).len = k
BY DEF Take, IsBytes

LEMMA SliceFacts ==
  ASSUME NEW f, IsBytes(f), NEW p \in Nat, NEW k \in Nat, p + k <= f.len
  PROVE  /\ IsBytes(Slice(f, p, k)) /\ Slice(f, p, k).len = k
         /\ \A i \in 0 .. (k - 1) : Slice(f, p, k).at[i] = f.at[p + i]
BY DEF Slice, IsBytes

LEMMA RepeatFacts ==
  ASSUME NEW c \in Cells, NEW k \in Nat
  PROVE  /\ IsBytes(Repeat(c, k)) /\ Repeat(c, k).len = k
         /\ \A i \in 0 .. (k - 1) : Repeat(c, k).at[i] = c
BY DEF Repeat, IsBytes

LEMMA NoBytesFacts == IsBytes(NoBytes) /\ NoBytes.len = 0
<1>1. [i \in {} |-> Zero] \in [0 .. (0 - 1) -> Cells]
  BY 0 .. (0 - 1) = {}
<1> QED BY <1>1 DEF NoBytes, IsBytes

-----------------------------------------------------------------------------
(* Facts about the constants.                                               *)

LEMMA SpecFacts ==
  ASSUME spec \in Specs
  PROVE  /\ spec.frame \in Nat \ {0} /\ spec.width \in Nat \ {0}
         /\ spec.fact \in BOOLEAN /\ spec.valid \in BOOLEAN
         /\ spec.frame % spec.width = 0 /\ spec.frame <= ConvScratch
BY WriterAssumption DEF WriteSpecs

LEMMA BaseFacts ==
  ASSUME spec \in Specs, NEW l \in Layouts
  PROVE  /\ Promoted(l) \in Layouts
         /\ Base(l) \in Nat /\ Base(l) > 0 /\ Marker <= Base(l)
         /\ l \in Classic => Base(l) <= Base(Promoted(l))
         /\ HeaderLength(l, spec) = Base(l)
         /\ Prefix(l, spec) = Base(l) - Marker
         /\ Prefix(l, spec) \in Nat
<1>1. spec.fact \in BOOLEAN
  BY SpecFacts
<1>2. Promoted(l) \in Layouts
  BY DEF Promoted, Layouts
<1>3. Base(l) = HeaderLen[l][spec.fact] /\ HeaderLength(l, spec) = Base(l)
  BY DEF Base, HeaderLength
<1>4. Base(Promoted(l)) = HeaderLen[Promoted(l)][spec.fact]
  BY DEF Base, HeaderLength
<1>5. Base(l) \in Nat /\ Base(l) > 0 /\ Marker <= Base(l)
  BY <1>1, <1>3, LayoutAssumption
<1>6. l \in Classic => Base(l) <= Base(Promoted(l))
  BY <1>1, <1>3, <1>4, LayoutAssumption
<1> QED BY <1>2, <1>3, <1>5, <1>6, LayoutAssumption DEF Prefix

(* The header bytes of a layout.                                             *)
LEMMA HeaderBytesFacts ==
  ASSUME spec \in Specs, NEW l \in Layouts, NEW d \in Nat
  PROVE  /\ IsBytes(HeaderBytes(l, d)) /\ HeaderBytes(l, d).len = Base(l)
         /\ \A i \in 0 .. (Base(l) - 1) : HeaderBytes(l, d).at[i] = Hdr(l, d)
<1>1. Hdr(l, d) \in Cells
  BY DEF Hdr, Cells, Kinds
<1>2. HeaderBytes(l, d) = Repeat(Hdr(l, d), Base(l))
  BY DEF HeaderBytes, Base
<1>3. Base(l) \in Nat
  BY BaseFacts
<1> QED BY <1>1, <1>2, <1>3, RepeatFacts

-----------------------------------------------------------------------------
(* What a write, and a failed write, does to the sink.                       *)
LEMMA PutFacts ==
  ASSUME TypeOK, NEW b, IsBytes(b), Put(b)
  PROVE  /\ IsBytes(sink') /\ cursor' = cursor + b.len /\ cursor' \in Nat
         /\ sink'.len = IF b.len = 0 THEN sink.len ELSE Larger(sink.len, cursor + b.len)
         /\ \A i \in cursor .. (cursor + b.len - 1) : sink'.at[i] = b.at[i - cursor]
         /\ \A i \in 0 .. (sink.len - 1) :
              i < cursor \/ i >= cursor + b.len => sink'.at[i] = sink.at[i]
<1>1. b.len \in Nat /\ cursor \in Nat /\ IsBytes(sink)
  BY DEF TypeOK, IsBytes
<1>2. sink' = Splice(sink, cursor, b) /\ cursor' = cursor + b.len
  BY DEF Put
<1> QED BY <1>1, <1>2, SpliceFacts

LEMMA PutFailsFacts ==
  ASSUME TypeOK, NEW b, IsBytes(b), PutFails(b)
  PROVE  /\ IoError /\ IsBytes(sink') /\ cursor' \in Nat
         /\ sink.len <= sink'.len /\ sink'.len <= Larger(sink.len, cursor + b.len)
<1>1. PICK k \in 0 .. (b.len - 1) : Put(Take(b, k))
  BY DEF PutFails
<1>2. b.len \in Nat /\ cursor \in Nat /\ sink.len \in Nat
  BY DEF TypeOK, IsBytes
<1>3. IsBytes(Take(b, k)) /\ Take(b, k).len = k
  BY <1>2, TakeFacts
<1>4. /\ IsBytes(sink') /\ cursor' \in Nat
      /\ sink'.len = IF k = 0 THEN sink.len ELSE Larger(sink.len, cursor + k)
  BY <1>1, <1>3, PutFacts
<1> QED BY <1>2, <1>4 DEF PutFails, Larger

-----------------------------------------------------------------------------
(* Steps that end a method with an I/O error keep the invariant: a failed     *)
(* writer promises nothing about its sink.                                  *)
LEMMA ZeroAligned == ASSUME spec \in Specs PROVE 0 % spec.width = 0
BY SpecFacts

LEMMA ErrorStep ==
  ASSUME IInv, IoError, state = "Failed", IsBytes(sink'), cursor' \in Nat
  PROVE  IInv'
<1>1. /\ pc' \in {"idle", "gone"} /\ op' = "none" /\ result' = "Io" /\ faulted' = TRUE
      /\ next' = 0 /\ sent' = 0 /\ rest' = 0 /\ remaining' = 0 /\ scratch' = NoBytes
      /\ layout' = layout /\ state' = "Failed" /\ dataBytes' = dataBytes
      /\ readable' = readable /\ spec' = spec /\ asked' = asked /\ stale' = stale
  BY DEF IoError, Return, wfields, given
<1>2. TypeOK'
  BY <1>1, NoBytesFacts DEF IInv, TypeOK, States, Methods, Results
<1>3. ControlInv'
  BY <1>1 DEF IInv, ControlInv, PromoteSteps, FinalizeSteps, CopySteps, OnlyIoErrorsAreTerminal
<1>4. LayoutInv'
  BY <1>1 DEF IInv, LayoutInv
<1>5. AlignmentInv'
  BY <1>1, ZeroAligned DEF IInv, TypeOK, AlignmentInv, PromoteSteps
<1>6. PayloadInv'
  BY <1>1 DEF PayloadInv
<1>7. PromoteInv'
  BY <1>1 DEF PromoteInv, RelocationKeepsPayload, PromoteSteps, CopySteps
<1>8. FinalInv'
  BY <1>1 DEF FinalInv, FinalizeSteps
<1>9. SizeInv'
  BY <1>1 DEF IInv, SizeInv, PromoteSteps, FinalizeSteps
<1> QED BY <1>2, <1>3, <1>4, <1>5, <1>6, <1>7, <1>8, <1>9 DEF IInv

(* A method that returns without having touched the sink or the fields.      *)
LEMMA RefuseStep ==
  ASSUME IInv, NEW r \in Results, Refuse(r), pc \in {"idle", "part"}
  PROVE  IInv'
<1>1. /\ pc' = "idle" /\ op' = "none" /\ result' = r /\ faulted' = faulted
      /\ next' = 0 /\ sent' = 0 /\ rest' = 0 /\ remaining' = 0 /\ scratch' = NoBytes
      /\ sink' = sink /\ cursor' = cursor
      /\ layout' = layout /\ state' = state /\ dataBytes' = dataBytes
      /\ readable' = readable /\ spec' = spec /\ asked' = asked /\ stale' = stale
  BY DEF Refuse, Return, wfields, given, IInv, ControlInv
<1>2. TypeOK'
  BY <1>1, NoBytesFacts DEF IInv, TypeOK, Methods
<1>3. ControlInv'
  BY <1>1 DEF IInv, ControlInv, PromoteSteps, FinalizeSteps, CopySteps, OnlyIoErrorsAreTerminal
<1>4. LayoutInv'
  BY <1>1 DEF IInv, LayoutInv
<1>5. AlignmentInv'
  BY <1>1, ZeroAligned DEF IInv, TypeOK, AlignmentInv, PromoteSteps
<1>6. PayloadInv'
  BY <1>1 DEF IInv, PayloadInv, Base, Holds, Headed, SinkEnds, StoredByte
<1>7. PromoteInv'
  BY <1>1 DEF PromoteInv, RelocationKeepsPayload, PromoteSteps, CopySteps
<1>8. FinalInv'
  BY <1>1 DEF IInv, FinalInv, FinalizeSteps, Holds, HeadedBy, SinkEnds, Base, StoredByte
<1>9. SizeInv'
  BY <1>1 DEF IInv, SizeInv, PromoteSteps, FinalizeSteps
<1> QED BY <1>2, <1>3, <1>4, <1>5, <1>6, <1>7, <1>8, <1>9 DEF IInv

-----------------------------------------------------------------------------
(* Construction. *)
LEMMA InitInv == Init => IInv
<1> SUFFICES ASSUME Init PROVE IInv
  OBVIOUS
<1>1. IsBytes(sink) /\ sink.len = stale /\ stale \in Nat
  <2>1. Stale \in Cells
    BY DEF Stale, Cells, Kinds
  <2> QED BY <2>1, RepeatFacts DEF Init
<1>2. layout \in Layouts /\ asked \in UserLayouts /\ asked \in Layouts
  BY DEF Init, UserLayouts
<1>3. TypeOK
  <2>1. readable \in BOOLEAN /\ faulted \in BOOLEAN /\ spec \in Specs /\ asked \in UserLayouts
    BY DEF Init
  <2>2. cursor \in Nat /\ dataBytes \in Nat /\ next \in Nat /\ sent \in Nat
        /\ rest \in Nat /\ remaining \in Nat
    BY <1>1 DEF Init
  <2>3. state \in States /\ pc \in Steps \cup {"idle", "gone"} /\ op \in Methods
        /\ result \in Results
    BY DEF Init, States, Methods, Results
  <2>4. IsBytes(scratch)
    BY NoBytesFacts DEF Init
  <2> QED BY <1>1, <1>2, <2>1, <2>2, <2>3, <2>4 DEF TypeOK
<1>4. ControlInv
  BY DEF Init, ControlInv, PromoteSteps, FinalizeSteps, CopySteps, OnlyIoErrorsAreTerminal
<1>5. LayoutInv
  BY DEF Init, LayoutInv
<1>6. AlignmentInv
  BY ZeroAligned DEF Init, AlignmentInv, PromoteSteps
<1>7. PayloadInv
  BY <1>1, <1>2, BaseFacts DEF Init, PayloadInv, Larger
<1>8. PromoteInv
  BY DEF Init, PromoteInv, RelocationKeepsPayload, PromoteSteps, CopySteps
<1>9. FinalInv
  BY DEF Init, FinalInv, FinalizeSteps
<1>10. SizeInv
  BY DEF Init, SizeInv, PromoteSteps, FinalizeSteps
<1> QED BY <1>3, <1>4, <1>5, <1>6, <1>7, <1>8, <1>9, <1>10 DEF IInv

(* A step before the writer exists.                                          *)
LEMMA AbsentStep ==
  ASSUME IInv, TypeOK', state = "Absent",
         layout' = layout, state' = state, dataBytes' = dataBytes, spec' = spec,
         asked' = asked, sent' = 0,
         readable' = readable \/ readable' = (asked \in {"Riff", "Extensible"}),
         \/ pc' = "idle" /\ op' = "none"
         \/ pc' = "startPos" /\ op' = "new" /\ HeaderFits(asked, spec, 0)
         \/ pc' = "startHeader" /\ op' = "new" /\ HeaderFits(asked, spec, 0) /\ cursor' = 0,
         stale' <= sink'.len, sink'.len <= Larger(Base(asked), stale')
  PROVE  IInv'
<1>1. ControlInv'
  BY DEF IInv, ControlInv, PromoteSteps, FinalizeSteps, CopySteps, OnlyIoErrorsAreTerminal
<1>2. LayoutInv'
  BY DEF IInv, LayoutInv
<1>3. AlignmentInv'
  BY ZeroAligned DEF IInv, TypeOK, AlignmentInv, PromoteSteps
<1>4. PayloadInv'
  BY DEF PayloadInv, Base
<1>5. PromoteInv'
  BY DEF PromoteInv, RelocationKeepsPayload, PromoteSteps, CopySteps
<1>6. FinalInv'
  BY DEF FinalInv, FinalizeSteps
<1>7. SizeInv'
  BY DEF SizeInv, PromoteSteps, FinalizeSteps
<1> QED BY <1>1, <1>2, <1>3, <1>4, <1>5, <1>6, <1>7 DEF IInv

LEMMA ConstructStep == IInv /\ Construct => IInv'
<1> SUFFICES ASSUME IInv, Construct PROVE IInv'
  OBVIOUS
<1>1. /\ pc = "idle" /\ op = "none" /\ state = "Absent" /\ sent = 0
      /\ stale <= sink.len /\ sink.len <= Larger(Base(asked), stale)
      /\ TypeOK
  BY DEF Construct, RefuseSpec, CreateFile, OpenFails, NewOnSink, Starts, IInv,
         ControlInv, PayloadInv
<1>2. CASE RefuseSpec
  <2>1. TypeOK'
    BY <1>1, <1>2 DEF RefuseSpec, TypeOK, given, wfields, locals, Results, Refusals
  <2> QED
    BY <1>1, <1>2, <2>1, AbsentStep DEF RefuseSpec, given, wfields, locals, Base
<1>3. CASE OpenFails
  <2>1. TypeOK'
    BY <1>1, <1>3 DEF OpenFails, TypeOK, given, wfields, locals, Results
  <2> QED
    BY <1>1, <1>3, <2>1, AbsentStep DEF OpenFails, given, wfields, locals, Base
<1>4. CASE NewOnSink
  <2>1. TypeOK'
    BY <1>1, <1>4 DEF NewOnSink, TypeOK, given, wfields, locals, Methods, Steps
  <2> QED
    BY <1>1, <1>4, <2>1, AbsentStep DEF NewOnSink, given, wfields, locals, Base
<1>5. CASE CreateFile
  <2>1. TypeOK'
    BY <1>1, <1>5, NoBytesFacts
    DEF CreateFile, OpenedForReading, TypeOK, wfields, locals, Methods, Steps
  <2>2. asked \in Layouts /\ spec \in Specs
    BY <1>1 DEF TypeOK, UserLayouts
  <2>3. 0 <= Larger(Base(asked), 0)
    BY <2>2, BaseFacts DEF Larger
  <2> QED
    BY <1>1, <1>5, <2>1, <2>3, NoBytesFacts, AbsentStep
    DEF CreateFile, OpenedForReading, wfields, locals
<1> QED BY <1>2, <1>3, <1>4, <1>5 DEF Construct

LEMMA StartPositionStep == IInv /\ StartPosition => IInv'
<1> SUFFICES ASSUME IInv, StartPosition PROVE IInv'
  OBVIOUS
<1>1. /\ pc = "startPos" /\ op = "new" /\ state = "Absent" /\ sent = 0
      /\ stale <= sink.len /\ sink.len <= Larger(Base(asked), stale)
      /\ TypeOK /\ HeaderFits(asked, spec, 0)
  BY DEF StartPosition, IInv, ControlInv, PayloadInv
<1>2. CASE /\ cursor = 0 /\ Goto("startHeader")
           /\ UNCHANGED <<sink, cursor, given, wfields, locals>>
  <2>1. TypeOK'
    BY <1>1, <1>2 DEF Goto, TypeOK, given, wfields, locals, Steps
  <2> QED BY <1>1, <1>2, <2>1, AbsentStep DEF Goto, given, wfields, locals
<1>3. CASE /\ Return("InvalidOperation")
           /\ UNCHANGED <<sink, cursor, given, wfields, faulted>>
  <2>1. TypeOK'
    BY <1>1, <1>3, NoBytesFacts DEF Return, TypeOK, given, wfields, Results, Refusals, Methods
  <2> QED BY <1>1, <1>3, <2>1, AbsentStep DEF Return, given, wfields
<1>4. CASE SeekFails
  <2>1. TypeOK'
    BY <1>1, <1>4, NoBytesFacts
    DEF SeekFails, IoError, Return, TypeOK, given, wfields, Results, Methods
  <2> QED BY <1>1, <1>4, <2>1, AbsentStep DEF SeekFails, IoError, Return, given, wfields
<1> QED BY <1>2, <1>3, <1>4 DEF StartPosition

LEMMA StartHeaderStep == IInv /\ StartHeader => IInv'
<1> SUFFICES ASSUME IInv, StartHeader PROVE IInv'
  OBVIOUS
<1> DEFINE header == HeaderBytes(asked, 0)
<1>1. /\ pc = "startHeader" /\ op = "new" /\ state = "Absent" /\ sent = 0 /\ cursor = 0
      /\ stale <= sink.len /\ sink.len <= Larger(Base(asked), stale)
      /\ TypeOK /\ HeaderFits(asked, spec, 0) /\ dataBytes = 0 /\ layout = asked
  BY DEF StartHeader, IInv, ControlInv, PayloadInv
<1>2. asked \in Layouts /\ spec \in Specs /\ stale \in Nat /\ sink.len \in Nat
  BY <1>1 DEF TypeOK, UserLayouts, IsBytes
<1>3. /\ IsBytes(header) /\ header.len = Base(asked) /\ Base(asked) \in Nat /\ Base(asked) > 0
      /\ \A i \in 0 .. (Base(asked) - 1) : header.at[i] = Hdr(asked, 0)
  BY <1>2, HeaderBytesFacts, BaseFacts
<1> HIDE DEF header
<1>4. CASE PutFails(header)
  <2>1. /\ IoError /\ IsBytes(sink') /\ cursor' \in Nat
        /\ stale <= sink'.len /\ sink'.len <= Larger(Base(asked), stale)
    <3>1. /\ IoError /\ IsBytes(sink') /\ cursor' \in Nat
          /\ sink.len <= sink'.len /\ sink'.len <= Larger(sink.len, cursor + header.len)
      BY <1>1, <1>3, <1>4, PutFailsFacts
    <3> QED BY <1>1, <1>2, <1>3, <3>1 DEF Larger, IsBytes
  <2>2. TypeOK'
    BY <1>1, <2>1, NoBytesFacts DEF IoError, Return, TypeOK, given, wfields, Results, Methods
  <2> QED BY <1>1, <2>1, <2>2, AbsentStep DEF IoError, Return, given, wfields
<1>5. CASE /\ Put(header)
           /\ state' = "Open" /\ layout' = asked /\ dataBytes' = 0
           /\ Return("Ok") /\ UNCHANGED <<given, faulted>>
  <2>1. /\ IsBytes(sink') /\ cursor' = Base(asked) /\ sink'.len = Larger(Base(asked), stale)
        /\ \A i \in 0 .. (Base(asked) - 1) : sink'.at[i] = Hdr(asked, 0)
    <3>1. /\ IsBytes(sink') /\ cursor' = cursor + header.len
          /\ sink'.len = IF header.len = 0 THEN sink.len
                         ELSE Larger(sink.len, cursor + header.len)
          /\ \A i \in cursor .. (cursor + header.len - 1) : sink'.at[i] = header.at[i - cursor]
      BY <1>1, <1>3, <1>5, PutFacts
    <3> QED BY <1>1, <1>2, <1>3, <3>1 DEF Larger
  <2>2. /\ pc' = "idle" /\ op' = "none" /\ spec' = spec /\ asked' = asked
        /\ stale' = stale /\ readable' = readable
        /\ next' = 0 /\ sent' = 0 /\ rest' = 0 /\ remaining' = 0 /\ scratch' = NoBytes
    BY <1>1, <1>5 DEF Return, given
  <2>3. TypeOK'
    BY <1>1, <1>2, <1>3, <1>5, <2>1, <2>2, NoBytesFacts
    DEF Return, TypeOK, States, Results, Methods
  <2>4. ControlInv' /\ LayoutInv'
    BY <1>1, <1>5, <2>2 DEF IInv, ControlInv, LayoutInv, PromoteSteps, FinalizeSteps, CopySteps,
                            OnlyIoErrorsAreTerminal
  <2>5. AlignmentInv'
    BY <1>2, <1>5, <2>2, ZeroAligned DEF AlignmentInv, PromoteSteps
  <2>6. PayloadInv'
    <3>1. Base(asked)' = Base(asked)
      BY <2>2 DEF Base
    <3>2. \A d \in {0} : Hdr(asked, d).kind = "hdr" /\ Hdr(asked, d).of = asked
      BY DEF Hdr
    <3> QED BY <1>2, <1>3, <1>5, <2>1, <2>2, <3>1, <3>2
            DEF PayloadInv, Holds, Headed, SinkEnds, Larger
  <2>7. PromoteInv' /\ FinalInv'
    BY <1>5, <2>2 DEF PromoteInv, RelocationKeepsPayload, PromoteSteps, CopySteps,
                      FinalInv, FinalizeSteps
  <2>8. SizeInv'
    <3>1. Prefix(asked, spec) + 0 + Pad(0) <= SizeMax \/ asked \notin Classic
      BY <1>1 DEF HeaderFits
    <3>2. Prefix(asked, spec) \in Nat /\ Pad(0) \in Nat /\ SizeMax \in Nat
      BY <1>2, BaseFacts, LayoutAssumption DEF Pad
    <3>3. ~Overflows(asked, spec, 0)
      BY <3>1, <3>2 DEF Overflows
    <3>4. spec.valid /\ FileLenFits(asked, spec, 0)
      BY <1>1 DEF HeaderFits
    <3> QED BY <1>5, <2>2, <3>3, <3>4 DEF SizeInv, PromoteSteps, FinalizeSteps
  <2> QED BY <2>3, <2>4, <2>5, <2>6, <2>7, <2>8 DEF IInv
<1> QED BY <1>4, <1>5 DEF StartHeader, header

-----------------------------------------------------------------------------
(* Arithmetic: multiples of the sample width, and padded sizes.              *)
LEMMA DivModFacts ==
  ASSUME NEW w \in Nat \ {0}, NEW a \in Nat
  PROVE  /\ a \div w \in Nat /\ a % w \in 0 .. (w - 1)
         /\ a = (a \div w) * w + (a % w)
OBVIOUS

LEMMA DivModUnique ==
  ASSUME NEW w \in Nat \ {0}, NEW q \in Nat, NEW r \in 0 .. (w - 1)
  PROVE  (q * w + r) \div w = q /\ (q * w + r) % w = r
OBVIOUS

LEMMA ProductFacts ==
  ASSUME NEW a \in Nat, NEW b \in Nat, NEW w \in Nat
  PROVE  a * w \in Nat /\ (a + b) * w = a * w + b * w /\ a * (b * w) = (a * b) * w
OBVIOUS

LEMMA MultipleFacts ==
  ASSUME NEW w \in Nat \ {0}, NEW a \in Nat, a % w = 0
  PROVE  /\ a = (a \div w) * w
         /\ \A b \in Nat : b % w = 0 => (a + b) % w = 0
         /\ \A b \in Nat : b <= a /\ b % w = 0 => (a - b) % w = 0
         /\ \A k \in Nat : (k * a) % w = 0
<1>1. a \div w \in Nat /\ a = (a \div w) * w
  BY DivModFacts
<1>2. ASSUME NEW b \in Nat, b % w = 0 PROVE (a + b) % w = 0
  <2>1. b \div w \in Nat /\ b = (b \div w) * w
    BY <1>2, DivModFacts
  <2> DEFINE x == a \div w
             y == b \div w
  <2>2. x \in Nat /\ y \in Nat /\ a = x * w /\ b = y * w
    BY <1>1, <2>1
  <2> HIDE DEF x, y
  <2>3. x + y \in Nat /\ a + b = (x + y) * w + 0
    BY <2>2, ProductFacts
  <2> QED BY <2>3, DivModUnique, 0 \in 0 .. (w - 1)
<1>3. ASSUME NEW b \in Nat, b <= a, b % w = 0 PROVE (a - b) % w = 0
  <2>1. b \div w \in Nat /\ b = (b \div w) * w
    BY <1>3, DivModFacts
  <2> DEFINE x == a \div w
             y == b \div w
  <2>2. x \in Nat /\ y \in Nat /\ a = x * w /\ b = y * w
    BY <1>1, <2>1
  <2> HIDE DEF x, y
  <2>3. y <= x
    <3>1. SUFFICES ASSUME y >= x + 1 PROVE FALSE
      BY <2>2
    <3>2. PICK z \in Nat : y = (x + 1) + z
      BY <2>2, <3>1, y - (x + 1) \in Nat
    <3>3. y * w = x * w + 1 * w + z * w /\ z * w \in Nat
      BY <2>2, <3>2, ProductFacts
    <3> QED BY <1>3, <2>2, <3>3
  <2>4. x - y \in Nat /\ ((x - y) + y) * w = (x - y) * w + y * w
    BY <2>2, <2>3, ProductFacts
  <2>5. (x - y) * w \in Nat
    BY <2>4, ProductFacts
  <2>6. a - b = (x - y) * w + 0
    BY <2>2, <2>4, <2>5
  <2> QED BY <2>4, <2>6, DivModUnique, 0 \in 0 .. (w - 1)
<1>4. ASSUME NEW k \in Nat PROVE (k * a) % w = 0
  <2> DEFINE x == k * (a \div w)
             y == k * a
  <2>1. y = x * w + 0
    BY <1>1, ProductFacts
  <2>2. x \in Nat /\ 0 \in 0 .. (w - 1)
    BY <1>1, ProductFacts
  <2> HIDE DEF x, y
  <2>3. (x * w + 0) % w = 0
    BY <2>2, DivModUnique
  <2>4. y % w = 0
    BY <2>1, <2>3
  <2> QED BY <2>4 DEF y
<1> QED BY <1>1, <1>2, <1>3, <1>4

(* A whole number of frames is a whole number of samples.                    *)
LEMMA FramesAligned ==
  ASSUME spec \in Specs, NEW n \in Nat, n % spec.frame = 0
  PROVE  n % spec.width = 0
<1> DEFINE f == spec.frame
           w == spec.width
<1>1. f \in Nat \ {0} /\ w \in Nat \ {0} /\ f % w = 0 /\ n % f = 0
  BY SpecFacts
<1> HIDE DEF f, w
<1>2. PICK k \in Nat : n = k * f
  BY <1>1, MultipleFacts, DivModFacts
<1>3. (k * f) % w = 0
  BY <1>1, MultipleFacts
<1>4. n % w = 0
  BY <1>2, <1>3
<1> QED BY <1>4 DEF w

(* Padding never reorders sizes.                                            *)
LEMMA PadFacts ==
  ASSUME NEW d \in Nat
  PROVE  /\ Pad(d) \in {0, 1}
         /\ \A e \in Nat : d <= e => d + Pad(d) <= e + Pad(e)
BY DEF Pad

LEMMA SizeMonotone ==
  ASSUME spec \in Specs, NEW l \in Layouts, NEW d \in Nat, NEW e \in Nat, d <= e
  PROVE  /\ Overflows(l, spec, d) => Overflows(l, spec, e)
         /\ FileLenFits(l, spec, e) => FileLenFits(l, spec, d)
<1>1. Base(l) \in Nat /\ Prefix(l, spec) \in Nat /\ HeaderLength(l, spec) = Base(l)
  BY BaseFacts
<1>2. d + Pad(d) <= e + Pad(e) /\ Pad(d) \in Nat /\ Pad(e) \in Nat
  BY PadFacts
<1> QED BY <1>1, <1>2, LayoutAssumption DEF Overflows, FileLenFits, FileLen

-----------------------------------------------------------------------------
(* Write calls. *)
LEMMA WritePcmStep ==
  ASSUME IInv, NEW m \in {"pcm", "f32"}, NEW n \in Nat, NEW left \in Nat,
         pc \in {"idle", "part"}, WritePcm(m, n, left)
  PROVE  IInv'
<1> DEFINE grown == dataBytes + n
           promote == Overflows(layout, spec, grown)
<1>1. TypeOK /\ dataBytes \in Nat /\ grown \in Nat /\ spec \in Specs /\ layout \in Layouts
      /\ Promoted(layout) \in Layouts
  BY DEF IInv, TypeOK, Promoted, Layouts
<1>2. CASE PcmVerdict(n) # "Ok"
  <2>1. PcmVerdict(n) \in Results
    BY DEF PcmVerdict, SizeVerdict, Results, Refusals
  <2>2. Refuse(PcmVerdict(n))
    BY <1>2 DEF WritePcm
  <2> QED BY <2>1, <2>2, RefuseStep
<1>3. CASE PcmVerdict(n) = "Ok"
  <2>1. state = "Open" /\ n % spec.frame = 0 /\ SizeVerdict(grown) = "Ok"
    BY <1>3 DEF PcmVerdict
  <2>2. FileLenFits(Target(grown), spec, grown) /\ ~(layout = "Rifx" /\ promote)
    BY <2>1 DEF SizeVerdict
  <2>3. ~promote => FileLenFits(layout, spec, grown)
    BY <2>2 DEF Target
  <2>4. promote => /\ FileLenFits(Promoted(layout), spec, grown)
                   /\ FileLenFits(Promoted(layout), spec, dataBytes)
                   /\ layout \in {"Riff", "Extensible"}
    <3>1. promote => layout \in Classic
      BY DEF Overflows
    <3> QED BY <1>1, <2>2, <3>1, SizeMonotone DEF Target, Classic
  <2>5. spec.valid
    BY <2>1 DEF IInv, SizeInv
  <2>6. promote => HeaderFits(Promoted(layout), spec, dataBytes)
    BY <2>4, <2>5 DEF HeaderFits, Promoted, Classic
  <2>7. /\ state' = "Failed" /\ op' = m /\ next' = grown /\ sent' = 0 /\ rest' = left
        /\ remaining' = (IF promote THEN dataBytes ELSE 0)
        /\ pc' = (IF ~promote THEN "payload"
                  ELSE IF dataBytes > 0 THEN "readSeek" ELSE "headSeek")
        /\ sink' = sink /\ cursor' = cursor /\ layout' = layout /\ dataBytes' = dataBytes
        /\ scratch' = scratch /\ result' = result /\ faulted' = faulted
        /\ spec' = spec /\ asked' = asked /\ stale' = stale /\ readable' = readable
    BY <1>3, <2>6 DEF WritePcm, given
  <2> HIDE DEF promote, grown
  <2>8. TypeOK'
    BY <1>1, <2>7 DEF TypeOK, States, Methods, Steps, PromoteSteps
  <2>9. ControlInv'
    BY <1>1, <2>1, <2>4, <2>7 DEF IInv, ControlInv, PromoteSteps, FinalizeSteps, CopySteps,
          OnlyIoErrorsAreTerminal, grown
  <2>10. LayoutInv'
    BY <2>7 DEF IInv, LayoutInv
  <2>11. AlignmentInv'
    <3>1. n % spec.width = 0
      BY <1>1, <2>1, FramesAligned
    <3>2. dataBytes % spec.width = 0
      BY DEF IInv, AlignmentInv
    <3>3. grown % spec.width = 0
      BY <1>1, <3>1, <3>2, SpecFacts, MultipleFacts DEF grown
    <3> QED BY <1>1, <2>7, <3>2, <3>3, ZeroAligned DEF AlignmentInv
  <2>12. PayloadInv'
    <3>1. Base(layout)' = Base(layout) /\ Base(layout) \in Nat
      BY <1>1, <2>7, BaseFacts DEF Base
    <3>2. /\ cursor = Base(layout) + dataBytes
          /\ Holds(Base(layout), 0, dataBytes) /\ Headed /\ SinkEnds(Base(layout) + dataBytes)
      BY <2>1 DEF IInv, PayloadInv
    <3>3. Headed' /\ Holds(Base(layout), 0, dataBytes)' /\ SinkEnds(Base(layout) + dataBytes)'
      BY <2>7, <3>1, <3>2 DEF Headed, Holds, SinkEnds, StoredByte
    <3>4. dataBytes' + sent' = dataBytes' /\ Base(layout)' + dataBytes' + sent' = Base(layout)' + dataBytes'
      BY <1>1, <2>7, <3>1
    <3> QED BY <2>7, <3>1, <3>2, <3>3, <3>4 DEF PayloadInv, Holds, SinkEnds
  <2>13. PromoteInv'
    BY <1>1, <2>1, <2>7
    DEF IInv, PayloadInv, PromoteInv, RelocationKeepsPayload, PromoteSteps, CopySteps,
        Base, Holds, SinkEnds, StoredByte
  <2>14. FinalInv'
    BY <2>7 DEF FinalInv, FinalizeSteps
  <2>15. SizeInv'
    <3>1. layout # asked => Overflows(asked, spec, grown)
      <4>1. layout # asked => Overflows(asked, spec, dataBytes)
        BY <2>1 DEF IInv, SizeInv
      <4>2. asked \in Layouts /\ dataBytes <= grown
        BY <1>1 DEF TypeOK, UserLayouts, grown
      <4> QED BY <1>1, <4>1, <4>2, SizeMonotone
    <3> QED BY <1>1, <2>3, <2>4, <2>5, <2>7, <3>1
            DEF SizeInv, PromoteSteps, FinalizeSteps, promote
  <2> QED BY <2>8, <2>9, <2>10, <2>11, <2>12, <2>13, <2>14, <2>15 DEF IInv
<1> QED BY <1>2, <1>3

LEMMA ChunkFacts ==
  ASSUME spec \in Specs
  PROVE  ChunkBytes \in Nat /\ ChunkBytes % spec.width = 0
<1> DEFINE f == spec.frame
           k == ConvScratch \div f
<1>1. f \in Nat \ {0} /\ ConvScratch \in Nat
  BY SpecFacts, WriterAssumption
<1>2. k \in Nat
  BY <1>1, DivModFacts
<1>3. ChunkBytes = k * f
  BY DEF ChunkBytes
<1> HIDE DEF f, k
<1>4. k * f \in Nat
  BY <1>1, <1>2, ProductFacts
<1>5. (k * f) % spec.width = 0
  BY <1>1, <1>2, SpecFacts, MultipleFacts DEF f
<1> QED BY <1>3, <1>4, <1>5

(* A step that only enters a method from an open or closed writer.            *)
LEMMA EnterStep ==
  ASSUME IInv, TypeOK', pc = "idle", state = "Open",
         \/ pc' = "part" /\ op' = "f32" /\ state' = state
         \/ /\ pc' = (IF Pad(dataBytes) # 0 THEN "pad" ELSE "finSeek")
            /\ op' \in {"finalize", "drop"} /\ state' = "Failed",
         sink' = sink, cursor' = cursor, given' = given,
         layout' = layout, dataBytes' = dataBytes, sent' = sent, faulted' = faulted
  PROVE  IInv'
<1>1. /\ spec' = spec /\ asked' = asked /\ stale' = stale /\ readable' = readable
      /\ TypeOK /\ layout \in Layouts /\ spec \in Specs /\ dataBytes \in Nat /\ Pad(dataBytes) \in {0, 1}
  BY PadFacts DEF given, IInv, TypeOK
<1>2. ControlInv'
  BY <1>1 DEF IInv, ControlInv, PromoteSteps, FinalizeSteps, CopySteps, OnlyIoErrorsAreTerminal
<1>3. LayoutInv'
  BY <1>1 DEF IInv, LayoutInv
<1>4. AlignmentInv'
  BY <1>1 DEF IInv, AlignmentInv, PromoteSteps
<1>5. Base(layout)' = Base(layout) /\ Base(layout) \in Nat
      /\ FileLen(layout, spec, dataBytes) = Base(layout) + dataBytes + Pad(dataBytes)
  BY <1>1, BaseFacts DEF Base, FileLen
<1>6. /\ cursor = Base(layout) + dataBytes
      /\ Holds(Base(layout), 0, dataBytes) /\ Headed /\ SinkEnds(Base(layout) + dataBytes)
  BY DEF IInv, PayloadInv
<1>7. Headed' /\ Holds(Base(layout), 0, dataBytes)' /\ SinkEnds(Base(layout) + dataBytes)'
  BY <1>1, <1>5, <1>6 DEF Headed, Holds, SinkEnds, StoredByte
<1>8. PayloadInv'
  BY <1>1, <1>5, <1>6, <1>7 DEF PayloadInv
<1>9. PromoteInv'
  BY <1>1 DEF PromoteInv, RelocationKeepsPayload, PromoteSteps, CopySteps
<1>10. FinalInv'
  <2>1. FileLen(layout, spec, dataBytes)' = FileLen(layout, spec, dataBytes)
    BY <1>1 DEF FileLen
  <2>2. Pad(dataBytes) = 0 => FileLen(layout, spec, dataBytes) = Base(layout) + dataBytes
    BY <1>1, <1>5
  <2> QED BY <1>1, <1>5, <1>6, <1>7, <2>1, <2>2 DEF FinalInv, FinalizeSteps, SinkEnds
<1>11. SizeInv'
  BY <1>1 DEF IInv, SizeInv, PromoteSteps, FinalizeSteps
<1> QED BY <1>2, <1>3, <1>4, <1>8, <1>9, <1>10, <1>11 DEF IInv

LEMMA CallStep == IInv /\ Call => IInv'
<1> SUFFICES ASSUME IInv, Call PROVE IInv'
  OBVIOUS
<1>1. pc = "idle" /\ op = "none" /\ TypeOK
  BY DEF Call, WritePcmCall, WriteF32Call, Finalize, Drop, Called, IInv, ControlInv
<1>2. CASE WritePcmCall
  BY <1>1, <1>2, WritePcmStep, WriterAssumption DEF WritePcmCall
<1>3. CASE WriteF32Call
  <2>1. PICK n \in 0 .. MaxCall :
          IF F32Verdict(n) # "Ok" THEN Refuse(F32Verdict(n))
          ELSE /\ op' = "f32" /\ rest' = n * spec.width /\ pc' = "part"
               /\ UNCHANGED <<sink, cursor, given, wfields, next, sent, remaining,
                              scratch, result, faulted>>
    BY <1>3 DEF WriteF32Call
  <2>2. n \in Nat
    BY WriterAssumption
  <2>3. CASE F32Verdict(n) # "Ok"
    <3>1. F32Verdict(n) \in Results
      BY DEF F32Verdict, SizeVerdict, Results, Refusals
    <3> QED BY <1>1, <2>1, <2>3, <3>1, RefuseStep
  <2>4. CASE F32Verdict(n) = "Ok"
    <3>1. state = "Open"
      BY <2>4 DEF F32Verdict
    <3>2. n * spec.width \in Nat
      BY <1>1, <2>2, SpecFacts, ProductFacts DEF TypeOK
    <3>3. /\ op' = "f32" /\ rest' = n * spec.width /\ pc' = "part"
          /\ UNCHANGED <<sink, cursor, given, wfields, next, sent, remaining,
                         scratch, result, faulted>>
      BY <2>1, <2>4
    <3>4. TypeOK'
      BY <1>1, <3>2, <3>3 DEF TypeOK, given, wfields, Methods, Steps
    <3> QED BY <1>1, <3>1, <3>3, <3>4, EnterStep DEF wfields
  <2> QED BY <2>3, <2>4
<1>4. ASSUME NEW m \in {"finalize", "drop"}, BeginFinalize(m), FinalizeVerdict = "Begin"
      PROVE  IInv'
  <2>1. state = "Open"
    BY <1>4 DEF FinalizeVerdict
  <2>2. TypeOK'
    BY <1>1, <1>4 DEF BeginFinalize, TypeOK, given, locals, States, Methods, Steps, FinalizeSteps
  <2> QED BY <1>1, <1>4, <2>1, <2>2, EnterStep DEF BeginFinalize, locals
<1>5. CASE Finalize
  <2>1. CASE FinalizeVerdict = "Begin"
    BY <1>4, <1>5, <2>1 DEF Finalize
  <2>2. CASE FinalizeVerdict # "Begin"
    <3>1. FinalizeVerdict \in Results
      BY <2>2 DEF FinalizeVerdict, Results, Refusals
    <3> QED BY <1>1, <1>5, <2>2, <3>1, RefuseStep DEF Finalize
  <2> QED BY <2>1, <2>2
<1>6. CASE Drop
  <2>1. CASE state = "Open" /\ FinalizeVerdict = "Begin"
    BY <1>4, <1>6, <2>1 DEF Drop
  <2>2. CASE ~(state = "Open" /\ FinalizeVerdict = "Begin")
    <3>1. pc' = "gone" /\ UNCHANGED <<sink, cursor, given, wfields, op, locals, result, faulted>>
      BY <1>6, <2>2 DEF Drop
    <3>2. state # "Absent"
      BY <1>6 DEF Drop, Called
    <3>3. TypeOK'
      BY <1>1, <3>1 DEF TypeOK, given, wfields, locals
    <3>4. ControlInv' /\ LayoutInv' /\ AlignmentInv'
      BY <1>1, <3>1, <3>2
      DEF IInv, ControlInv, LayoutInv, AlignmentInv, PromoteSteps, FinalizeSteps, CopySteps,
          OnlyIoErrorsAreTerminal, given, wfields, locals
    <3>5. PayloadInv' /\ SizeInv'
      BY <1>1, <3>1
      DEF IInv, PayloadInv, SizeInv, Base, Holds, Headed, SinkEnds, StoredByte,
          PromoteSteps, FinalizeSteps, given, wfields, locals
    <3>6. PromoteInv' /\ FinalInv'
      BY <1>1, <3>1
      DEF IInv, PromoteInv, RelocationKeepsPayload, PromoteSteps, CopySteps, FinalInv,
          FinalizeSteps, Base, Holds, HeadedBy, SinkEnds, StoredByte, given, wfields, locals
    <3> QED BY <3>3, <3>4, <3>5, <3>6 DEF IInv
  <2> QED BY <2>1, <2>2
<1> QED BY <1>2, <1>3, <1>5, <1>6 DEF Call

LEMMA F32PartStep == IInv /\ F32Part => IInv'
<1> SUFFICES ASSUME IInv, F32Part PROVE IInv'
  OBVIOUS
<1>1. pc = "part" /\ rest \in Nat /\ spec \in Specs
  BY DEF F32Part, IInv, TypeOK
<1>2. CASE rest = 0
  BY <1>1, <1>2, RefuseStep DEF F32Part, Results
<1>3. CASE rest # 0
  <2>1. Least(rest, ChunkBytes) \in Nat /\ rest - Least(rest, ChunkBytes) \in Nat
    BY <1>1, ChunkFacts DEF Least
  <2> QED BY <1>1, <1>3, <2>1, WritePcmStep DEF F32Part
<1> QED BY <1>2, <1>3

-----------------------------------------------------------------------------
(* Relocation. *)

(* What every relocation step starts from.                                   *)
LEMMA PromoteContext ==
  ASSUME IInv, pc \in PromoteSteps
  PROVE  /\ TypeOK /\ state = "Failed" /\ layout \in {"Riff", "Extensible"}
         /\ layout \in Layouts /\ Promoted(layout) \in Layouts /\ spec \in Specs
         /\ sent = 0 /\ remaining <= dataBytes /\ dataBytes <= next
         /\ op \in {"pcm", "f32"}
         /\ dataBytes \in Nat /\ remaining \in Nat /\ sink.len \in Nat /\ stale \in Nat
         /\ Base(layout) \in Nat /\ Base(Promoted(layout)) \in Nat
         /\ Base(layout) <= Base(Promoted(layout))
         /\ pc \in CopySteps =>
              /\ CopyLen \in Nat \ {0} /\ CopyLen <= remaining
              /\ CopyFrom = Base(layout) + remaining - CopyLen
              /\ CopyTo = Base(Promoted(layout)) + remaining - CopyLen
<1>1. /\ TypeOK /\ state = "Failed" /\ layout \in {"Riff", "Extensible"}
      /\ sent = 0 /\ remaining <= dataBytes /\ dataBytes <= next
      /\ op \in {"pcm", "f32"} /\ (pc \in CopySteps => remaining > 0)
  BY DEF IInv, ControlInv
<1>2. /\ spec \in Specs /\ layout \in Layouts /\ layout \in Classic
      /\ dataBytes \in Nat /\ remaining \in Nat /\ sink.len \in Nat /\ stale \in Nat
  BY <1>1 DEF TypeOK, IsBytes, Classic
<1>3. /\ Promoted(layout) \in Layouts
      /\ Base(layout) \in Nat /\ Base(Promoted(layout)) \in Nat
      /\ Base(layout) <= Base(Promoted(layout))
  BY <1>2, BaseFacts
<1>4. HeaderLength(layout, spec) = Base(layout)
      /\ HeaderLength(Promoted(layout), spec) = Base(Promoted(layout))
  BY DEF Base
<1>5. ASSUME remaining > 0
      PROVE  /\ CopyLen \in Nat \ {0} /\ CopyLen <= remaining
             /\ CopyFrom = Base(layout) + remaining - CopyLen
             /\ CopyTo = Base(Promoted(layout)) + remaining - CopyLen
  <2>1. CopyLen \in Nat \ {0} /\ CopyLen <= remaining
    BY <1>2, <1>5, WriterAssumption DEF CopyLen, Least
  <2> QED BY <1>2, <1>3, <1>4, <2>1 DEF CopyFrom, CopyTo
<1> QED BY <1>1, <1>2, <1>3, <1>5

(* A step from one relocation call to the next one owes only what is known    *)
(* of the sink and of the locals it changes.                                *)
LEMMA PromoteFrame ==
  ASSUME IInv, pc \in PromoteSteps, pc' \in PromoteSteps,
         UNCHANGED <<given, wfields, op, next, sent, result, faulted>>,
         TypeOK', PromoteInv', remaining' <= remaining,
         pc' \in CopySteps => remaining' > 0,
         pc' \notin CopySteps => remaining' = 0
  PROVE  IInv'
<1>1. /\ spec' = spec /\ asked' = asked /\ stale' = stale /\ readable' = readable
      /\ layout' = layout /\ state' = state /\ dataBytes' = dataBytes
  BY DEF given, wfields
<1>2. remaining \in Nat /\ dataBytes \in Nat /\ remaining' \in Nat
  BY DEF IInv, TypeOK
<1>3. ControlInv'
  BY <1>1, <1>2 DEF IInv, ControlInv, PromoteSteps, FinalizeSteps, CopySteps,
                    OnlyIoErrorsAreTerminal
<1>4. LayoutInv' /\ AlignmentInv'
  BY <1>1 DEF IInv, LayoutInv, AlignmentInv, PromoteSteps
<1>5. PayloadInv' /\ FinalInv'
  BY <1>1, PromoteContext DEF PayloadInv, FinalInv, PromoteSteps, FinalizeSteps
<1>6. SizeInv'
  BY <1>1, PromoteContext DEF IInv, SizeInv, PromoteSteps, FinalizeSteps
<1> QED BY <1>3, <1>4, <1>5, <1>6 DEF IInv

LEMMA PromoteReadSeekStep == IInv /\ PromoteReadSeek => IInv'
<1> SUFFICES ASSUME IInv, PromoteReadSeek PROVE IInv'
  OBVIOUS
<1>1. pc = "readSeek" /\ pc \in PromoteSteps /\ pc \in CopySteps /\ TypeOK /\ state = "Failed"
  BY PromoteContext DEF PromoteReadSeek, PromoteSteps, CopySteps
<1>2. CASE Seek(CopyFrom) /\ Goto("read") /\ UNCHANGED <<given, wfields, locals>>
  <2>1. /\ pc' = "read" /\ sink' = sink /\ cursor' = CopyFrom /\ remaining' = remaining
        /\ scratch' = scratch /\ next' = next /\ sent' = sent /\ rest' = rest
        /\ op' = op /\ result' = result /\ faulted' = faulted
        /\ spec' = spec /\ asked' = asked /\ stale' = stale /\ readable' = readable
        /\ layout' = layout /\ state' = state /\ dataBytes' = dataBytes
    BY <1>2 DEF Seek, Goto, locals, given, wfields
  <2>2. CopyFrom \in Nat
    BY <1>1, PromoteContext
  <2>3. TypeOK'
    BY <1>1, <2>1, <2>2 DEF TypeOK, Steps, PromoteSteps
  <2>4. CopyFrom' = CopyFrom /\ CopyLen' = CopyLen
    BY <2>1 DEF CopyFrom, CopyLen
  <2>5. PromoteInv'
    BY <1>1, <2>1, <2>4
    DEF IInv, PromoteInv, RelocationKeepsPayload, PromoteSteps, CopySteps, Base, Holds,
        StoredByte, SinkEnds
  <2> QED BY <1>1, <1>2, <2>1, <2>3, <2>5, PromoteFrame, PromoteContext
          DEF PromoteSteps, CopySteps, IInv, ControlInv
<1>3. CASE SeekFails
  BY <1>1, <1>3, ErrorStep DEF SeekFails, TypeOK
<1> QED BY <1>2, <1>3 DEF PromoteReadSeek

LEMMA PromoteReadStep == IInv /\ PromoteRead => IInv'
<1> SUFFICES ASSUME IInv, PromoteRead PROVE IInv'
  OBVIOUS
<1>1. pc = "read" /\ pc \in PromoteSteps /\ pc \in CopySteps /\ TypeOK /\ state = "Failed"
  BY PromoteContext DEF PromoteRead, PromoteSteps, CopySteps
<1>2. CopyLen \in Nat \ {0} /\ CopyLen <= remaining /\ remaining \in Nat /\ dataBytes \in Nat
      /\ CopyFrom = Base(layout) + remaining - CopyLen /\ Base(layout) \in Nat
      /\ cursor \in Nat /\ cursor = CopyFrom /\ IsBytes(sink) /\ sink.len \in Nat
      /\ CopyLen \in Nat
  BY <1>1, PromoteContext DEF IInv, PromoteInv, TypeOK
<1>3. CASE /\ readable /\ cursor + CopyLen <= sink.len
           /\ scratch' = Slice(sink, cursor, CopyLen)
           /\ cursor' = cursor + CopyLen
           /\ Goto("writeSeek")
           /\ UNCHANGED <<sink, given, wfields, next, sent, rest, remaining>>
  <2>1. /\ pc' = "writeSeek" /\ sink' = sink /\ remaining' = remaining
        /\ next' = next /\ sent' = sent /\ rest' = rest
        /\ op' = op /\ result' = result /\ faulted' = faulted
        /\ spec' = spec /\ asked' = asked /\ stale' = stale /\ readable' = readable
        /\ layout' = layout /\ state' = state /\ dataBytes' = dataBytes
    BY <1>3 DEF Goto, given, wfields
  <2>2. /\ IsBytes(scratch') /\ scratch'.len = CopyLen
        /\ \A i \in 0 .. (CopyLen - 1) : scratch'.at[i] = sink.at[cursor + i]
    <3>1. cursor + CopyLen <= sink.len /\ scratch' = Slice(sink, cursor, CopyLen)
      BY <1>3
    <3>2. /\ IsBytes(Slice(sink, cursor, CopyLen)) /\ Slice(sink, cursor, CopyLen).len = CopyLen
          /\ \A i \in 0 .. (CopyLen - 1) :
               Slice(sink, cursor, CopyLen).at[i] = sink.at[cursor + i]
      BY <1>2, <3>1, SliceFacts
    <3> QED BY <3>1, <3>2
  <2>3. TypeOK'
    BY <1>1, <1>2, <1>3, <2>1, <2>2 DEF TypeOK, Steps, PromoteSteps
  <2>4. CopyLen' = CopyLen /\ Base(layout)' = Base(layout)
        /\ Base(Promoted(layout))' = Base(Promoted(layout))
    BY <2>1 DEF CopyLen, Base
  <2>5. Holds(Base(layout), 0, remaining) /\
        (Holds(Base(Promoted(layout)), remaining, dataBytes) \/ remaining = dataBytes)
    BY <1>1 DEF IInv, PromoteInv, RelocationKeepsPayload
  <2>6. \A k \in 0 .. (CopyLen - 1) :
          scratch'.at[k] = StoredByte(layout, remaining - CopyLen + k)
    <3>1. \A k \in 0 .. (CopyLen - 1) :
            /\ remaining - CopyLen + k \in 0 .. (remaining - 1)
            /\ cursor + k = Base(layout) + (remaining - CopyLen + k)
      BY <1>2
    <3> QED BY <2>2, <2>5, <3>1 DEF Holds
  <2>7. Holds(Base(layout), 0, remaining - CopyLen)
    <3>1. \A k \in 0 .. (remaining - CopyLen - 1) : k \in 0 .. (remaining - 1)
      BY <1>2
    <3>2. Base(layout) + (remaining - CopyLen) <= Base(layout) + remaining
      BY <1>2
    <3> QED BY <1>2, <2>5, <3>1, <3>2 DEF Holds
  <2>8. \A k : StoredByte(layout, k)' = StoredByte(layout, k)
    BY <2>1 DEF StoredByte
  <2>9. RelocationKeepsPayload'
    BY <2>1, <2>2, <2>4, <2>5, <2>6, <2>7, <2>8
    DEF RelocationKeepsPayload, Holds, StoredByte
  <2>10. PromoteInv'
    BY <1>1, <2>1, <2>4, <2>9 DEF IInv, PromoteInv, CopySteps, SinkEnds
  <2> QED BY <1>1, <1>3, <2>1, <2>3, <2>10, PromoteFrame, PromoteContext
          DEF PromoteSteps, CopySteps, IInv, ControlInv
<1>4. CASE /\ \E k \in 0 .. CopyLen : cursor' = cursor + k
           /\ IoError /\ UNCHANGED sink
  BY <1>1, <1>2, <1>4, ErrorStep
<1> QED BY <1>3, <1>4 DEF PromoteRead

LEMMA PromoteWriteSeekStep == IInv /\ PromoteWriteSeek => IInv'
<1> SUFFICES ASSUME IInv, PromoteWriteSeek PROVE IInv'
  OBVIOUS
<1>1. pc = "writeSeek" /\ pc \in PromoteSteps /\ pc \in CopySteps /\ TypeOK /\ state = "Failed"
  BY PromoteContext DEF PromoteWriteSeek, PromoteSteps, CopySteps
<1>2. CASE Seek(CopyTo) /\ Goto("write") /\ UNCHANGED <<given, wfields, locals>>
  <2>1. /\ pc' = "write" /\ sink' = sink /\ cursor' = CopyTo /\ remaining' = remaining
        /\ scratch' = scratch /\ next' = next /\ sent' = sent /\ rest' = rest
        /\ op' = op /\ result' = result /\ faulted' = faulted
        /\ spec' = spec /\ asked' = asked /\ stale' = stale /\ readable' = readable
        /\ layout' = layout /\ state' = state /\ dataBytes' = dataBytes
    BY <1>2 DEF Seek, Goto, locals, given, wfields
  <2>2. CopyTo \in Nat
    BY <1>1, PromoteContext
  <2>3. TypeOK'
    BY <1>1, <2>1, <2>2 DEF TypeOK, Steps, PromoteSteps
  <2>4. CopyTo' = CopyTo /\ CopyLen' = CopyLen
    BY <2>1 DEF CopyTo, CopyFrom, CopyLen
  <2>5. PromoteInv'
    BY <1>1, <2>1, <2>4
    DEF IInv, PromoteInv, RelocationKeepsPayload, PromoteSteps, CopySteps, Base, Holds,
        StoredByte, SinkEnds
  <2> QED BY <1>1, <1>2, <2>1, <2>3, <2>5, PromoteFrame, PromoteContext
          DEF PromoteSteps, CopySteps, IInv, ControlInv
<1>3. CASE SeekFails
  BY <1>1, <1>3, ErrorStep DEF SeekFails, TypeOK
<1> QED BY <1>2, <1>3 DEF PromoteWriteSeek

(* The heart of the relocation: writing a chunk at its new place completes    *)
(* the moved part and leaves what is still to be read alone, because the new *)
(* header is at least as long as the old one and chunks move last to first.  *)
LEMMA PromoteWriteStep == IInv /\ PromoteWrite => IInv'
<1> SUFFICES ASSUME IInv, PromoteWrite PROVE IInv'
  OBVIOUS
<1> DEFINE old == Base(layout)
           new == Base(Promoted(layout))
           n == CopyLen
           left == remaining - n
<1>1. pc = "write" /\ pc \in PromoteSteps /\ pc \in CopySteps /\ TypeOK /\ state = "Failed"
  BY PromoteContext DEF PromoteWrite, PromoteSteps, CopySteps
<1>2. /\ old \in Nat /\ new \in Nat /\ old <= new /\ n \in Nat /\ n > 0 /\ n <= remaining
      /\ remaining \in Nat /\ dataBytes \in Nat /\ remaining <= dataBytes /\ left \in Nat
      /\ sink.len \in Nat /\ stale \in Nat /\ CopyTo = new + left
  BY <1>1, PromoteContext
<1>3. /\ cursor = new + left /\ IsBytes(scratch) /\ scratch.len = n
      /\ Holds(new, remaining, dataBytes) \/ remaining = dataBytes
      /\ Holds(old, 0, left)
      /\ \A k \in 0 .. (n - 1) : scratch.at[k] = StoredByte(layout, left + k)
      /\ SinkEnds(IF remaining = dataBytes THEN old + dataBytes ELSE new + dataBytes)
  BY <1>1, <1>2 DEF IInv, PromoteInv, RelocationKeepsPayload, TypeOK
<1> HIDE DEF old, new, n, left
<1>4. CASE /\ Put(scratch)
           /\ remaining' = remaining - CopyLen /\ scratch' = NoBytes
           /\ Goto(IF remaining > CopyLen THEN "readSeek" ELSE "headSeek")
           /\ UNCHANGED <<given, wfields, next, sent, rest>>
  <2>1. /\ pc' = (IF left > 0 THEN "readSeek" ELSE "headSeek") /\ remaining' = left
        /\ next' = next /\ sent' = sent /\ rest' = rest /\ scratch' = NoBytes
        /\ op' = op /\ result' = result /\ faulted' = faulted
        /\ spec' = spec /\ asked' = asked /\ stale' = stale /\ readable' = readable
        /\ layout' = layout /\ state' = state /\ dataBytes' = dataBytes
    BY <1>2, <1>4 DEF Goto, given, wfields, n, left
  <2>2. /\ IsBytes(sink') /\ cursor' = cursor + n /\ cursor' \in Nat
        /\ sink'.len = Larger(sink.len, new + remaining)
        /\ \A i \in cursor .. (cursor + n - 1) : sink'.at[i] = scratch.at[i - cursor]
        /\ \A i \in 0 .. (sink.len - 1) : i < cursor \/ i >= cursor + n => sink'.at[i] = sink.at[i]
    <3>1. cursor + n = new + remaining
      BY <1>2, <1>3 DEF left
    <3> QED BY <1>1, <1>2, <1>3, <1>4, <3>1, PutFacts
  <2>3. TypeOK'
    BY <1>1, <1>2, <2>1, <2>2, NoBytesFacts DEF TypeOK, Steps, PromoteSteps
  <2>4. sink'.len = Larger(new + dataBytes, stale)
    BY <1>2, <1>3, <2>2 DEF SinkEnds, Larger
  <2>5. \A k \in left .. (dataBytes - 1) : sink'.at[new + k] = StoredByte(layout, k)
    <3> SUFFICES ASSUME NEW k \in left .. (dataBytes - 1)
                 PROVE  sink'.at[new + k] = StoredByte(layout, k)
      OBVIOUS
    <3>1. CASE k < remaining
      <4>1. k - left \in 0 .. (n - 1) /\ left + (k - left) = k
        BY <1>2, <3>1 DEF left
      <4>2. new + k \in cursor .. (cursor + n - 1) /\ (new + k) - cursor = k - left
        BY <1>2, <1>3, <4>1
      <4> QED BY <1>3, <2>2, <4>1, <4>2
    <3>2. CASE k >= remaining
      <4>1. Holds(new, remaining, dataBytes)
        BY <1>2, <1>3, <3>2
      <4>2. k \in remaining .. (dataBytes - 1) /\ new + k \in 0 .. (sink.len - 1)
        BY <1>2, <3>2, <4>1 DEF Holds
      <4>3. new + k >= cursor + n
        BY <1>2, <1>3, <3>2 DEF left
      <4>4. sink'.at[new + k] = sink.at[new + k]
        BY <2>2, <4>2, <4>3
      <4> QED BY <4>1, <4>2, <4>4 DEF Holds
    <3> QED BY <1>2, <3>1, <3>2
  <2>6. \A k \in 0 .. (left - 1) : sink'.at[old + k] = StoredByte(layout, k)
    <3> SUFFICES ASSUME NEW k \in 0 .. (left - 1)
                 PROVE  sink'.at[old + k] = StoredByte(layout, k)
      OBVIOUS
    <3>1. old + k \in 0 .. (sink.len - 1) /\ old + k < cursor
      BY <1>2, <1>3 DEF Holds
    <3>2. sink'.at[old + k] = sink.at[old + k]
      BY <2>2, <3>1
    <3> QED BY <1>3, <3>2 DEF Holds
  <2>7. old + left <= sink'.len /\ new + dataBytes <= sink'.len
    BY <1>2, <2>4 DEF Larger, left
  <2>8. /\ Base(layout)' = old /\ Base(Promoted(layout))' = new
        /\ \A k : StoredByte(layout, k)' = StoredByte(layout, k)
    BY <2>1 DEF Base, StoredByte, old, new
  <2>9. RelocationKeepsPayload'
    BY <2>1, <2>5, <2>6, <2>7, <2>8 DEF RelocationKeepsPayload, Holds, StoredByte
  <2>10. left < dataBytes
    BY <1>2 DEF left
  <2>11. PromoteInv'
    BY <1>2, <2>1, <2>4, <2>8, <2>9, <2>10 DEF PromoteInv, SinkEnds
  <2>12. remaining' <= remaining
    BY <1>2, <2>1 DEF left
  <2> QED BY <1>1, <1>2, <1>4, <2>1, <2>3, <2>11, <2>12, PromoteFrame
          DEF PromoteSteps, CopySteps
<1>5. CASE PutFails(scratch)
  BY <1>1, <1>3, <1>5, ErrorStep, PutFailsFacts
<1> QED BY <1>4, <1>5 DEF PromoteWrite

LEMMA PromoteHeadSeekStep == IInv /\ PromoteHeadSeek => IInv'
<1> SUFFICES ASSUME IInv, PromoteHeadSeek PROVE IInv'
  OBVIOUS
<1>1. pc = "headSeek" /\ pc \in PromoteSteps /\ TypeOK /\ state = "Failed" /\ remaining = 0
  BY PromoteContext DEF PromoteHeadSeek, PromoteSteps, CopySteps, IInv, ControlInv
<1>2. CASE Seek(0) /\ Goto("headWrite") /\ UNCHANGED <<given, wfields, locals>>
  <2>1. /\ pc' = "headWrite" /\ sink' = sink /\ cursor' = 0 /\ remaining' = remaining
        /\ scratch' = scratch /\ next' = next /\ sent' = sent /\ rest' = rest
        /\ op' = op /\ result' = result /\ faulted' = faulted
        /\ spec' = spec /\ asked' = asked /\ stale' = stale /\ readable' = readable
        /\ layout' = layout /\ state' = state /\ dataBytes' = dataBytes
    BY <1>2 DEF Seek, Goto, locals, given, wfields
  <2>2. TypeOK'
    BY <1>1, <2>1 DEF TypeOK, Steps, PromoteSteps
  <2>3. PromoteInv'
    BY <1>1, <2>1
    DEF IInv, PromoteInv, RelocationKeepsPayload, PromoteSteps, CopySteps, Base, Holds,
        StoredByte, SinkEnds
  <2> QED BY <1>1, <1>2, <2>1, <2>2, <2>3, PromoteFrame DEF PromoteSteps, CopySteps, TypeOK
<1>3. CASE SeekFails
  BY <1>1, <1>3, ErrorStep DEF SeekFails, TypeOK
<1> QED BY <1>2, <1>3 DEF PromoteHeadSeek

LEMMA PromoteHeadWriteStep == IInv /\ PromoteHeadWrite => IInv'
<1> SUFFICES ASSUME IInv, PromoteHeadWrite PROVE IInv'
  OBVIOUS
<1> DEFINE target == Promoted(layout)
           header == HeaderBytes(target, dataBytes)
           new == Base(target)
<1>1. pc = "headWrite" /\ pc \in PromoteSteps /\ TypeOK /\ state = "Failed" /\ remaining = 0
  BY PromoteContext DEF PromoteHeadWrite, PromoteSteps, CopySteps, IInv, ControlInv
<1>2. /\ target \in Layouts /\ spec \in Specs /\ dataBytes \in Nat /\ stale \in Nat
      /\ Base(layout) \in Nat /\ new \in Nat /\ Base(layout) <= new /\ sink.len \in Nat
      /\ new > 0
  BY <1>1, PromoteContext, BaseFacts
<1>3. /\ IsBytes(header) /\ header.len = new
      /\ \A i \in 0 .. (new - 1) : header.at[i] = Hdr(target, dataBytes)
  BY <1>2, HeaderBytesFacts
<1>4. /\ cursor = 0
      /\ Holds(new, 0, dataBytes) \/ dataBytes = 0
      /\ SinkEnds(IF 0 = dataBytes THEN Base(layout) + dataBytes ELSE new + dataBytes)
  BY <1>1 DEF IInv, PromoteInv, RelocationKeepsPayload, target, new
<1> HIDE DEF target, header, new
<1>5. CASE Put(header) /\ Goto("tailSeek") /\ UNCHANGED <<given, wfields, locals>>
  <2>1. /\ pc' = "tailSeek" /\ remaining' = remaining
        /\ scratch' = scratch /\ next' = next /\ sent' = sent /\ rest' = rest
        /\ op' = op /\ result' = result /\ faulted' = faulted
        /\ spec' = spec /\ asked' = asked /\ stale' = stale /\ readable' = readable
        /\ layout' = layout /\ state' = state /\ dataBytes' = dataBytes
    BY <1>5 DEF Goto, locals, given, wfields
  <2>2. /\ IsBytes(sink') /\ cursor' \in Nat /\ sink'.len = Larger(sink.len, new)
        /\ \A i \in 0 .. (new - 1) : sink'.at[i] = header.at[i]
        /\ \A i \in 0 .. (sink.len - 1) : i >= new => sink'.at[i] = sink.at[i]
    <3>1. /\ IsBytes(sink') /\ cursor' \in Nat
          /\ sink'.len = IF header.len = 0 THEN sink.len ELSE Larger(sink.len, cursor + header.len)
          /\ \A i \in cursor .. (cursor + header.len - 1) : sink'.at[i] = header.at[i - cursor]
          /\ \A i \in 0 .. (sink.len - 1) :
               i < cursor \/ i >= cursor + header.len => sink'.at[i] = sink.at[i]
      BY <1>1, <1>3, <1>5, PutFacts
    <3>2. cursor + header.len = new /\ \A i \in 0 .. (new - 1) : i - cursor = i
      BY <1>2, <1>3, <1>4
    <3> QED BY <1>2, <1>3, <1>4, <3>1, <3>2
  <2>3. TypeOK'
    BY <1>1, <2>1, <2>2 DEF TypeOK, Steps, PromoteSteps
  <2>4. sink'.len = Larger(new + dataBytes, stale)
    BY <1>2, <1>4, <2>2 DEF SinkEnds, Larger
  <2>5. /\ Promoted(layout)' = target /\ Base(Promoted(layout))' = new
        /\ Base(target)' = new
        /\ \A k : StoredByte(layout, k)' = StoredByte(layout, k)
    BY <2>1 DEF Base, StoredByte, target, new, Promoted
  <2>6. Holds(new, 0, dataBytes)' \/ dataBytes = 0
    <3> SUFFICES ASSUME dataBytes # 0 PROVE Holds(new, 0, dataBytes)'
      OBVIOUS
    <3>1. Holds(new, 0, dataBytes)
      BY <1>4
    <3>2. \A k \in 0 .. (dataBytes - 1) :
            new + k \in 0 .. (sink.len - 1) /\ new + k >= new
      BY <1>2, <3>1 DEF Holds
    <3>3. \A k \in 0 .. (dataBytes - 1) : sink'.at[new + k] = StoredByte(layout, k)
      BY <2>2, <3>1, <3>2 DEF Holds
    <3>4. new + dataBytes <= sink'.len
      BY <1>2, <2>4 DEF Larger
    <3> QED BY <2>1, <2>5, <3>3, <3>4 DEF Holds, new, Base
  <2>7. RelocationKeepsPayload'
    BY <1>1, <2>1, <2>5, <2>6 DEF RelocationKeepsPayload, new, target, Base
  <2>8. HeadedBy(Promoted(layout), dataBytes)'
    BY <1>3, <2>1, <2>2, <2>5 DEF HeadedBy
  <2>9. PromoteInv'
    BY <1>2, <2>1, <2>4, <2>5, <2>7, <2>8 DEF PromoteInv, SinkEnds, CopySteps
  <2> QED BY <1>1, <1>5, <2>1, <2>3, <2>9, PromoteFrame DEF PromoteSteps, CopySteps, TypeOK
<1>6. CASE PutFails(header)
  BY <1>1, <1>3, <1>6, ErrorStep, PutFailsFacts
<1> QED BY <1>5, <1>6 DEF PromoteHeadWrite, header, target

LEMMA PromoteTailSeekStep == IInv /\ PromoteTailSeek => IInv'
<1> SUFFICES ASSUME IInv, PromoteTailSeek PROVE IInv'
  OBVIOUS
<1> DEFINE target == Promoted(layout)
           new == Base(target)
<1>1. /\ pc = "tailSeek" /\ pc \in PromoteSteps /\ TypeOK /\ state = "Failed"
      /\ remaining = 0 /\ sent = 0 /\ op \in {"pcm", "f32"} /\ dataBytes <= next
      /\ layout \in {"Riff", "Extensible"}
  BY PromoteContext DEF PromoteTailSeek, PromoteSteps, CopySteps, IInv, ControlInv
<1>2. /\ target \in Layouts /\ spec \in Specs /\ dataBytes \in Nat /\ stale \in Nat
      /\ new \in Nat /\ sink.len \in Nat /\ HeaderLength(target, spec) = new
  BY <1>1, PromoteContext, BaseFacts
<1>3. /\ Holds(new, 0, dataBytes) \/ dataBytes = 0
      /\ HeadedBy(target, dataBytes) /\ SinkEnds(new + dataBytes)
  BY <1>1 DEF IInv, PromoteInv, RelocationKeepsPayload
<1>4. target \notin Classic /\ target # "Rifx" /\ layout # "Rifx" /\ layout = asked
      /\ asked \in {"Riff", "Extensible"}
  BY <1>1 DEF Promoted, Classic, IInv, LayoutInv
<1>5. CASE /\ Seek(HeaderLength(Promoted(layout), spec) + dataBytes)
           /\ layout' = Promoted(layout)
           /\ Goto("payload")
           /\ UNCHANGED <<given, state, dataBytes, locals>>
  <2>1. /\ pc' = "payload" /\ layout' = target /\ cursor' = new + dataBytes
        /\ sink' = sink /\ remaining' = 0 /\ scratch' = scratch /\ next' = next
        /\ sent' = 0 /\ rest' = rest /\ op' = op /\ result' = result /\ faulted' = faulted
        /\ spec' = spec /\ asked' = asked /\ stale' = stale /\ readable' = readable
        /\ state' = "Failed" /\ dataBytes' = dataBytes
    BY <1>1, <1>2, <1>5 DEF Seek, Goto, locals, given
  <2> HIDE DEF target, new
  <2>2. TypeOK'
    BY <1>1, <1>2, <2>1 DEF TypeOK, Steps
  <2>3. ControlInv' /\ LayoutInv'
    <3>1. next \in Nat
      BY <1>1 DEF TypeOK
    <3> QED BY <1>1, <1>2, <1>4, <2>1, <3>1
            DEF IInv, ControlInv, LayoutInv, PromoteSteps, FinalizeSteps, CopySteps,
                OnlyIoErrorsAreTerminal, target
  <2>4. AlignmentInv'
    BY <1>1, <2>1 DEF IInv, AlignmentInv
  <2>5. PayloadInv'
    <3>1. Base(layout)' = new
      BY <2>1 DEF Base, new
    <3>2. dataBytes' + sent' = dataBytes /\ new + dataBytes' + sent' = new + dataBytes
      BY <1>2, <2>1
    <3>3. \A k : StoredByte(layout, k)' = StoredByte(layout, k)
      BY <1>4, <2>1 DEF StoredByte
    <3>4. new + dataBytes <= sink.len
      BY <1>2, <1>3 DEF SinkEnds, Larger
    <3>5. \A k \in 0 .. (dataBytes - 1) : sink.at[new + k] = StoredByte(layout, k)
      BY <1>2, <1>3 DEF Holds
    <3>6. Headed'
      BY <1>3, <2>1, <3>1 DEF Headed, HeadedBy, Hdr, new
    <3> QED BY <1>3, <2>1, <3>1, <3>2, <3>3, <3>4, <3>5, <3>6
            DEF PayloadInv, Holds, SinkEnds, StoredByte
  <2>6. PromoteInv' /\ FinalInv'
    BY <2>1 DEF PromoteInv, RelocationKeepsPayload, PromoteSteps, CopySteps,
                FinalInv, FinalizeSteps
  <2>7. SizeInv'
    <3>1. Overflows(layout, spec, next) /\ FileLenFits(target, spec, next) /\ spec.valid
      BY <1>1 DEF IInv, SizeInv, target
    <3>2. ~Overflows(target, spec, next)
      BY <1>4 DEF Overflows
    <3> QED BY <1>4, <2>1, <3>1, <3>2 DEF SizeInv, PromoteSteps, FinalizeSteps
  <2> QED BY <2>2, <2>3, <2>4, <2>5, <2>6, <2>7 DEF IInv
<1>6. CASE SeekFails
  BY <1>1, <1>6, ErrorStep DEF SeekFails, TypeOK
<1> QED BY <1>5, <1>6 DEF PromoteTailSeek

LEMMA PromoteStep == IInv /\ Promote => IInv'
BY PromoteReadSeekStep, PromoteReadStep, PromoteWriteSeekStep, PromoteWriteStep,
   PromoteHeadSeekStep, PromoteHeadWriteStep, PromoteTailSeekStep DEF Promote

-----------------------------------------------------------------------------
(* Appending payload. *)

(* Reversing the samples of a chunk that starts at a whole sample gives the   *)
(* bytes that reversing the samples of the whole payload would put there.    *)
LEMMA ReversedFacts ==
  ASSUME spec \in Specs, NEW a \in Nat, a % spec.width = 0,
         NEW n \in Nat, n % spec.width = 0, NEW j \in 0 .. (n - 1)
  PROVE  /\ Reversed(n, j) \in Nat
         /\ StoredByte("Rifx", a + j) = Pay(a + Reversed(n, j))
<1> DEFINE w == spec.width
           q == a \div w
           y == j \div w
           r == j % w
<1>1. w \in Nat \ {0} /\ a % w = 0 /\ n % w = 0 /\ j \in Nat
  BY SpecFacts
<1>2. /\ q \in Nat /\ a = q * w
      /\ y \in Nat /\ r \in 0 .. (w - 1) /\ j = y * w + r
      /\ n = (n \div w) * w
  BY <1>1, DivModFacts, MultipleFacts
<1>3. Reversed(n, j) = y * w + (w - 1 - r)
  <2>1. j < (n \div w) * w
    BY <1>2
  <2> QED BY <2>1 DEF Reversed
<1> HIDE DEF q, y, r, w
<1>4. q * w \in Nat /\ y * w \in Nat /\ (q + y) * w = q * w + y * w /\ q + y \in Nat
  BY <1>1, <1>2, ProductFacts
<1>5. a + j = (q + y) * w + r
  BY <1>2, <1>4
<1>6. (a + j) \div w = q + y /\ (a + j) % w = r
  <2>1. PICK x \in Nat : x = q + y
    BY <1>4
  <2>2. a + j = x * w + r
    BY <1>5, <2>1
  <2>3. (x * w + r) \div w = x /\ (x * w + r) % w = r
    BY <1>1, <1>2, DivModUnique
  <2> QED BY <2>1, <2>2, <2>3
<1>7. StoredByte("Rifx", a + j) = Pay((q + y) * w + w - 1 - r)
  BY <1>6 DEF StoredByte, w
<1>8. (q + y) * w + w - 1 - r = a + (y * w + (w - 1 - r))
  BY <1>1, <1>2, <1>4
<1>9. y * w + (w - 1 - r) \in Nat
  BY <1>1, <1>2, <1>4
<1> QED BY <1>3, <1>7, <1>8, <1>9

LEMMA PayloadFacts ==
  ASSUME IInv, pc = "payload"
  PROVE  LET n == PayloadBytes.len
             a == dataBytes + sent
         IN /\ a \in Nat /\ n \in Nat /\ next \in Nat /\ IsBytes(PayloadBytes)
            /\ a % spec.width = 0 /\ n % spec.width = 0
            /\ a + n <= next /\ (layout # "Rifx" => sent = 0 /\ a + n = next)
            /\ \A j \in 0 .. (n - 1) : PayloadBytes.at[j] = StoredByte(layout, a + j)
<1> DEFINE n == PayloadBytes.len
           a == dataBytes + sent
           rest0 == next - dataBytes - sent
           f == [j \in 0 .. (n - 1) |->
                   Pay(dataBytes + sent + (IF layout = "Rifx" THEN Reversed(n, j) ELSE j))]
<1>1. /\ TypeOK /\ spec \in Specs /\ dataBytes \in Nat /\ sent \in Nat /\ next \in Nat
      /\ dataBytes + sent <= next /\ (layout # "Rifx" => sent = 0)
      /\ dataBytes % spec.width = 0 /\ sent % spec.width = 0 /\ next % spec.width = 0
  BY DEF IInv, TypeOK, ControlInv, AlignmentInv
<1>2. n = IF layout = "Rifx" THEN Least(rest0, ChunkBytes) ELSE rest0
  BY DEF PayloadBytes
<1>3. PayloadBytes = [len |-> n, at |-> f]
  BY <1>2 DEF PayloadBytes
<1>4. a \in Nat /\ rest0 \in Nat /\ rest0 = next - a
  BY <1>1
<1>5. a % spec.width = 0 /\ rest0 % spec.width = 0
  <2>1. a % spec.width = 0
    BY <1>1, SpecFacts, MultipleFacts
  <2>2. a <= next
    BY <1>1
  <2>3. (next - a) % spec.width = 0
    BY <1>1, <1>4, <2>1, <2>2, SpecFacts, MultipleFacts
  <2> QED BY <1>4, <2>1, <2>3
<1> HIDE DEF rest0, n, a
<1>6. n \in Nat /\ n <= rest0 /\ n % spec.width = 0
  <2>1. ChunkBytes \in Nat /\ ChunkBytes % spec.width = 0
    BY <1>1, ChunkFacts
  <2>2. n = rest0 \/ (n = ChunkBytes /\ n <= rest0)
    BY <1>2, <1>4, <2>1 DEF Least
  <2> QED BY <1>4, <1>5, <2>1, <2>2
<1>7. \A j \in 0 .. (n - 1) : f[j] = StoredByte(layout, a + j) /\ f[j] \in Cells
  <2> SUFFICES ASSUME NEW j \in 0 .. (n - 1)
               PROVE  f[j] = StoredByte(layout, a + j) /\ f[j] \in Cells
    OBVIOUS
  <2>1. \A i \in Nat : Pay(i) \in Cells
    BY DEF Pay, Cells, Kinds
  <2>2. CASE layout = "Rifx"
    <3>1. Reversed(n, j) \in Nat /\ StoredByte("Rifx", a + j) = Pay(a + Reversed(n, j))
      BY <1>1, <1>4, <1>5, <1>6, ReversedFacts
    <3>2. f[j] = Pay(a + Reversed(n, j))
      BY <2>2 DEF f, a
    <3>3. a + Reversed(n, j) \in Nat
      BY <1>4, <3>1
    <3> QED BY <2>1, <2>2, <3>1, <3>2, <3>3
  <2>3. CASE layout # "Rifx"
    <3>1. f[j] = Pay(a + j) /\ a + j \in Nat
      BY <1>4, <1>6, <2>3 DEF f, a
    <3>2. StoredByte(layout, a + j) = Pay(a + j)
      BY <2>3 DEF StoredByte
    <3> QED BY <2>1, <3>1, <3>2
  <2> QED BY <2>2, <2>3
<1>8. IsBytes(PayloadBytes)
  <2>1. f \in [0 .. (n - 1) -> Cells]
    BY <1>7 DEF f
  <2> HIDE DEF f
  <2> QED BY <1>3, <1>6, <2>1 DEF IsBytes
<1>9. layout # "Rifx" => sent = 0 /\ a + n = next
  BY <1>1, <1>2, <1>4
<1>10. a + n <= next
  BY <1>1, <1>4, <1>6
<1>11. \A j \in 0 .. (n - 1) : PayloadBytes.at[j] = StoredByte(layout, a + j)
  BY <1>3, <1>7
<1> QED BY <1>1, <1>4, <1>5, <1>6, <1>8, <1>9, <1>10, <1>11 DEF n, a

LEMMA WritePayloadStep == IInv /\ WritePayload => IInv'
<1> SUFFICES ASSUME IInv, WritePayload PROVE IInv'
  OBVIOUS
<1> DEFINE bytes == PayloadBytes
           n == bytes.len
           a == dataBytes + sent
           base == Base(layout)
<1>1. /\ pc = "payload" /\ TypeOK /\ state = "Failed" /\ op \in {"pcm", "f32"}
      /\ spec \in Specs /\ layout \in Layouts /\ dataBytes \in Nat /\ sent \in Nat
      /\ stale \in Nat /\ sink.len \in Nat /\ cursor \in Nat
  BY DEF WritePayload, IInv, ControlInv, TypeOK, IsBytes
<1>2. /\ a \in Nat /\ n \in Nat /\ next \in Nat /\ IsBytes(bytes)
      /\ a % spec.width = 0 /\ n % spec.width = 0
      /\ a + n <= next /\ (layout # "Rifx" => sent = 0 /\ a + n = next)
      /\ \A j \in 0 .. (n - 1) : bytes.at[j] = StoredByte(layout, a + j)
  BY <1>1, PayloadFacts
<1>3. base \in Nat /\ base > 0
  BY <1>1, BaseFacts
<1>4. /\ cursor = base + a /\ base + a <= sink.len
      /\ \A k \in 0 .. (a - 1) : sink.at[base + k] = StoredByte(layout, k)
      /\ Headed /\ sink.len = Larger(base + a, stale)
  <2>1. /\ cursor = Base(layout) + dataBytes + sent
        /\ Holds(Base(layout), 0, dataBytes + sent) /\ Headed
        /\ SinkEnds(Base(layout) + dataBytes + sent)
    BY <1>1 DEF IInv, PayloadInv
  <2>2. Base(layout) + dataBytes + sent = base + a
    BY <1>1, <1>3
  <2> QED BY <2>1, <2>2 DEF Holds, SinkEnds
<1> HIDE DEF bytes, n, a, base
<1>5. ASSUME Put(bytes), spec' = spec, layout' = layout, stale' = stale
      PROVE  /\ IsBytes(sink') /\ cursor' = base + (a + n) /\ cursor' \in Nat
             /\ Base(layout)' = base /\ Headed'
             /\ \A k : StoredByte(layout, k)' = StoredByte(layout, k)
             /\ base + (a + n) <= sink'.len
             /\ \A k \in 0 .. (a + n - 1) : sink'.at[base + k] = StoredByte(layout, k)
             /\ sink'.len = Larger(base + (a + n), stale)
  <2>1. /\ IsBytes(sink') /\ cursor' = cursor + n /\ cursor' \in Nat
        /\ sink'.len = IF n = 0 THEN sink.len ELSE Larger(sink.len, cursor + n)
        /\ \A i \in cursor .. (cursor + n - 1) : sink'.at[i] = bytes.at[i - cursor]
        /\ \A i \in 0 .. (sink.len - 1) : i < cursor \/ i >= cursor + n => sink'.at[i] = sink.at[i]
    BY <1>1, <1>2, <1>5, PutFacts DEF n
  <2>2. /\ Base(layout)' = base /\ \A k : StoredByte(layout, k)' = StoredByte(layout, k)
    BY <1>5 DEF Base, StoredByte, base
  <2>3. sink'.len = Larger(base + (a + n), stale)
    BY <1>1, <1>2, <1>3, <1>4, <2>1 DEF Larger
  <2>4. Headed'
    <3>1. \A i \in 0 .. (base - 1) : i \in 0 .. (sink.len - 1) /\ i < cursor
      BY <1>1, <1>2, <1>3, <1>4
    <3>2. \A i \in 0 .. (base - 1) : sink'.at[i] = sink.at[i]
      BY <2>1, <3>1
    <3> QED BY <1>4, <1>5, <2>2, <3>2 DEF Headed, base
  <2>5. \A k \in 0 .. (a + n - 1) : sink'.at[base + k] = StoredByte(layout, k)
    <3> SUFFICES ASSUME NEW k \in 0 .. (a + n - 1)
                 PROVE  sink'.at[base + k] = StoredByte(layout, k)
      OBVIOUS
    <3>1. CASE k < a
      <4>1. k \in 0 .. (a - 1) /\ base + k \in 0 .. (sink.len - 1) /\ base + k < cursor
        BY <1>1, <1>2, <1>3, <1>4, <3>1
      <4> QED BY <1>4, <2>1, <4>1
    <3>2. CASE k >= a
      <4>1. k - a \in 0 .. (n - 1) /\ a + (k - a) = k
        BY <1>2, <3>2
      <4>2. base + k \in cursor .. (cursor + n - 1) /\ (base + k) - cursor = k - a
        BY <1>2, <1>3, <1>4, <4>1
      <4> QED BY <1>2, <2>1, <4>1, <4>2
    <3> QED BY <1>2, <3>1, <3>2
  <2>6. cursor' = base + (a + n)
    BY <1>2, <1>3, <1>4, <2>1
  <2>7. base + (a + n) <= sink'.len
    BY <1>1, <1>2, <1>3, <2>3 DEF Larger
  <2> QED BY <2>1, <2>2, <2>3, <2>4, <2>5, <2>6, <2>7
<1>6. CASE /\ Put(bytes) /\ dataBytes + sent + n # next
           /\ sent' = sent + n
           /\ UNCHANGED <<given, wfields, pc, op, next, rest, remaining, scratch,
                          result, faulted>>
  <2>1. /\ spec' = spec /\ asked' = asked /\ stale' = stale /\ readable' = readable
        /\ layout' = layout /\ state' = state /\ dataBytes' = dataBytes /\ pc' = pc
        /\ op' = op /\ next' = next
    BY <1>6 DEF given, wfields
  <2>2. sent' \in Nat /\ dataBytes' + sent' = a + n /\ sent' % spec.width = 0
        /\ dataBytes % spec.width = 0
    <3>1. sent % spec.width = 0 /\ dataBytes % spec.width = 0
      BY DEF IInv, AlignmentInv
    <3> QED BY <1>1, <1>2, <1>6, <2>1, <3>1, SpecFacts, MultipleFacts DEF a
  <2>3. TypeOK'
    BY <1>1, <1>5, <1>6, <2>1, <2>2 DEF TypeOK
  <2>4. ControlInv' /\ LayoutInv' /\ AlignmentInv'
    BY <1>1, <1>2, <1>6, <2>1, <2>2
    DEF IInv, ControlInv, LayoutInv, AlignmentInv, PromoteSteps, FinalizeSteps, CopySteps,
        OnlyIoErrorsAreTerminal, a
  <2>5. PayloadInv'
    <3>1. Base(layout)' + dataBytes' + sent' = base + (a + n)
      BY <1>1, <1>2, <1>3, <1>5, <1>6, <2>1, <2>2
    <3>2. cursor' = Base(layout)' + dataBytes' + sent' /\ Headed'
      BY <1>5, <1>6, <2>1, <3>1
    <3>3. Holds(Base(layout), 0, dataBytes + sent)'
      <4>1. /\ Base(layout)' = base /\ (dataBytes + sent)' = a + n
            /\ base + (a + n) <= sink'.len
            /\ spec' = spec /\ layout' = layout
            /\ \A k \in 0 .. (a + n - 1) : sink'.at[base + k] = StoredByte(layout, k)
        BY <1>5, <1>6, <2>1, <2>2
      <4> QED BY <1>2, <1>3, <4>1 DEF Holds, StoredByte
    <3>4. SinkEnds(Base(layout) + dataBytes + sent)'
      BY <1>5, <1>6, <2>1, <3>1 DEF SinkEnds
    <3> QED BY <1>1, <2>1, <3>2, <3>3, <3>4 DEF PayloadInv
  <2>6. PromoteInv' /\ FinalInv'
    BY <1>1, <2>1 DEF PromoteInv, RelocationKeepsPayload, PromoteSteps, CopySteps,
                      FinalInv, FinalizeSteps
  <2>7. SizeInv'
    BY <1>1, <2>1 DEF IInv, SizeInv
  <2> QED BY <2>3, <2>4, <2>5, <2>6, <2>7 DEF IInv
<1>7. CASE /\ Put(bytes) /\ dataBytes + sent + n = next
           /\ dataBytes' = next /\ state' = "Open"
           /\ IF op = "f32"
              THEN /\ pc' = "part" /\ next' = 0 /\ sent' = 0
                   /\ UNCHANGED <<op, rest, remaining, scratch, result>>
              ELSE Return("Ok")
           /\ UNCHANGED <<given, layout, faulted>>
  <2>1. /\ spec' = spec /\ asked' = asked /\ stale' = stale /\ readable' = readable
        /\ layout' = layout /\ next' = 0 /\ sent' = 0
        /\ pc' \in {"idle", "part"} /\ (pc' = "idle" => op' = "none")
        /\ (pc' = "part" => op' = "f32")
        /\ IsBytes(scratch') /\ rest' \in Nat /\ remaining' \in Nat /\ result' \in Results
        /\ dataBytes' = a + n /\ a + n = next
    BY <1>1, <1>7, NoBytesFacts DEF given, Return, TypeOK, Results, a
  <2>2. TypeOK'
    BY <1>1, <1>2, <1>5, <1>7, <2>1 DEF TypeOK, States, Steps, Methods
  <2>3. ControlInv' /\ LayoutInv'
    BY <1>7, <2>1 DEF IInv, ControlInv, LayoutInv, PromoteSteps, FinalizeSteps, CopySteps,
                      OnlyIoErrorsAreTerminal
  <2>4. AlignmentInv'
    <3>1. (a + n) % spec.width = 0
      BY <1>1, <1>2, SpecFacts, MultipleFacts
    <3> QED BY <1>1, <2>1, <3>1, ZeroAligned DEF AlignmentInv, PromoteSteps
  <2>5. PayloadInv'
    <3>1. Base(layout)' + dataBytes' = base + (a + n)
      BY <1>5, <1>7, <2>1
    <3>2. cursor' = Base(layout)' + dataBytes' /\ Headed'
      BY <1>5, <1>7, <2>1, <3>1
    <3>3. Holds(Base(layout), 0, dataBytes)'
      <4>1. /\ Base(layout)' = base /\ dataBytes' = a + n
            /\ base + (a + n) <= sink'.len
            /\ spec' = spec /\ layout' = layout
            /\ \A k \in 0 .. (a + n - 1) : sink'.at[base + k] = StoredByte(layout, k)
        BY <1>5, <1>7, <2>1
      <4> QED BY <1>2, <1>3, <4>1 DEF Holds, StoredByte
    <3>4. SinkEnds(Base(layout) + dataBytes)'
      BY <1>5, <1>7, <2>1, <3>1 DEF SinkEnds
    <3> QED BY <1>7, <2>1, <3>2, <3>3, <3>4 DEF PayloadInv
  <2>6. PromoteInv' /\ FinalInv'
    BY <1>7, <2>1 DEF PromoteInv, RelocationKeepsPayload, PromoteSteps, CopySteps,
                      FinalInv, FinalizeSteps
  <2>7. SizeInv'
    BY <1>1, <1>7, <2>1 DEF IInv, SizeInv, PromoteSteps, FinalizeSteps
  <2> QED BY <2>2, <2>3, <2>4, <2>5, <2>6, <2>7 DEF IInv
<1>8. CASE PutFails(bytes)
  BY <1>1, <1>2, <1>8, ErrorStep, PutFailsFacts
<1> QED BY <1>6, <1>7, <1>8 DEF WritePayload, bytes, n

-----------------------------------------------------------------------------
(* Finalization. *)
LEMMA FinalContext ==
  ASSUME IInv, pc \in FinalizeSteps
  PROVE  /\ TypeOK /\ state = "Failed" /\ layout \in Layouts /\ spec \in Specs
         /\ op \in {"finalize", "drop"}
         /\ dataBytes \in Nat /\ sink.len \in Nat /\ stale \in Nat /\ cursor \in Nat
         /\ Base(layout) \in Nat /\ Base(layout) > 0
         /\ FileLen(layout, spec, dataBytes) = Base(layout) + dataBytes + Pad(dataBytes)
         /\ FileLen(layout, spec, dataBytes) \in Nat /\ Pad(dataBytes) \in {0, 1}
         /\ Base(layout) + dataBytes <= sink.len
         /\ \A k \in 0 .. (dataBytes - 1) : sink.at[Base(layout) + k] = StoredByte(layout, k)
<1>1. /\ TypeOK /\ state = "Failed" /\ layout \in Layouts /\ spec \in Specs
      /\ op \in {"finalize", "drop"}
      /\ dataBytes \in Nat /\ sink.len \in Nat /\ stale \in Nat /\ cursor \in Nat
  BY DEF IInv, ControlInv, TypeOK, IsBytes
<1>2. Base(layout) \in Nat /\ Base(layout) > 0 /\ HeaderLength(layout, spec) = Base(layout)
  BY <1>1, BaseFacts
<1>3. Pad(dataBytes) \in {0, 1}
  BY <1>1, PadFacts
<1>4. Holds(Base(layout), 0, dataBytes)
  BY DEF IInv, FinalInv
<1> QED BY <1>1, <1>2, <1>3, <1>4 DEF FileLen, Holds

LEMMA FinalFrame ==
  ASSUME IInv, pc \in FinalizeSteps, pc' \in FinalizeSteps,
         UNCHANGED <<given, wfields, op, locals, result, faulted>>,
         TypeOK', FinalInv'
  PROVE  IInv'
<1>1. /\ spec' = spec /\ asked' = asked /\ stale' = stale /\ readable' = readable
      /\ layout' = layout /\ state' = state /\ dataBytes' = dataBytes /\ sent' = sent
      /\ state = "Failed"
  BY FinalContext DEF given, wfields, locals
<1>2. ControlInv'
  BY <1>1 DEF IInv, ControlInv, PromoteSteps, FinalizeSteps, CopySteps, OnlyIoErrorsAreTerminal
<1>3. LayoutInv' /\ AlignmentInv'
  BY <1>1 DEF IInv, LayoutInv, AlignmentInv, PromoteSteps, FinalizeSteps
<1>4. PayloadInv' /\ PromoteInv'
  BY <1>1 DEF PayloadInv, PromoteInv, RelocationKeepsPayload, PromoteSteps, CopySteps,
              FinalizeSteps
<1>5. SizeInv'
  BY <1>1 DEF IInv, SizeInv, PromoteSteps, FinalizeSteps
<1> QED BY <1>2, <1>3, <1>4, <1>5 DEF IInv

LEMMA FinalizePadStep == IInv /\ FinalizePad => IInv'
<1> SUFFICES ASSUME IInv, FinalizePad PROVE IInv'
  OBVIOUS
<1> DEFINE padding == Repeat(Zero, 1)
           base == Base(layout)
           end == FileLen(layout, spec, dataBytes)
<1>1. pc = "pad" /\ pc \in FinalizeSteps
  BY DEF FinalizePad, FinalizeSteps
<1>2. /\ TypeOK /\ state = "Failed" /\ dataBytes \in Nat /\ sink.len \in Nat /\ stale \in Nat
      /\ base \in Nat /\ base + dataBytes <= sink.len
      /\ \A k \in 0 .. (dataBytes - 1) : sink.at[base + k] = StoredByte(layout, k)
  BY <1>1, FinalContext
<1>3. /\ cursor = base + dataBytes /\ end = cursor + 1 /\ Pad(dataBytes) = 1
      /\ sink.len = Larger(base + dataBytes, stale)
  <2>1. /\ cursor = base + dataBytes /\ Pad(dataBytes) = 1
        /\ sink.len = Larger(base + dataBytes, stale)
    BY <1>1 DEF IInv, FinalInv, SinkEnds
  <2>2. end = base + dataBytes + Pad(dataBytes)
    BY <1>1, FinalContext
  <2> QED BY <2>1, <2>2
<1>4. IsBytes(padding) /\ padding.len = 1 /\ padding.at[0] = Zero
  <2>1. Zero \in Cells
    BY DEF Zero, Cells, Kinds
  <2> QED BY <2>1, RepeatFacts
<1> HIDE DEF padding, base, end
<1>5. CASE Put(padding) /\ Goto("finSeek") /\ UNCHANGED <<given, wfields, locals>>
  <2>1. /\ spec' = spec /\ layout' = layout /\ stale' = stale /\ dataBytes' = dataBytes
        /\ state' = "Failed" /\ pc' = "finSeek" /\ op' = op /\ result' = result
        /\ faulted' = faulted
    BY <1>2, <1>5 DEF Goto, given, wfields
  <2>2. /\ IsBytes(sink') /\ cursor' \in Nat /\ sink'.len = Larger(sink.len, cursor + 1)
        /\ sink'.at[cursor] = Zero
        /\ \A i \in 0 .. (sink.len - 1) : i < cursor => sink'.at[i] = sink.at[i]
    <3>1. /\ IsBytes(sink') /\ cursor' \in Nat
          /\ sink'.len = IF padding.len = 0 THEN sink.len ELSE Larger(sink.len, cursor + padding.len)
          /\ \A i \in cursor .. (cursor + padding.len - 1) : sink'.at[i] = padding.at[i - cursor]
          /\ \A i \in 0 .. (sink.len - 1) :
               i < cursor \/ i >= cursor + padding.len => sink'.at[i] = sink.at[i]
      BY <1>2, <1>4, <1>5, PutFacts
    <3>2. cursor \in Nat /\ cursor \in cursor .. (cursor + 1 - 1) /\ cursor - cursor = 0
      BY <1>2, <1>3
    <3> QED BY <1>4, <3>1, <3>2
  <2>3. TypeOK'
    BY <1>2, <1>5, <2>1, <2>2 DEF TypeOK, given, wfields, locals, Steps, FinalizeSteps
  <2>4. sink'.len = Larger(end, stale)
    BY <1>2, <1>3, <2>2 DEF Larger
  <2>5. /\ base + dataBytes <= sink'.len
        /\ \A k \in 0 .. (dataBytes - 1) : sink'.at[base + k] = StoredByte(layout, k)
    <3>1. \A k \in 0 .. (dataBytes - 1) : base + k \in 0 .. (sink.len - 1) /\ base + k < cursor
      BY <1>2, <1>3
    <3> QED BY <1>2, <1>3, <2>2, <2>4, <3>1 DEF Larger
  <2>6. Base(layout)' = base /\ FileLen(layout, spec, dataBytes)' = end
    BY <2>1 DEF Base, FileLen, base, end
  <2>7. Holds(Base(layout), 0, dataBytes)'
    BY <1>2, <2>1, <2>5, <2>6 DEF Holds, StoredByte
  <2>8. sink'.at[end - 1] = Zero
    BY <1>2, <1>3, <2>2
  <2>9. FinalInv'
    BY <2>1, <2>4, <2>6, <2>7, <2>8 DEF FinalInv, FinalizeSteps, SinkEnds
  <2> QED BY <1>1, <1>5, <2>1, <2>3, <2>9, FinalFrame DEF FinalizeSteps, Goto
<1>6. CASE PutFails(padding)
  BY <1>2, <1>4, <1>6, ErrorStep, PutFailsFacts
<1> QED BY <1>5, <1>6 DEF FinalizePad, padding

LEMMA FinalizeSeekStep == IInv /\ FinalizeSeek => IInv'
<1> SUFFICES ASSUME IInv, FinalizeSeek PROVE IInv'
  OBVIOUS
<1>1. pc = "finSeek" /\ pc \in FinalizeSteps /\ TypeOK /\ state = "Failed"
  BY FinalContext DEF FinalizeSeek, FinalizeSteps
<1>2. CASE Seek(0) /\ Goto("finHeader") /\ UNCHANGED <<given, wfields, locals>>
  <2>1. TypeOK'
    BY <1>1, <1>2 DEF TypeOK, Seek, Goto, given, wfields, locals, Steps, FinalizeSteps
  <2>2. FinalInv'
    BY <1>1, <1>2 DEF IInv, FinalInv, FinalizeSteps, Seek, Goto, given, wfields, locals,
                      Base, Holds, StoredByte, SinkEnds, HeadedBy, FileLen
  <2> QED BY <1>1, <1>2, <2>1, <2>2, FinalFrame DEF FinalizeSteps, Goto
<1>3. CASE SeekFails
  BY <1>1, <1>3, ErrorStep DEF SeekFails, TypeOK
<1> QED BY <1>2, <1>3 DEF FinalizeSeek

LEMMA FinalizeHeaderStep == IInv /\ FinalizeHeader => IInv'
<1> SUFFICES ASSUME IInv, FinalizeHeader PROVE IInv'
  OBVIOUS
<1> DEFINE header == HeaderBytes(layout, dataBytes)
           base == Base(layout)
           end == FileLen(layout, spec, dataBytes)
<1>1. pc = "finHeader" /\ pc \in FinalizeSteps
  BY DEF FinalizeHeader, FinalizeSteps
<1>2. /\ TypeOK /\ state = "Failed" /\ layout \in Layouts /\ spec \in Specs
      /\ dataBytes \in Nat /\ sink.len \in Nat /\ stale \in Nat
      /\ base \in Nat /\ base > 0 /\ end = base + dataBytes + Pad(dataBytes)
      /\ end \in Nat /\ Pad(dataBytes) \in {0, 1} /\ base + dataBytes <= sink.len
      /\ \A k \in 0 .. (dataBytes - 1) : sink.at[base + k] = StoredByte(layout, k)
  BY <1>1, FinalContext
<1>3. /\ cursor = 0 /\ sink.len = Larger(end, stale)
      /\ Pad(dataBytes) = 1 => sink.at[end - 1] = Zero
  BY <1>1 DEF IInv, FinalInv, SinkEnds, FinalizeSteps
<1>4. /\ IsBytes(header) /\ header.len = base
      /\ \A i \in 0 .. (base - 1) : header.at[i] = Hdr(layout, dataBytes)
  BY <1>2, HeaderBytesFacts
<1> HIDE DEF header, base, end
<1>5. CASE Put(header) /\ Goto("finEnd") /\ UNCHANGED <<given, wfields, locals>>
  <2>1. /\ spec' = spec /\ layout' = layout /\ stale' = stale /\ dataBytes' = dataBytes
        /\ state' = "Failed" /\ pc' = "finEnd" /\ op' = op /\ result' = result
        /\ faulted' = faulted
    BY <1>2, <1>5 DEF Goto, given, wfields
  <2>2. /\ IsBytes(sink') /\ cursor' \in Nat /\ sink'.len = Larger(sink.len, base)
        /\ \A i \in 0 .. (base - 1) : sink'.at[i] = header.at[i]
        /\ \A i \in 0 .. (sink.len - 1) : i >= base => sink'.at[i] = sink.at[i]
    <3>1. /\ IsBytes(sink') /\ cursor' \in Nat
          /\ sink'.len = IF header.len = 0 THEN sink.len ELSE Larger(sink.len, cursor + header.len)
          /\ \A i \in cursor .. (cursor + header.len - 1) : sink'.at[i] = header.at[i - cursor]
          /\ \A i \in 0 .. (sink.len - 1) :
               i < cursor \/ i >= cursor + header.len => sink'.at[i] = sink.at[i]
      BY <1>2, <1>4, <1>5, PutFacts
    <3>2. cursor + header.len = base /\ \A i \in 0 .. (base - 1) : i - cursor = i
      BY <1>2, <1>3, <1>4
    <3> QED BY <1>2, <1>3, <1>4, <3>1, <3>2
  <2>3. TypeOK'
    BY <1>2, <1>5, <2>1, <2>2 DEF TypeOK, given, wfields, locals, Steps, FinalizeSteps
  <2>4. sink'.len = sink.len
    BY <1>2, <2>2 DEF Larger
  <2>5. Base(layout)' = base /\ FileLen(layout, spec, dataBytes)' = end
    BY <2>1 DEF Base, FileLen, base, end
  <2>6. Holds(Base(layout), 0, dataBytes)'
    <3>1. \A k \in 0 .. (dataBytes - 1) : base + k \in 0 .. (sink.len - 1) /\ base + k >= base
      BY <1>2
    <3>2. \A k \in 0 .. (dataBytes - 1) : sink'.at[base + k] = StoredByte(layout, k)
      BY <1>2, <2>2, <3>1
    <3>3. base + dataBytes <= sink'.len
      BY <1>2, <2>4
    <3> QED BY <2>1, <2>5, <3>2, <3>3 DEF Holds, StoredByte
  <2>7. Pad(dataBytes) = 1 => sink'.at[end - 1] = Zero
    <3> SUFFICES ASSUME Pad(dataBytes) = 1 PROVE sink'.at[end - 1] = Zero
      OBVIOUS
    <3>1. end - 1 \in 0 .. (sink.len - 1) /\ end - 1 >= base
      BY <1>2, <1>3 DEF Larger
    <3> QED BY <1>3, <2>2, <3>1
  <2>8. HeadedBy(layout, dataBytes)'
    BY <1>4, <2>1, <2>2, <2>5 DEF HeadedBy
  <2>9. FinalInv'
    BY <1>3, <2>1, <2>4, <2>5, <2>6, <2>7, <2>8 DEF FinalInv, FinalizeSteps, SinkEnds
  <2> QED BY <1>1, <1>5, <2>1, <2>3, <2>9, FinalFrame DEF FinalizeSteps, Goto
<1>6. CASE PutFails(header)
  BY <1>2, <1>4, <1>6, ErrorStep, PutFailsFacts
<1> QED BY <1>5, <1>6 DEF FinalizeHeader, header

LEMMA FinalizeEndStep == IInv /\ FinalizeEnd => IInv'
<1> SUFFICES ASSUME IInv, FinalizeEnd PROVE IInv'
  OBVIOUS
<1> DEFINE end == FileLen(layout, spec, dataBytes)
<1>1. pc = "finEnd" /\ pc \in FinalizeSteps /\ TypeOK /\ state = "Failed" /\ end \in Nat
  BY FinalContext DEF FinalizeEnd, FinalizeSteps
<1>2. CASE Seek(end) /\ Goto("flush") /\ UNCHANGED <<given, wfields, locals>>
  <2>1. TypeOK'
    BY <1>1, <1>2 DEF TypeOK, Seek, Goto, given, wfields, locals, Steps, FinalizeSteps
  <2>2. FinalInv'
    BY <1>1, <1>2 DEF IInv, FinalInv, FinalizeSteps, Seek, Goto, given, wfields, locals,
                      Base, Holds, StoredByte, SinkEnds, HeadedBy, FileLen
  <2> QED BY <1>1, <1>2, <2>1, <2>2, FinalFrame DEF FinalizeSteps, Goto
<1>3. CASE SeekFails
  BY <1>1, <1>3, ErrorStep DEF SeekFails, TypeOK
<1> QED BY <1>2, <1>3 DEF FinalizeEnd

LEMMA FinalizeFlushStep == IInv /\ FinalizeFlush => IInv'
<1> SUFFICES ASSUME IInv, FinalizeFlush PROVE IInv'
  OBVIOUS
<1>1. pc = "flush" /\ pc \in FinalizeSteps /\ TypeOK /\ state = "Failed"
  BY FinalContext DEF FinalizeFlush, FinalizeSteps
<1>2. CASE /\ state' = "Finalized" /\ Return("Ok")
           /\ UNCHANGED <<sink, cursor, given, layout, dataBytes, faulted>>
  <2>1. /\ pc' \in {"idle", "gone"} /\ op' = "none" /\ result' = "Ok" /\ faulted' = faulted
        /\ next' = 0 /\ sent' = 0 /\ rest' = 0 /\ remaining' = 0 /\ scratch' = NoBytes
        /\ sink' = sink /\ cursor' = cursor
        /\ layout' = layout /\ state' = "Finalized" /\ dataBytes' = dataBytes
        /\ readable' = readable /\ spec' = spec /\ asked' = asked /\ stale' = stale
    BY <1>2 DEF Return, given
  <2>2. TypeOK'
    BY <1>1, <2>1, NoBytesFacts DEF TypeOK, States, Methods, Results
  <2>3. ControlInv'
    BY <2>1 DEF ControlInv, PromoteSteps, FinalizeSteps, CopySteps, OnlyIoErrorsAreTerminal
  <2>4. LayoutInv'
    BY <2>1 DEF IInv, LayoutInv
  <2>5. AlignmentInv'
    BY <1>1, <2>1, ZeroAligned DEF IInv, TypeOK, AlignmentInv, PromoteSteps
  <2>6. PayloadInv' /\ PromoteInv'
    BY <2>1 DEF PayloadInv, PromoteInv, RelocationKeepsPayload, PromoteSteps, CopySteps
  <2>7. FinalInv'
    BY <1>1, <2>1 DEF IInv, FinalInv, FinalizeSteps, Base, Holds, StoredByte, SinkEnds,
                      HeadedBy, FileLen
  <2>8. SizeInv'
    BY <1>1, <2>1 DEF IInv, SizeInv, PromoteSteps, FinalizeSteps
  <2> QED BY <2>2, <2>3, <2>4, <2>5, <2>6, <2>7, <2>8 DEF IInv
<1>3. CASE SeekFails
  BY <1>1, <1>3, ErrorStep DEF SeekFails, TypeOK
<1> QED BY <1>2, <1>3 DEF FinalizeFlush

LEMMA FinishStep == IInv /\ FinishFile => IInv'
BY FinalizePadStep, FinalizeSeekStep, FinalizeHeaderStep, FinalizeEndStep, FinalizeFlushStep
   DEF FinishFile

-----------------------------------------------------------------------------
(* Every step of the writer, and stuttering, keeps the invariant.            *)
LEMMA UnchangedStep == IInv /\ UNCHANGED vars => IInv'
<1> SUFFICES ASSUME IInv, UNCHANGED vars PROVE IInv'
  OBVIOUS
<1>1. /\ sink' = sink /\ cursor' = cursor /\ readable' = readable /\ spec' = spec
      /\ asked' = asked /\ stale' = stale /\ layout' = layout /\ state' = state
      /\ dataBytes' = dataBytes /\ pc' = pc /\ op' = op /\ next' = next /\ sent' = sent
      /\ rest' = rest /\ remaining' = remaining /\ scratch' = scratch
      /\ result' = result /\ faulted' = faulted
  BY DEF vars, given, wfields, locals
<1>2. TypeOK' /\ ControlInv' /\ LayoutInv' /\ AlignmentInv' /\ SizeInv'
  BY <1>1 DEF IInv, TypeOK, ControlInv, LayoutInv, AlignmentInv, SizeInv,
              OnlyIoErrorsAreTerminal
<1>3. PayloadInv' /\ FinalInv'
  BY <1>1 DEF IInv, PayloadInv, FinalInv, Base, Holds, StoredByte, SinkEnds, Headed,
              HeadedBy, FileLen
<1>4. PromoteInv'
  BY <1>1 DEF IInv, PromoteInv, RelocationKeepsPayload, Base, Holds, StoredByte, SinkEnds,
              HeadedBy, CopyLen, CopyFrom, CopyTo
<1> QED BY <1>2, <1>3, <1>4 DEF IInv

LEMMA NextStep == IInv /\ [Next]_vars => IInv'
<1> SUFFICES ASSUME IInv, [Next]_vars PROVE IInv'
  OBVIOUS
<1>1. CASE Construct
  BY <1>1, ConstructStep
<1>2. CASE Call
  BY <1>2, CallStep
<1>3. CASE Run
  BY <1>3, StartPositionStep, StartHeaderStep, F32PartStep, PromoteStep, WritePayloadStep,
     FinishStep DEF Run
<1>4. CASE UNCHANGED vars
  BY <1>4, UnchangedStep
<1> QED BY <1>1, <1>2, <1>3, <1>4 DEF Next

(* Inductive: IInv holds in every state the writer reaches, whatever calls are *)
(* made and whichever I/O calls fail.                                         *)
THEOREM Inductive == Spec => []IInv
<1>1. Init => IInv
  BY InitInv
<1>2. IInv /\ [Next]_vars => IInv'
  BY NextStep
<1> QED BY <1>1, <1>2, PTL DEF Spec

-----------------------------------------------------------------------------
(* The properties that follow from the invariant.                            *)

(* TypeCorrect: every variable of WavWriter and of its sink keeps its type.   *)
THEOREM TypeCorrect == Spec => []TypeOK
<1>1. IInv => TypeOK
  BY DEF IInv
<1> QED BY <1>1, Inductive, PTL

(* RelocationSafe: promote_to_rf64 never loses an accepted byte, for every     *)
(* payload, scratch size and distance between the two headers.               *)
THEOREM RelocationSafe == Spec => []RelocationKeepsPayload
<1>1. IInv => RelocationKeepsPayload
  BY DEF IInv, PromoteInv
<1> QED BY <1>1, Inductive, PTL

(* PromotionReadable: only a file that was opened for reading is promoted.    *)
THEOREM PromotionReadable == Spec => []PromotionCanRead
<1>1. IInv => PromotionCanRead
  <2> SUFFICES ASSUME IInv, pc \in PromoteSteps PROVE readable
    BY DEF PromotionCanRead
  <2>1. layout \in {"Riff", "Extensible"}
    BY DEF IInv, ControlInv
  <2>2. asked \in {"Riff", "Extensible"}
    BY <2>1 DEF IInv, LayoutInv, Promoted
  <2> QED BY <2>2 DEF IInv, LayoutInv
<1> QED BY <1>1, Inductive, PTL

(* OpenPositioned: whenever write_pcm, write_f32_samples or start returns with *)
(* the writer open, the payload is whole, behind its header, and the cursor   *)
(* stands at its end.                                                       *)
THEOREM OpenPositioned == Spec => []OpenWriterIsPositioned
<1>1. IInv => OpenWriterIsPositioned
  BY DEF IInv, PayloadInv, OpenWriterIsPositioned, Headed
<1> QED BY <1>1, Inductive, PTL

(* What is 32-bit overflow of a classic layout, in terms of the file length.  *)
LEMMA OverflowMeans ==
  ASSUME spec \in Specs, NEW l \in Layouts, NEW d \in Nat
  PROVE  /\ l \in Classic => (Overflows(l, spec, d) <=> FileLen(l, spec, d) - Marker > SizeMax)
         /\ Prefix(l, spec) + d + Pad(d) + Marker = FileLen(l, spec, d)
         /\ d <= Prefix(l, spec) + d + Pad(d)
         /\ l \notin Classic => ~Overflows(l, spec, d)
<1>1. Pad(d) \in Nat
  BY PadFacts
<1>2. Base(l) \in Nat /\ HeaderLength(l, spec) = Base(l) /\ Prefix(l, spec) = Base(l) - Marker
      /\ Prefix(l, spec) \in Nat /\ Marker \in Nat /\ SizeMax \in Nat
  BY BaseFacts, LayoutAssumption
<1> QED BY <1>1, <1>2 DEF Overflows, FileLen

(* PromotedRight: an open or finalized writer uses RF64 exactly if the file    *)
(* outgrew the 32-bit sizes of the layout it was asked for.                  *)
THEOREM PromotedRight == Spec => []PromotedExactlyWhenNeeded
<1>1. IInv => PromotedExactlyWhenNeeded
  <2> SUFFICES ASSUME IInv, state \in {"Open", "Finalized"}
               PROVE  IF asked \in Classic /\ FileLen(asked, spec, dataBytes) - Marker > SizeMax
                      THEN asked # "Rifx" /\ layout = Promoted(asked)
                      ELSE layout = asked
    BY DEF PromotedExactlyWhenNeeded
  <2>1. spec \in Specs /\ asked \in Layouts /\ dataBytes \in Nat
    BY DEF IInv, TypeOK, UserLayouts
  <2>2. /\ ~Overflows(layout, spec, dataBytes)
        /\ layout # asked => Overflows(asked, spec, dataBytes)
    BY DEF IInv, SizeInv
  <2>3. layout = asked \/ (asked \in {"Riff", "Extensible"} /\ layout = Promoted(asked))
    BY DEF IInv, LayoutInv
  <2>4. asked \in Classic =>
          (Overflows(asked, spec, dataBytes) <=> FileLen(asked, spec, dataBytes) - Marker > SizeMax)
    BY <2>1, OverflowMeans
  <2> QED BY <2>2, <2>3, <2>4 DEF Classic
<1> QED BY <1>1, Inductive, PTL

(* FinalizeNeverTooLarge: write_pcm accepts no payload whose header finalize   *)
(* could not write.                                                         *)
THEOREM FinalizeNeverTooLarge == Spec => []OpenWriterCanFinalize
<1>1. IInv => OpenWriterCanFinalize
  <2> SUFFICES ASSUME IInv, state = "Open" PROVE HeaderFits(layout, spec, dataBytes)
    BY DEF OpenWriterCanFinalize
  <2>1. spec \in Specs /\ layout \in Layouts /\ dataBytes \in Nat
    BY DEF IInv, TypeOK
  <2>2. /\ ~Overflows(layout, spec, dataBytes) /\ FileLenFits(layout, spec, dataBytes)
        /\ spec.valid
    BY DEF IInv, SizeInv
  <2>3. layout \in Classic => Prefix(layout, spec) + dataBytes + Pad(dataBytes) <= SizeMax
    <3>1. Prefix(layout, spec) \in Nat /\ Pad(dataBytes) \in Nat /\ SizeMax \in Nat
      BY <2>1, BaseFacts, PadFacts, LayoutAssumption
    <3> QED BY <2>1, <2>2, <3>1 DEF Overflows
  <2>4. layout \in Classic => dataBytes <= SizeMax
    <3>1. Prefix(layout, spec) \in Nat /\ Pad(dataBytes) \in Nat /\ SizeMax \in Nat
      BY <2>1, BaseFacts, PadFacts, LayoutAssumption
    <3> QED BY <2>1, <2>3, <3>1
  <2> QED BY <2>2, <2>3, <2>4 DEF HeaderFits
<1> QED BY <1>1, Inductive, PTL

(* FinalizedComplete: a finalized file is what the one-shot encoder of the     *)
(* asked layout would have written for the same payload.                     *)
THEOREM FinalizedComplete == Spec => []FinalizedFileIsComplete
<1>1. IInv => FinalizedFileIsComplete
  <2> SUFFICES ASSUME IInv, state = "Finalized" PROVE FinalizedFileIsComplete
    BY DEF FinalizedFileIsComplete
  <2>1. spec \in Specs /\ layout \in Layouts /\ asked \in Layouts /\ dataBytes \in Nat
    BY DEF IInv, TypeOK, UserLayouts
  <2>2. layout = OneShotLayout(asked, spec, dataBytes)
    <3>1. /\ ~Overflows(layout, spec, dataBytes)
          /\ layout # asked => Overflows(asked, spec, dataBytes)
      BY DEF IInv, SizeInv
    <3>2. layout = asked \/ (asked \in {"Riff", "Extensible"} /\ layout = Promoted(asked))
      BY DEF IInv, LayoutInv
    <3> QED BY <3>1, <3>2 DEF OneShotLayout
  <2>3. HeaderSizes(layout, spec, dataBytes).riff + Marker = FileLen(layout, spec, dataBytes)
    <3>1. FileLen(layout, spec, dataBytes) \in Nat /\ Marker \in Nat
      <4>1. Base(layout) \in Nat /\ HeaderLength(layout, spec) = Base(layout)
        BY <2>1, BaseFacts
      <4> QED BY <2>1, <4>1, PadFacts, LayoutAssumption DEF FileLen
    <3>2. Prefix(layout, spec) + dataBytes + Pad(dataBytes) + Marker
            = FileLen(layout, spec, dataBytes)
      BY <2>1, OverflowMeans
    <3> QED BY <3>1, <3>2 DEF HeaderSizes
  <2>4. /\ HeadedBy(layout, dataBytes) /\ Holds(Base(layout), 0, dataBytes)
        /\ Pad(dataBytes) = 1 => sink.at[FileLen(layout, spec, dataBytes) - 1] = Zero
        /\ SinkEnds(FileLen(layout, spec, dataBytes))
        /\ cursor = FileLen(layout, spec, dataBytes)
    BY DEF IInv, FinalInv
  <2> QED BY <2>2, <2>3, <2>4 DEF FinalizedFileIsComplete, HeadedBy, SinkEnds
<1> QED BY <1>1, Inductive, PTL

(* RefusalsRecoverable: a writer is lost only to a failed I/O call.            *)
THEOREM RefusalsRecoverable == Spec => []OnlyIoErrorsAreTerminal
<1>1. IInv => OnlyIoErrorsAreTerminal
  BY DEF IInv, ControlInv
<1> QED BY <1>1, Inductive, PTL

(* FailureStays: no call revives a writer that failed, and none touches what   *)
(* it left in the sink.                                                     *)
THEOREM FailureStays == Spec => FailureIsTerminal
<1>1. [Next]_vars =>
        [pc = "idle" /\ state = "Failed" =>
           /\ state' = "Failed" /\ UNCHANGED <<sink, cursor, dataBytes>>
           /\ pc' = "gone" \/ result' = "InvalidOperation"]_vars
  <2> SUFFICES ASSUME Next, pc = "idle", state = "Failed"
               PROVE  /\ state' = "Failed" /\ UNCHANGED <<sink, cursor, dataBytes>>
                      /\ pc' = "gone" \/ result' = "InvalidOperation"
    OBVIOUS
  <2>1. ASSUME Refuse("InvalidOperation")
        PROVE  /\ state' = "Failed" /\ UNCHANGED <<sink, cursor, dataBytes>>
               /\ result' = "InvalidOperation"
    BY <2>1 DEF Refuse, Return, wfields
  <2>2. CASE WritePcmCall
    <3>1. PICK n \in 0 .. MaxCall : WritePcm("pcm", n, 0)
      BY <2>2 DEF WritePcmCall
    <3>2. PcmVerdict(n) = "InvalidOperation"
      BY DEF PcmVerdict
    <3> QED BY <2>1, <3>1, <3>2 DEF WritePcm
  <2>3. CASE WriteF32Call
    <3>1. \A n : F32Verdict(n) = "InvalidOperation"
      BY DEF F32Verdict
    <3> QED BY <2>1, <2>3, <3>1 DEF WriteF32Call
  <2>4. CASE Finalize
    <3>1. FinalizeVerdict = "InvalidOperation"
      BY DEF FinalizeVerdict
    <3> QED BY <2>1, <2>4, <3>1 DEF Finalize
  <2>5. CASE Drop
    BY <2>5 DEF Drop, wfields
  <2>6. ~Construct
    BY DEF Construct, Starts, RefuseSpec, CreateFile, OpenFails, NewOnSink
  <2>7. ~Run
    BY DEF Run, StartPosition, StartHeader, F32Part, WritePayload, Promote, FinishFile,
           PromoteReadSeek, PromoteRead, PromoteWriteSeek, PromoteWrite, PromoteHeadSeek,
           PromoteHeadWrite, PromoteTailSeek, FinalizePad, FinalizeSeek, FinalizeHeader,
           FinalizeEnd, FinalizeFlush
  <2> QED BY <2>2, <2>3, <2>4, <2>5, <2>6, <2>7 DEF Next, Call
<1> QED BY <1>1, PTL DEF Spec, FailureIsTerminal
-----------------------------------------------------------------------------
(* write_f32_samples: the check of the whole slice covers each chunk.         *)

(* A size that is accepted is accepted for every shorter payload too.         *)
LEMMA VerdictMonotone ==
  ASSUME spec \in Specs, layout \in Layouts, NEW d \in Nat, NEW e \in Nat, d <= e,
         SizeVerdict(e) = "Ok"
  PROVE  SizeVerdict(d) = "Ok"
<1>1. /\ ~(e > WordMax) /\ FileLenFits(Target(e), spec, e)
      /\ ~(layout = "Rifx" /\ Overflows(layout, spec, e))
  BY DEF SizeVerdict
<1>2. ~(d > WordMax)
  BY <1>1, LayoutAssumption
<1>3. Overflows(layout, spec, d) => Overflows(layout, spec, e)
  BY SizeMonotone
<1>4. FileLenFits(Target(d), spec, d)
  <2>1. CASE Target(d) = Target(e)
    <3>1. Target(e) \in Layouts
      BY DEF Target, Promoted, Layouts
    <3> QED BY <1>1, <2>1, <3>1, SizeMonotone
  <2>2. CASE Target(d) # Target(e)
    <3>1. Target(d) = layout /\ Target(e) = Promoted(layout) /\ layout \in Classic
      BY <1>3, <2>2 DEF Target, Overflows
    <3>2. Promoted(layout) \in Layouts
      BY DEF Promoted, Layouts
    <3>3. FileLenFits(Promoted(layout), spec, d)
      BY <1>1, <3>1, <3>2, SizeMonotone
    <3>4. /\ HeaderLength(layout, spec) <= HeaderLength(Promoted(layout), spec)
          /\ HeaderLength(layout, spec) \in Nat /\ HeaderLength(Promoted(layout), spec) \in Nat
      BY <3>1, BaseFacts DEF Base
    <3>5. Pad(d) \in Nat /\ WordMax \in Nat
      BY PadFacts, LayoutAssumption
    <3> QED BY <3>1, <3>3, <3>4, <3>5 DEF FileLenFits, FileLen
  <2> QED BY <2>1, <2>2
<1> QED BY <1>1, <1>2, <1>3, <1>4 DEF SizeVerdict

(* Float samples that make whole frames make whole frames as bytes.           *)
LEMMA SamplesAreFrames ==
  ASSUME spec \in Specs, NEW n \in Nat, n % (spec.frame \div spec.width) = 0
  PROVE  n * spec.width \in Nat /\ (n * spec.width) % spec.frame = 0
<1> DEFINE f == spec.frame
           w == spec.width
           k == f \div w
           m == n \div k
<1>1. f \in Nat \ {0} /\ w \in Nat \ {0} /\ f % w = 0
  BY SpecFacts
<1>2. k \in Nat /\ f = k * w
  BY <1>1, MultipleFacts, DivModFacts
<1>3. k # 0
  <2>1. 0 * w = 0
    BY <1>1
  <2> QED BY <1>1, <1>2, <2>1
<1>4. m \in Nat /\ n = m * k
  BY <1>2, <1>3, MultipleFacts, DivModFacts
<1> HIDE DEF f, w, k, m
<1>5. n * w = m * f
  BY <1>1, <1>2, <1>4, ProductFacts
<1>6. f \in Nat \ {0} /\ f % f = 0
  <2>1. 1 * f + 0 = f
    BY <1>1
  <2>2. (1 * f + 0) % f = 0
    BY <1>1, DivModUnique, 0 \in 0 .. (f - 1)
  <2> QED BY <1>1, <2>1, <2>2
<1>7. (m * f) % f = 0
  BY <1>4, <1>6, MultipleFacts
<1>8. n * w \in Nat /\ (n * w) % f = 0
  BY <1>1, <1>5, <1>7, ProductFacts
<1> QED BY <1>8 DEF f, w

(* A step that leaves layout, specification and what is still to be written   *)
(* alone keeps the verdict.                                                 *)
LEMMA FloatFrame ==
  ASSUME FloatInv, op = "f32", spec' = spec, layout' = layout, rest' = rest,
         (IF pc = "part" THEN dataBytes ELSE next)' = (IF pc = "part" THEN dataBytes ELSE next)
  PROVE  FloatInv'
BY DEF FloatInv, SizeVerdict, Target

LEMMA FloatWritePcm ==
  ASSUME IInv, NEW n \in Nat, NEW left \in Nat, WritePcm("f32", n, left),
         left % spec.frame = 0, SizeVerdict(dataBytes + n + left) = "Ok"
  PROVE  FloatInv'
<1>1. CASE op' = "none"
  BY <1>1 DEF FloatInv
<1>2. CASE op' # "none"
  <2>1. /\ next' = dataBytes + n /\ rest' = left
        /\ pc' \in {"payload", "readSeek", "headSeek"} /\ layout' = layout /\ spec' = spec
    BY <1>2 DEF WritePcm, Refuse, Return, given
  <2>2. next' + rest' = dataBytes + n + left
    BY <2>1
  <2>3. (SizeVerdict(next + rest))' = SizeVerdict(dataBytes + n + left)
    BY <2>1, <2>2 DEF SizeVerdict, Target
  <2> QED BY <2>1, <2>3 DEF FloatInv
<1> QED BY <1>1, <1>2

LEMMA FloatStart == IInv /\ FloatInv /\ WriteF32Call => FloatInv'
<1> SUFFICES ASSUME IInv, FloatInv, WriteF32Call PROVE FloatInv'
  OBVIOUS
<1>1. PICK n \in 0 .. MaxCall :
        IF F32Verdict(n) # "Ok" THEN Refuse(F32Verdict(n))
        ELSE /\ op' = "f32" /\ rest' = n * spec.width /\ pc' = "part"
             /\ UNCHANGED <<sink, cursor, given, wfields, next, sent, remaining,
                            scratch, result, faulted>>
  BY DEF WriteF32Call
<1>2. CASE F32Verdict(n) # "Ok"
  BY <1>1, <1>2 DEF Refuse, Return, FloatInv
<1>3. CASE F32Verdict(n) = "Ok"
  <2>1. /\ n % (spec.frame \div spec.width) = 0
        /\ SizeVerdict(dataBytes + n * spec.width) = "Ok"
    BY <1>3 DEF F32Verdict
  <2>2. n \in Nat /\ spec \in Specs
    BY WriterAssumption DEF IInv, TypeOK
  <2>3. (n * spec.width) % spec.frame = 0
    BY <2>1, <2>2, SamplesAreFrames
  <2>4. /\ rest' = n * spec.width /\ pc' = "part" /\ spec' = spec /\ layout' = layout
        /\ dataBytes' = dataBytes
    BY <1>1, <1>3 DEF given, wfields
  <2>5. (SizeVerdict(dataBytes + rest))' = SizeVerdict(dataBytes + n * spec.width)
    BY <2>4 DEF SizeVerdict, Target
  <2> QED BY <2>1, <2>3, <2>4, <2>5 DEF FloatInv
<1> QED BY <1>2, <1>3

LEMMA ChunkFrames ==
  ASSUME spec \in Specs
  PROVE  ChunkBytes \in Nat /\ ChunkBytes % spec.frame = 0
<1> DEFINE f == spec.frame
           k == ConvScratch \div f
<1>1. f \in Nat \ {0} /\ ConvScratch \in Nat
  BY SpecFacts, WriterAssumption
<1>2. k \in Nat /\ ChunkBytes = k * f
  BY <1>1, DivModFacts DEF ChunkBytes
<1> HIDE DEF f, k
<1>3. k * f \in Nat /\ k * f = k * f + 0
  BY <1>1, <1>2, ProductFacts
<1>4. (k * f + 0) % f = 0
  BY <1>1, <1>2, DivModUnique, 0 \in 0 .. (f - 1)
<1> QED BY <1>2, <1>3, <1>4 DEF f

LEMMA FloatPart == IInv /\ FloatInv /\ F32Part => FloatInv'
<1> SUFFICES ASSUME IInv, FloatInv, F32Part PROVE FloatInv'
  OBVIOUS
<1> DEFINE n == Least(rest, ChunkBytes)
<1>1. pc = "part" /\ op = "f32" /\ rest \in Nat /\ spec \in Specs /\ dataBytes \in Nat
  BY DEF F32Part, IInv, ControlInv, TypeOK
<1>2. CASE rest = 0
  BY <1>2 DEF F32Part, Refuse, Return, FloatInv
<1>3. CASE rest # 0
  <2>1. n \in Nat /\ rest - n \in Nat /\ n % spec.frame = 0
    BY <1>1, ChunkFrames DEF Least, FloatInv
  <2>2. (rest - n) % spec.frame = 0
    BY <1>1, <2>1, SpecFacts, MultipleFacts DEF FloatInv
  <2>3. WritePcm("f32", n, rest - n)
    BY <1>3 DEF F32Part
  <2> HIDE DEF n
  <2>4. dataBytes + n + (rest - n) = dataBytes + rest
    BY <1>1, <2>1
  <2>5. SizeVerdict(dataBytes + n + (rest - n)) = "Ok"
    BY <1>1, <2>4 DEF FloatInv
  <2> QED BY <2>1, <2>2, <2>3, <2>5, FloatWritePcm
<1> QED BY <1>2, <1>3

(* The promotion is over: the verdict was about the promoted layout already.  *)
LEMMA FloatTail == IInv /\ FloatInv /\ PromoteTailSeek => FloatInv'
<1> SUFFICES ASSUME IInv, FloatInv, PromoteTailSeek, op' = "f32" PROVE FloatInv'
  BY DEF FloatInv
<1> DEFINE d == next + rest
<1>1. /\ layout' = Promoted(layout) /\ pc' = "payload" /\ op = "f32"
      /\ spec' = spec /\ next' = next /\ rest' = rest
  BY DEF PromoteTailSeek, SeekFails, IoError, Return, Goto, given, locals
<1>2. /\ pc = "tailSeek" /\ spec \in Specs /\ layout \in Layouts /\ next \in Nat /\ rest \in Nat
      /\ Overflows(layout, spec, next)
  BY DEF PromoteTailSeek, PromoteSteps, IInv, TypeOK, SizeInv
<1>3. d \in Nat /\ Overflows(layout, spec, d)
  BY <1>2, SizeMonotone
<1>4. SizeVerdict(d) = "Ok" /\ rest % spec.frame = 0
  BY <1>1, <1>2 DEF FloatInv
<1>5. ~(d > WordMax) /\ FileLenFits(Promoted(layout), spec, d)
  BY <1>3, <1>4 DEF SizeVerdict, Target
<1> HIDE DEF d
<1>6. Promoted(layout) \notin Classic /\ Promoted(layout) # "Rifx"
  BY DEF Promoted, Classic
<1>7. ~Overflows(Promoted(layout), spec, d)
  BY <1>6 DEF Overflows
<1>8. d' = d
  BY <1>1 DEF d
<1>9. SizeVerdict(d)' = "Ok"
  BY <1>1, <1>5, <1>6, <1>7, <1>8 DEF SizeVerdict, Target
<1> QED BY <1>1, <1>4, <1>9 DEF FloatInv, d

(* The other steps of a running method return, or go on with what is left.    *)
LEMMA FloatRun ==
  IInv /\ FloatInv /\ (StartPosition \/ StartHeader \/ Promote \/ WritePayload \/ FinishFile)
    => FloatInv'
<1> SUFFICES ASSUME IInv, FloatInv, op' = "f32",
                    StartPosition \/ StartHeader \/ Promote \/ WritePayload \/ FinishFile
             PROVE  FloatInv'
  BY DEF FloatInv
<1>1. CASE StartPosition
  BY <1>1 DEF StartPosition, IInv, ControlInv, Goto, Return, SeekFails, IoError
<1>2. CASE StartHeader
  BY <1>2 DEF StartHeader, Return, PutFails, IoError
<1>3. CASE FinishFile
  <2>1. pc \in FinalizeSteps
    BY <1>3 DEF FinishFile, FinalizePad, FinalizeSeek, FinalizeHeader, FinalizeEnd, FinalizeFlush,
                FinalizeSteps
  <2>2. op # "f32"
    BY <2>1 DEF IInv, ControlInv
  <2>3. op' \in {op, "none"}
    BY <1>3 DEF FinishFile, FinalizePad, FinalizeSeek, FinalizeHeader, FinalizeEnd, FinalizeFlush,
                Goto, Return, SeekFails, PutFails, IoError
  <2> QED BY <2>2, <2>3
<1>4. CASE PromoteTailSeek
  BY <1>4, FloatTail
<1>5. CASE Promote /\ ~PromoteTailSeek
  <2>1. /\ pc \in PromoteSteps /\ pc' # "part" /\ op = "f32" /\ spec' = spec /\ layout' = layout
        /\ rest' = rest /\ next' = next
    BY <1>5 DEF Promote, PromoteReadSeek, PromoteRead, PromoteWriteSeek, PromoteWrite,
                PromoteHeadSeek, PromoteHeadWrite, PromoteSteps, Goto, Return, SeekFails,
                PutFails, IoError, given, wfields, locals
  <2>2. pc # "part"
    BY <2>1 DEF PromoteSteps
  <2> QED BY <2>1, <2>2, FloatFrame
<1>6. CASE WritePayload
  <2>1. /\ pc = "payload" /\ op = "f32" /\ spec' = spec /\ layout' = layout /\ rest' = rest
        /\ \/ pc' = "payload" /\ next' = next
           \/ pc' = "part" /\ dataBytes' = next
    BY <1>6 DEF WritePayload, Return, PutFails, IoError, given, wfields
  <2> QED BY <2>1, FloatFrame
<1> QED BY <1>1, <1>2, <1>3, <1>4, <1>5, <1>6

LEMMA FloatStep == IInv /\ FloatInv /\ [Next]_vars => FloatInv'
<1> SUFFICES ASSUME IInv, FloatInv, [Next]_vars PROVE FloatInv'
  OBVIOUS
<1>1. CASE Construct
  <2>1. op' # "f32"
    BY <1>1 DEF Construct, Starts, RefuseSpec, CreateFile, OpenFails, NewOnSink, IInv, ControlInv
  <2> QED BY <2>1 DEF FloatInv
<1>2. CASE WriteF32Call
  BY <1>2, FloatStart
<1>3. CASE WritePcmCall \/ Finalize \/ Drop
  <2>1. op = "none"
    BY <1>3 DEF WritePcmCall, Finalize, Drop, Called, IInv, ControlInv
  <2>2. op' # "f32"
    BY <1>3, <2>1 DEF WritePcmCall, WritePcm, Finalize, Drop, BeginFinalize, Refuse, Return
  <2> QED BY <2>2 DEF FloatInv
<1>4. CASE Run
  BY <1>4, FloatPart, FloatRun DEF Run
<1>5. CASE UNCHANGED vars
  BY <1>5 DEF FloatInv, SizeVerdict, Target, vars, given, wfields, locals
<1> QED BY <1>1, <1>2, <1>3, <1>4, <1>5 DEF Next, Call

(* SliceIsAllOrNothing: write_f32_samples refuses a slice before it writes    *)
(* any of it; no chunk of an admitted slice is refused, not even after the    *)
(* file was promoted between two chunks.                                     *)
THEOREM SliceIsAllOrNothing == Spec => []NoLateRefusal
<1>1. Init => FloatInv
  BY DEF Init, FloatInv
<1>2. IInv /\ FloatInv => NoLateRefusal
  <2> SUFFICES ASSUME IInv, FloatInv, pc = "part", rest > 0
               PROVE  PcmVerdict(Least(rest, ChunkBytes)) = "Ok"
    BY DEF NoLateRefusal
  <2> DEFINE n == Least(rest, ChunkBytes)
  <2>1. /\ state = "Open" /\ op = "f32" /\ rest \in Nat /\ dataBytes \in Nat
        /\ spec \in Specs /\ layout \in Layouts
    BY DEF IInv, ControlInv, TypeOK
  <2>2. n \in Nat /\ n <= rest /\ n % spec.frame = 0
    BY <2>1, ChunkFrames DEF Least, FloatInv
  <2>3. SizeVerdict(dataBytes + rest) = "Ok"
    BY <2>1 DEF FloatInv
  <2> HIDE DEF n
  <2>4. SizeVerdict(dataBytes + n) = "Ok"
    BY <2>1, <2>2, <2>3, VerdictMonotone
  <2>5. PcmVerdict(n) = "Ok"
    BY <2>1, <2>2, <2>4 DEF PcmVerdict
  <2> QED BY <2>5 DEF n
<1>3. QED
  BY <1>1, <1>2, FloatStep, Inductive, PTL DEF Spec

-----------------------------------------------------------------------------
(* The writer implements its contract.                                       *)

(* Reversing the bytes of every sample twice gives the payload back.          *)
Mirror(w, k) == (k \div w) * w + w - 1 - (k % w)

LEMMA MirrorFacts ==
  ASSUME NEW w \in Nat \ {0}, NEW d \in Nat, d % w = 0, NEW k \in 0 .. (d - 1)
  PROVE  Mirror(w, k) \in 0 .. (d - 1) /\ Mirror(w, Mirror(w, k)) = k
<1> DEFINE m == Mirror(w, k)
           q == k \div w
           r == k % w
           c == d \div w
<1>0. k \in Nat
  OBVIOUS
<1>1. q \in Nat /\ r \in 0 .. (w - 1) /\ k = q * w + r /\ m = q * w + w - 1 - r
  BY <1>0, DivModFacts DEF Mirror
<1>2. c \in Nat /\ d = c * w
  BY DivModFacts, MultipleFacts
<1> HIDE DEF m, q, r, c
<1>3. q * w \in Nat /\ c * w \in Nat
  BY <1>1, <1>2, ProductFacts
<1> DEFINE x == q * w
           t == w - 1 - r
<1>4. m = x + t /\ t \in 0 .. (w - 1) /\ x \in Nat
  <2> HIDE DEF x
  <2>1. x \in Nat /\ m = x + w - 1 - r
    BY <1>1, <1>3 DEF x
  <2> QED BY <1>1, <2>1
<1>5. m \div w = q /\ m % w = w - 1 - r
  <2> HIDE DEF t
  <2>1. (q * w + t) \div w = q /\ (q * w + t) % w = t
    BY <1>1, <1>4, DivModUnique
  <2>2. m = q * w + t
    BY <1>4
  <2>3. m \div w = q /\ m % w = t
    BY <2>1, <2>2
  <2> QED BY <2>3 DEF t
<1>6. Mirror(w, m) = k
  <2>1. Mirror(w, m) = (m \div w) * w + w - 1 - (m % w)
    BY DEF Mirror
  <2>2. Mirror(w, m) = x + w - 1 - t /\ k = x + r
    BY <1>1, <1>5, <2>1
  <2> HIDE DEF x
  <2> QED BY <1>1, <1>4, <2>2
<1>7. q < c
  <2>1. SUFFICES ASSUME q >= c PROVE FALSE
    BY <1>1, <1>2
  <2>2. PICK z \in Nat : q = c + z
    BY <1>1, <1>2, <2>1, q - c \in Nat
  <2>3. q * w = c * w + z * w /\ z * w \in Nat
    BY <1>2, <2>2, ProductFacts
  <2> QED BY <1>1, <1>2, <1>3, <2>3
<1>8. m < d
  <2>1. PICK z \in Nat : c = (q + 1) + z
    BY <1>1, <1>2, <1>7, c - (q + 1) \in Nat
  <2>2. c * w = q * w + 1 * w + z * w /\ z * w \in Nat
    BY <1>1, <2>1, ProductFacts
  <2> QED BY <1>2, <1>3, <1>4, <2>2
<1>9. m \in 0 .. (d - 1)
  BY <1>3, <1>4, <1>8
<1> QED BY <1>6, <1>9 DEF m

(* A file finalize has completed reads back as the accepted bytes, in order.  *)
LEMMA FileReadsBack ==
  ASSUME IInv, pc = "flush"
  PROVE  ReadBack = [ok |-> TRUE, bytes |-> [k \in 0 .. (dataBytes - 1) |-> k]]
<1>1. /\ spec \in Specs /\ layout \in Layouts /\ dataBytes \in Nat /\ stale \in Nat
      /\ dataBytes % spec.width = 0
  BY DEF IInv, TypeOK, AlignmentInv
<1>2. /\ HeadedBy(layout, dataBytes) /\ Holds(Base(layout), 0, dataBytes)
      /\ SinkEnds(FileLen(layout, spec, dataBytes))
  BY DEF IInv, FinalInv, FinalizeSteps
<1>3. Base(layout) \in Nat \ {0} /\ HeaderLength(layout, spec) = Base(layout)
  BY <1>1, BaseFacts
<1>4. /\ FileLen(layout, spec, dataBytes) \in Nat
      /\ sink.len >= FileLen(layout, spec, dataBytes) /\ sink.len > 0
  <2>1. Pad(dataBytes) \in Nat /\ FileLen(layout, spec, dataBytes) = Base(layout) + dataBytes + Pad(dataBytes)
    BY <1>1, <1>3, PadFacts DEF FileLen
  <2> QED BY <1>1, <1>2, <1>3, <2>1 DEF SinkEnds, Larger
<1>5. sink.at[0] = Hdr(layout, dataBytes)
  BY <1>2, <1>3, 0 \in 0 .. (Base(layout) - 1) DEF HeadedBy
<1>6. /\ sink.at[0].of = layout /\ sink.at[0].n = dataBytes /\ sink.at[0].kind = "hdr"
  BY <1>5 DEF Hdr
<1> DEFINE w == spec.width
           At(k) == IF layout = "Rifx" THEN (k \div w) * w + w - 1 - (k % w) ELSE k
<1>7. ASSUME NEW k \in 0 .. (dataBytes - 1)
      PROVE  sink.at[Base(layout) + At(k)].n = k
  <2>1. \A j \in 0 .. (dataBytes - 1) : sink.at[Base(layout) + j] = StoredByte(layout, j)
    BY <1>2 DEF Holds
  <2>2. CASE layout = "Rifx"
    <3>1. w \in Nat \ {0} /\ dataBytes % w = 0
      BY <1>1, SpecFacts
    <3>2. At(k) = Mirror(w, k)
      BY <2>2 DEF Mirror
    <3>3. \A j : StoredByte(layout, j) = Pay(Mirror(w, j))
      BY <2>2 DEF StoredByte, Mirror
    <3>4. \A i : Pay(i).n = i
      BY DEF Pay
    <3> HIDE DEF w, At
    <3>5. Mirror(w, k) \in 0 .. (dataBytes - 1) /\ Mirror(w, Mirror(w, k)) = k
      BY <1>1, <3>1, MirrorFacts
    <3>6. sink.at[Base(layout) + Mirror(w, k)] = Pay(k)
      BY <2>1, <3>3, <3>5
    <3> QED BY <3>2, <3>4, <3>6
  <2>3. CASE layout # "Rifx"
    <3>1. At(k) = k /\ StoredByte(layout, k) = Pay(k)
      BY <2>3 DEF StoredByte
    <3>2. Pay(k).n = k
      BY DEF Pay
    <3> HIDE DEF At
    <3> QED BY <2>1, <3>1, <3>2
  <2> QED BY <2>2, <2>3
<1>8. [k \in 0 .. (dataBytes - 1) |-> sink.at[Base(layout) + At(k)].n]
        = [k \in 0 .. (dataBytes - 1) |-> k]
  BY <1>7
<1>9. \A i \in 0 .. (Base(layout) - 1) : sink.at[i] = sink.at[0]
  BY <1>2, <1>5 DEF HeadedBy
<1> QED BY <1>3, <1>4, <1>6, <1>8, <1>9 DEF ReadBack

(* The state of the contract that a state of the writer stands for.           *)
Phase == IF Running THEN "Open" ELSE state
Readable == IF state = "Finalized" THEN ReadBack ELSE Contract!Unreadable

ContractStep == [Contract!ContractNext]_(Contract!contractVars)

LEMMA ContractTerms ==
  /\ Contract!contractVars = <<Phase, dataBytes, Readable>>
  /\ Contract!contractVars' = <<Phase', dataBytes', Readable'>>
  /\ Contract!Open <=> /\ Phase = "Absent" /\ Phase' = "Open"
                       /\ dataBytes' = dataBytes /\ Readable' = Readable
  /\ Contract!Accept <=> /\ Phase = "Open" /\ Phase' = "Open"
                         /\ dataBytes' \in Nat /\ dataBytes' > dataBytes
                         /\ Readable' = Readable
  /\ Contract!Fail <=> /\ Phase = "Open" /\ Phase' = "Failed"
                       /\ dataBytes' = dataBytes /\ Readable' = Readable
  /\ Contract!Finish <=> /\ Phase = "Open" /\ Phase' = "Finalized"
                         /\ Readable' = [ok |-> TRUE, bytes |-> [k \in 0 .. (dataBytes - 1) |-> k]]
                         /\ dataBytes' = dataBytes
  BY DEF Contract!contractVars, Contract!Open, Contract!Accept, Contract!Fail, Contract!Finish,
         Contract!AllAccepted, Contract!Unreadable, Phase, Readable

LEMMA Stutters ==
  ASSUME Phase' = Phase, dataBytes' = dataBytes, Readable' = Readable
  PROVE  ContractStep
  BY ContractTerms DEF ContractStep

(* What no step of the writer does to its file, when the writer is not closed *)
(* or the step leaves the sink alone.                                        *)
LEMMA ReadKept ==
  ASSUME state' = state, spec' = spec, sink' = sink \/ state # "Finalized"
  PROVE  Readable' = Readable
<1>1. CASE state = "Finalized"
  BY <1>1 DEF Readable, ReadBack
<1>2. CASE state # "Finalized"
  BY <1>2 DEF Readable, Contract!Unreadable
<1> QED BY <1>1, <1>2

LEMMA RunningFacts ==
  ASSUME IInv
  PROVE  /\ Running => state = "Failed" /\ Phase = "Open"
         /\ ~Running => Phase = state
         /\ dataBytes \in Nat
  BY DEF IInv, ControlInv, Running, Phase, TypeOK

(* A method that fails at an I/O call it had begun.                           *)
LEMMA FailStep ==
  ASSUME IInv, Running, state' = "Failed", pc' \in {"idle", "gone"}, dataBytes' = dataBytes
  PROVE  ContractStep
<1>1. ~Running'
  BY DEF Running, PromoteSteps, FinalizeSteps
<1>2. Phase = "Open" /\ Phase' = "Failed" /\ state = "Failed"
  BY <1>1, RunningFacts DEF Phase
<1>3. Readable' = Readable
  BY <1>2 DEF Readable, Contract!Unreadable
<1> QED BY <1>2, <1>3, ContractTerms DEF ContractStep, Contract!ContractNext

(* A method goes on to its next I/O call.                                     *)
LEMMA GoesOn ==
  ASSUME IInv, Running, Running', state' = state, dataBytes' = dataBytes
  PROVE  ContractStep
<1>1. Phase' = Phase /\ state = "Failed"
  BY RunningFacts DEF Phase
<1>2. Readable' = Readable
  BY <1>1 DEF Readable, Contract!Unreadable
<1> QED BY <1>1, <1>2, Stutters

(* A method begins on an open writer.                                         *)
LEMMA Begins ==
  ASSUME state = "Open", ~Running, Running', state' = "Failed", dataBytes' = dataBytes
  PROVE  ContractStep
<1>1. Phase' = Phase
  BY DEF Phase
<1>2. Readable' = Readable
  BY DEF Readable, Contract!Unreadable
<1> QED BY <1>1, <1>2, Stutters

(* A call returns without having touched the file.                            *)
LEMMA Returns ==
  ASSUME ~Running, ~Running', UNCHANGED <<sink, given, wfields>>
  PROVE  ContractStep
<1>1. state' = state /\ spec' = spec /\ dataBytes' = dataBytes /\ sink' = sink
  BY DEF given, wfields
<1>2. Phase' = Phase
  BY <1>1 DEF Phase
<1> QED BY <1>1, <1>2, ReadKept, Stutters

LEMMA RefuseReturns == ASSUME ~Running, NEW v, Refuse(v) PROVE ContractStep
<1>1. pc' \in {"idle", "gone"}
  BY DEF Refuse, Return
<1>2. ~Running'
  BY <1>1 DEF Running, PromoteSteps, FinalizeSteps
<1>3. UNCHANGED <<sink, given, wfields>>
  BY DEF Refuse
<1> QED BY <1>2, <1>3, Returns

LEMMA WritePcmContract ==
  ASSUME IInv, pc \in {"idle", "part"}, NEW m, NEW n, NEW left, WritePcm(m, n, left)
  PROVE  ContractStep
<1>0. ~Running
  BY DEF Running, PromoteSteps, FinalizeSteps
<1>1. CASE PcmVerdict(n) # "Ok"
  BY <1>0, <1>1, RefuseReturns DEF WritePcm
<1>2. CASE PcmVerdict(n) = "Ok"
  <2>1. state = "Open"
    BY <1>2 DEF PcmVerdict
  <2>2. state' = "Failed" /\ dataBytes' = dataBytes
    BY <1>2 DEF WritePcm
  <2>3. CASE Running'
    BY <1>0, <2>1, <2>2, <2>3, Begins
  <2>4. CASE ~Running'
    <3>1. Phase = "Open" /\ Phase' = "Failed"
      BY <1>0, <2>1, <2>2, <2>4 DEF Phase
    <3>2. Readable' = Readable
      BY <2>1, <2>2 DEF Readable, Contract!Unreadable
    <3> QED BY <2>2, <3>1, <3>2, ContractTerms DEF ContractStep, Contract!ContractNext
  <2> QED BY <2>3, <2>4
<1> QED BY <1>1, <1>2

LEMMA CallContract == ASSUME IInv, Call PROVE ContractStep
<1>1. pc = "idle" /\ ~Running
  BY DEF Call, WritePcmCall, WriteF32Call, Finalize, Drop, Called, Running, PromoteSteps,
         FinalizeSteps
<1>2. CASE WritePcmCall
  BY <1>1, <1>2, WritePcmContract DEF WritePcmCall
<1>3. CASE WriteF32Call
  <2>1. PICK n \in 0 .. MaxCall :
          \/ Refuse(F32Verdict(n))
          \/ pc' = "part" /\ UNCHANGED <<sink, given, wfields>>
    BY <1>3 DEF WriteF32Call
  <2>2. CASE Refuse(F32Verdict(n))
    BY <1>1, <2>2, RefuseReturns
  <2>3. CASE pc' = "part" /\ UNCHANGED <<sink, given, wfields>>
    <3>1. ~Running'
      BY <2>3 DEF Running, PromoteSteps, FinalizeSteps
    <3> QED BY <1>1, <2>3, <3>1, Returns
  <2> QED BY <2>1, <2>2, <2>3
<1>4. ASSUME NEW m, BeginFinalize(m), state = "Open" PROVE ContractStep
  <2>1. state' = "Failed" /\ dataBytes' = dataBytes /\ pc' \in {"pad", "finSeek"}
    BY <1>4 DEF BeginFinalize
  <2>2. Running'
    BY <2>1 DEF Running, FinalizeSteps
  <2> QED BY <1>1, <1>4, <2>1, <2>2, Begins
<1>5. FinalizeVerdict = "Begin" => state = "Open"
  BY DEF FinalizeVerdict
<1>6. CASE Finalize
  BY <1>1, <1>4, <1>5, <1>6, RefuseReturns DEF Finalize
<1>7. CASE Drop
  <2>1. CASE pc' = "gone" /\ UNCHANGED <<sink, given, wfields>>
    <3>1. ~Running'
      BY <2>1 DEF Running, PromoteSteps, FinalizeSteps
    <3> QED BY <1>1, <2>1, <3>1, Returns
  <2> QED BY <1>4, <1>7, <2>1 DEF Drop
<1> QED BY <1>2, <1>3, <1>6, <1>7 DEF Call

LEMMA StartContract ==
  ASSUME IInv, Construct \/ StartPosition \/ StartHeader PROVE ContractStep
<1>1. state = "Absent" /\ dataBytes = 0 /\ ~Running
  BY DEF Construct, Starts, RefuseSpec, CreateFile, OpenFails, NewOnSink, StartPosition,
         StartHeader, IInv, ControlInv, Running, PromoteSteps, FinalizeSteps
<1>2. pc' \in {"idle", "gone", "startPos", "startHeader"}
  BY DEF Construct, Starts, RefuseSpec, CreateFile, OpenFails, NewOnSink, StartPosition,
         StartHeader, SeekFails, PutFails, IoError, Return, Goto
<1>3. ~Running'
  BY <1>2 DEF Running, PromoteSteps, FinalizeSteps
<1>4. \/ state' = "Absent" /\ dataBytes' = dataBytes
      \/ state' = "Open" /\ dataBytes' = 0
  BY <1>1 DEF Construct, RefuseSpec, CreateFile, OpenFails, NewOnSink, StartPosition,
         StartHeader, SeekFails, PutFails, IoError, wfields
<1>5. Phase = "Absent" /\ Phase' = state' /\ dataBytes' = dataBytes
  BY <1>1, <1>3, <1>4 DEF Phase
<1>6. Readable' = Readable
  BY <1>1, <1>4 DEF Readable, Contract!Unreadable
<1>7. CASE state' = "Absent"
  BY <1>5, <1>6, <1>7, Stutters
<1>8. CASE state' = "Open"
  BY <1>5, <1>6, <1>8, ContractTerms DEF ContractStep, Contract!ContractNext
<1> QED BY <1>4, <1>7, <1>8

LEMMA PromoteContract == ASSUME IInv, Promote PROVE ContractStep
<1>1. /\ Running /\ state' = state /\ dataBytes' = dataBytes
      /\ pc' \in {"idle", "gone", "payload"} \cup PromoteSteps
  BY DEF Promote, PromoteReadSeek, PromoteRead, PromoteWriteSeek, PromoteWrite,
         PromoteHeadSeek, PromoteHeadWrite, PromoteTailSeek, SeekFails, PutFails, IoError,
         Return, Goto, Running, PromoteSteps, wfields
<1>2. CASE pc' \in {"idle", "gone"}
  BY <1>1, <1>2, RunningFacts, FailStep
<1>3. CASE pc' \in {"payload"} \cup PromoteSteps
  <2>1. Running'
    BY <1>3 DEF Running
  <2> QED BY <1>1, <2>1, GoesOn
<1> QED BY <1>1, <1>2, <1>3

(* The payload of a call is accepted as a whole or not at all.                *)
LEMMA PayloadContract == ASSUME IInv, WritePayload PROVE ContractStep
<1>1. /\ pc = "payload" /\ Running /\ state = "Failed" /\ op \in {"pcm", "f32"}
      /\ dataBytes \in Nat /\ next \in Nat /\ dataBytes <= next
  BY DEF WritePayload, Running, IInv, ControlInv, TypeOK
<1>2. CASE PutFails(PayloadBytes)
  <2>1. state' = "Failed" /\ dataBytes' = dataBytes /\ pc' \in {"idle", "gone"}
    BY <1>1, <1>2 DEF PutFails, IoError, Return, wfields
  <2> QED BY <1>1, <2>1, FailStep
<1>3. CASE pc' = pc /\ UNCHANGED wfields
  <2>1. Running' /\ state' = state /\ dataBytes' = dataBytes
    BY <1>1, <1>3 DEF Running, wfields
  <2> QED BY <1>1, <2>1, GoesOn
<1>4. CASE dataBytes' = next /\ state' = "Open" /\ pc' \in {"part", "idle", "gone"}
  <2>1. ~Running'
    BY <1>4 DEF Running, PromoteSteps, FinalizeSteps
  <2>2. Phase = "Open" /\ Phase' = "Open"
    BY <1>1, <1>4, <2>1 DEF Phase
  <2>3. Readable' = Readable
    BY <1>1, <1>4 DEF Readable, Contract!Unreadable
  <2>4. CASE next > dataBytes
    BY <1>1, <1>4, <2>2, <2>3, <2>4, ContractTerms DEF ContractStep, Contract!ContractNext
  <2>5. CASE next = dataBytes
    BY <1>4, <2>2, <2>3, <2>5, Stutters
  <2> QED BY <1>1, <2>4, <2>5
<1> QED BY <1>2, <1>3, <1>4 DEF WritePayload, Return

LEMMA FinishContract == ASSUME IInv, FinishFile PROVE ContractStep
<1>1. CASE FinalizeFlush /\ state' = "Finalized"
  <2>1. /\ pc = "flush" /\ Running /\ pc' \in {"idle", "gone"} /\ dataBytes' = dataBytes
        /\ sink' = sink /\ spec' = spec
    BY <1>1 DEF FinalizeFlush, Return, Running, FinalizeSteps, SeekFails, IoError, given, wfields
  <2>2. ~Running'
    BY <2>1 DEF Running, PromoteSteps, FinalizeSteps
  <2>3. Phase = "Open" /\ Phase' = "Finalized"
    BY <1>1, <2>1, <2>2 DEF Phase
  <2>4. ReadBack' = ReadBack
    BY <2>1 DEF ReadBack
  <2>5. Readable' = [ok |-> TRUE, bytes |-> [k \in 0 .. (dataBytes - 1) |-> k]]
    BY <1>1, <2>1, <2>4, FileReadsBack DEF Readable
  <2> QED BY <2>1, <2>3, <2>5, ContractTerms DEF ContractStep, Contract!ContractNext
<1>2. CASE ~(FinalizeFlush /\ state' = "Finalized")
  <2>1. /\ Running /\ state' = state /\ dataBytes' = dataBytes
        /\ pc' \in {"idle", "gone"} \cup FinalizeSteps
    BY <1>2 DEF FinishFile, FinalizePad, FinalizeSeek, FinalizeHeader, FinalizeEnd,
                FinalizeFlush, SeekFails, PutFails, IoError, Return, Goto, Running,
                FinalizeSteps, wfields
  <2>2. CASE pc' \in {"idle", "gone"}
    BY <2>1, <2>2, RunningFacts, FailStep
  <2>3. CASE pc' \in FinalizeSteps
    <3>1. Running'
      BY <2>3 DEF Running
    <3> QED BY <2>1, <3>1, GoesOn
  <2> QED BY <2>1, <2>2, <2>3
<1> QED BY <1>1, <1>2

LEMMA ContractSteps == ASSUME IInv, [Next]_vars PROVE ContractStep
<1>1. CASE Construct \/ StartPosition \/ StartHeader
  BY <1>1, StartContract
<1>2. CASE Call
  BY <1>2, CallContract
<1>3. CASE F32Part
  <2>1. pc = "part" /\ ~Running
    BY <1>3 DEF F32Part, Running, PromoteSteps, FinalizeSteps
  <2> QED BY <1>3, <2>1, RefuseReturns, WritePcmContract DEF F32Part
<1>4. CASE Promote \/ WritePayload \/ FinishFile
  BY <1>4, PromoteContract, PayloadContract, FinishContract
<1>5. CASE UNCHANGED vars
  <2>1. /\ Running' = Running /\ UNCHANGED <<sink, given, wfields>>
        /\ state' = state /\ spec' = spec /\ dataBytes' = dataBytes /\ sink' = sink
    BY <1>5 DEF vars, given, wfields, Running
  <2>2. Phase' = Phase
    BY <2>1 DEF Phase
  <2> QED BY <2>1, <2>2, ReadKept, Stutters
<1> QED BY <1>1, <1>2, <1>3, <1>4, <1>5 DEF Next, Run

(* WriterRefinesContract: over a sink that may fail at every call, the writer  *)
(* does nothing its documentation does not promise: payload is accepted whole *)
(* and in order, a failure is final, and a finalized file reads back as      *)
(* exactly the accepted bytes, whatever layout it ended in.                   *)
THEOREM WriterRefinesContract == Spec => ImplementsContract
<1>1. Init => Contract!ContractInit
  <2> SUFFICES ASSUME Init PROVE Contract!ContractInit
    OBVIOUS
  <2>1. state = "Absent" /\ ~Running /\ dataBytes = 0
    BY DEF Init, Running, PromoteSteps, FinalizeSteps
  <2> QED BY <2>1 DEF Contract!ContractInit, Contract!Unreadable
<1>2. IInv /\ [Next]_vars => [Contract!ContractNext]_(Contract!contractVars)
  BY ContractSteps DEF ContractStep
<1> QED BY <1>1, <1>2, Inductive, PTL DEF Spec, ImplementsContract, Contract!ContractSpec
=============================================================================
