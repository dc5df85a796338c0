---------------------------- MODULE WavWriterInv ----------------------------
(***************************************************************************)
(* The inductive invariant behind the theorems of WavWriterProofs: what is   *)
(* true at each I/O call of the writer.                                      *)
(***************************************************************************)
EXTENDS WavWriter

CopySteps == {"readSeek", "read", "writeSeek", "write"}

(* Which locals and which field values go with which step. *)
ControlInv ==
  /\ pc \in {"idle", "gone"} => op = "none"
  /\ pc \in {"startPos", "startHeader"} => state = "Absent" /\ op = "new"
  /\ pc \in {"startPos", "startHeader"} => HeaderFits(asked, spec, 0)
  /\ pc = "startHeader" => cursor = 0
  /\ pc = "part" => state = "Open" /\ op = "f32"
  /\ pc \in PromoteSteps \cup {"payload"} => op \in {"pcm", "f32"}
  /\ pc \in FinalizeSteps => op \in {"finalize", "drop"}
  /\ pc \in PromoteSteps \cup FinalizeSteps \cup {"payload"} => state = "Failed"
  /\ pc \in PromoteSteps =>
       /\ layout \in {"Riff", "Extensible"}
       /\ sent = 0 /\ remaining <= dataBytes /\ dataBytes <= next
  /\ pc \in CopySteps => remaining > 0
  /\ pc \in PromoteSteps \ CopySteps => remaining = 0
  /\ pc = "payload" => dataBytes + sent <= next /\ (layout # "Rifx" => sent = 0)
  /\ state = "Absent" => dataBytes = 0 /\ sent = 0 /\ layout = asked
  /\ OnlyIoErrorsAreTerminal

(* What was asked for, what it became, and what the sink can do. *)
LayoutInv ==
  /\ layout = asked \/ (asked \in {"Riff", "Extensible"} /\ layout = Promoted(asked))
  /\ asked \in {"Riff", "Extensible"} => readable

(* Sizes are whole samples. *)
AlignmentInv ==
  /\ dataBytes % spec.width = 0 /\ sent % spec.width = 0
  /\ pc \in PromoteSteps \cup {"payload"} => next % spec.width = 0

Headed == \A i \in 0 .. (Base(layout) - 1) : sink.at[i].kind = "hdr" /\ sink.at[i].of = layout

HeadedBy(l, d) == \A i \in 0 .. (Base(l) - 1) : sink.at[i] = Hdr(l, d)

SinkEnds(n) == sink.len = Larger(n, stale)

(* The sink between two calls and while a payload is appended. *)
PayloadInv ==
  /\ state = "Absent" => stale <= sink.len /\ sink.len <= Larger(Base(asked), stale)
  /\ state = "Open" =>
       /\ cursor = Base(layout) + dataBytes
       /\ Holds(Base(layout), 0, dataBytes) /\ Headed /\ SinkEnds(Base(layout) + dataBytes)
  /\ pc = "payload" =>
       /\ cursor = Base(layout) + dataBytes + sent
       /\ Holds(Base(layout), 0, dataBytes + sent) /\ Headed
       /\ SinkEnds(Base(layout) + dataBytes + sent)

(* The sink during relocation. *)
PromoteInv ==
  LET new == Base(Promoted(layout))
  IN /\ RelocationKeepsPayload
     /\ pc = "read" => cursor = CopyFrom
     /\ pc = "write" => cursor = CopyTo
     /\ pc \in CopySteps \cup {"headSeek", "headWrite"} =>
          SinkEnds(IF remaining = dataBytes THEN Base(layout) + dataBytes ELSE new + dataBytes)
     /\ pc = "headWrite" => cursor = 0
     /\ pc = "tailSeek" => HeadedBy(Promoted(layout), dataBytes) /\ SinkEnds(new + dataBytes)

(* The sink during finalize and after it. *)
FinalInv ==
  LET end == FileLen(layout, spec, dataBytes)
  IN /\ pc \in FinalizeSteps \/ state = "Finalized" => Holds(Base(layout), 0, dataBytes)
     /\ pc = "pad" =>
          /\ cursor = Base(layout) + dataBytes /\ Pad(dataBytes) = 1
          /\ SinkEnds(Base(layout) + dataBytes)
     /\ pc \in FinalizeSteps \ {"pad"} \/ state = "Finalized" =>
          /\ SinkEnds(end)
          /\ Pad(dataBytes) = 1 => sink.at[end - 1] = Zero
     /\ pc = "finHeader" => cursor = 0
     /\ pc \in {"finEnd", "flush"} \/ state = "Finalized" => HeadedBy(layout, dataBytes)
     /\ pc = "flush" \/ state = "Finalized" => cursor = end

(* The sizes of what has been accepted, or is being appended, fit its layout: *)
(* a classic layout is kept while, and only while, they do.                  *)
SizeInv ==
  /\ state # "Absent" => spec.valid
  /\ state \in {"Open", "Finalized"} \/ pc \in FinalizeSteps =>
       /\ ~Overflows(layout, spec, dataBytes) /\ FileLenFits(layout, spec, dataBytes)
       /\ layout # asked => Overflows(asked, spec, dataBytes)
  /\ pc = "payload" =>
       /\ ~Overflows(layout, spec, next) /\ FileLenFits(layout, spec, next)
       /\ layout # asked => Overflows(asked, spec, next)
  /\ pc \in PromoteSteps =>
       /\ Overflows(layout, spec, next) /\ FileLenFits(Promoted(layout), spec, next)

(* During write_f32_samples: what the slice check allowed still holds for the *)
(* chunk being written together with the chunks to come, also once the file  *)
(* was promoted in between.                                                  *)
FloatInv ==
  op = "f32" =>
    /\ rest % spec.frame = 0
    /\ SizeVerdict((IF pc = "part" THEN dataBytes ELSE next) + rest) = "Ok"

(* IInv: the inductive invariant; each of its parts says what the code relies  *)
(* on at its next I/O call (positions, intact payload, header, sizes).        *)
IInv ==
  /\ TypeOK /\ ControlInv /\ LayoutInv /\ AlignmentInv
  /\ PayloadInv /\ PromoteInv /\ FinalInv /\ SizeInv
=============================================================================
