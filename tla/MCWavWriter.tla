---------------------------- MODULE MCWavWriter -----------------------------
(***************************************************************************)
(* Small instances of WavWriter.  Header lengths keep the order and parity  *)
(* of 44/58, 68/80, 80/94 and 104/116; the 32-bit limit is odd and is        *)
(* crossed by payloads of about ten bytes.                                  *)
(***************************************************************************)
EXTENDS WavWriter, WavWriterContract

Lengths == [Riff |-> 4, Rifx |-> 4, Extensible |-> 6, Rf64 |-> 6, Rf64Extensible |-> 8]

MCHeaderLen == [l \in Layouts |-> [f \in BOOLEAN |-> Lengths[l] + (IF f THEN 2 ELSE 0)]]

Bytes8 == [frame |-> 1, width |-> 1, float |-> FALSE, fact |-> FALSE, valid |-> TRUE]
Pcm16 == [frame |-> 2, width |-> 2, float |-> FALSE, fact |-> FALSE, valid |-> TRUE]
Float == [frame |-> 2, width |-> 2, float |-> TRUE, fact |-> TRUE, valid |-> TRUE]
Stereo == [frame |-> 4, width |-> 2, float |-> TRUE, fact |-> TRUE, valid |-> TRUE]
Invalid == [frame |-> 1, width |-> 1, float |-> FALSE, fact |-> FALSE, valid |-> FALSE]

MCSpecs == {Bytes8, Pcm16, Float, Stereo, Invalid}
=============================================================================
