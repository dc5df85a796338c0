----------------------------- MODULE MCSession -----------------------------
(* Files that end before, at and behind each marker and form, WAVE or another,    *)
(* and one RIFF file that has a Wave64 file in its payload.                    *)
EXTENDS Session

Short ==
  { [len |-> n, kind |-> k, wave |-> w, w64At |-> {}, head |-> 0, sound |-> FALSE] :
      n \in {0, 3, 4, 11, 12, 15, 16, 39, 40}, k \in Kinds, w \in BOOLEAN }

Sound ==
  { [len |-> 48, kind |-> k, wave |-> TRUE, w64At |-> {}, head |-> 44, sound |-> TRUE] :
      k \in {"Riff", "W64"} }

Nested ==
  { [len |-> n, kind |-> "Riff", wave |-> TRUE, w64At |-> {44}, head |-> 44, sound |-> TRUE] :
      n \in {62, 86} }

SmallFiles == Short \cup Sound \cup Nested
=============================================================================
