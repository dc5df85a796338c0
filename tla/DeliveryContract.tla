-------------------------- MODULE DeliveryContract --------------------------
(***************************************************************************)
(* What decode_streaming and the collecting decoders promise: the frames of   *)
(* the plan in order, nothing else, and Ok only behind the last one.         *)
(***************************************************************************)
EXTENDS Naturals, Sequences

CONSTANT Totals  \* frames a plan may promise

VARIABLES
  total,    \* frames of the plan
  heard,    \* what the callback accepted, or the output holds: frame numbers
  outcome,  \* "running", "Ok" or "Err"
  count     \* the number of frames returned with Ok

vars == <<total, heard, outcome, count>>

FirstFrames(n) == [i \in 1 .. n |-> i]

Init == total \in Totals /\ heard = <<>> /\ outcome = "running" /\ count = 0

Deliver ==
  /\ outcome = "running"
  /\ \E n \in Len(heard) + 1 .. total : heard' = FirstFrames(n)
  /\ UNCHANGED <<total, outcome, count>>

Finish ==
  /\ outcome = "running" /\ Len(heard) = total
  /\ outcome' = "Ok" /\ count' = Len(heard)
  /\ UNCHANGED <<total, heard>>

(* A failed read or a callback that refuses a block: what was heard stays. *)
GiveUp ==
  /\ outcome = "running"
  /\ outcome' = "Err" /\ UNCHANGED <<total, heard, count>>

Next == Deliver \/ Finish \/ GiveUp

Spec == Init /\ [][Next]_vars
=============================================================================
