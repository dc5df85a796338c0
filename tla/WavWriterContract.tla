------------------------- MODULE WavWriterContract --------------------------
(***************************************************************************)
(* The writer implements its contract.  While a method runs the code has     *)
(* already set the Failed state it would be left with; for the contract the *)
(* writer is still open until the method fails for real.                    *)
(***************************************************************************)
EXTENDS WavWriter

(* What a reader makes of the sink: the first header byte tells layout and   *)
(* size; the whole header must be of that one write, and the payload present. *)
ReadBack ==
  LET head == sink.at[0]
      base == HeaderLength(head.of, spec)
      w == spec.width
      \* offset in the payload of the k-th byte in the caller's order
      At(k) == IF head.of = "Rifx" THEN (k \div w) * w + w - 1 - (k % w) ELSE k
  IN IF /\ sink.len > 0 /\ head.kind = "hdr"
        /\ FileLen(head.of, spec, head.n) <= sink.len
        /\ \A i \in 0 .. (base - 1) : sink.at[i] = head
     THEN [ok |-> TRUE,
           bytes |-> [k \in 0 .. (head.n - 1) |-> sink.at[base + At(k)].n]]
     ELSE [ok |-> FALSE, bytes |-> [k \in {} |-> 0]]

Running == pc \in PromoteSteps \cup FinalizeSteps \cup {"payload"}

Contract == INSTANCE WriterContract WITH
  phase    <- IF Running THEN "Open" ELSE state,
  accepted <- dataBytes,
  readBack <- IF state = "Finalized" THEN ReadBack
              ELSE [ok |-> FALSE, bytes |-> [k \in {} |-> 0]]

(* ImplementsContract: every behaviour of the writer over a failing sink is a *)
(* behaviour of the documented contract; a finalized file parses back to     *)
(* exactly the accepted bytes in the order given, and a failed writer never  *)
(* finalizes.                                                               *)
ImplementsContract == Contract!ContractSpec
=============================================================================
