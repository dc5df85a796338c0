--------------------------- MODULE WriterContract ---------------------------
(***************************************************************************)
(* What the documentation of WavWriter promises (docs/write.md and the doc  *)
(* comments of src/encode/writer.rs), with no byte, header or I/O call:     *)
(* payload is accepted in order, a failure is terminal, and a finalized     *)
(* file reads back as exactly what was accepted.                            *)
(***************************************************************************)
EXTENDS Integers

VARIABLES
  phase,     \* of the writer: one of Phases
  accepted,  \* payload bytes accepted so far; they are numbered from 0
  readBack   \* what a reader of the file gets: Unreadable, or byte numbers

contractVars == <<phase, accepted, readBack>>

Phases == {"Absent", "Open", "Finalized", "Failed"}

Unreadable == [ok |-> FALSE, bytes |-> [k \in {} |-> 0]]

AllAccepted == [ok |-> TRUE, bytes |-> [k \in 0 .. (accepted - 1) |-> k]]

ContractInit == phase = "Absent" /\ accepted = 0 /\ readBack = Unreadable

Open ==
  /\ phase = "Absent" /\ phase' = "Open"
  /\ UNCHANGED <<accepted, readBack>>

Accept ==
  /\ phase = "Open" /\ phase' = "Open"
  /\ accepted' \in Nat /\ accepted' > accepted
  /\ UNCHANGED readBack

Fail ==
  /\ phase = "Open" /\ phase' = "Failed"
  /\ UNCHANGED <<accepted, readBack>>

Finish ==
  /\ phase = "Open" /\ phase' = "Finalized"
  /\ readBack' = AllAccepted
  /\ UNCHANGED accepted

ContractNext == Open \/ Accept \/ Fail \/ Finish

ContractSpec == ContractInit /\ [][ContractNext]_contractVars
=============================================================================
