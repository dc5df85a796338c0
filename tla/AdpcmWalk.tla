----------------------------- MODULE AdpcmWalk -----------------------------
(***************************************************************************)
(* for_each_ms_adpcm_block and for_each_ima_adpcm_block (src/adpcm/{mod,ima}.rs)  *)
(* with take_block, under visit_adpcm (src/pull/adpcm.rs): the walk over the      *)
(* blocks of a payload, and inside a block over its nibbles, against the frames   *)
(* that the plan estimated from block_align alone.                           *)
(***************************************************************************)
EXTENDS FrameCounts

CONSTANTS
  Aligns,    \* block_align
  Lengths,   \* plan.data_len
  Declared,  \* declared_sample_count
  Slack      \* how much more than the total max_samples allows

ASSUME WalkAssumption ==
  /\ Aligns \subseteq Nat \ {0} /\ Lengths \subseteq 0 .. WordMax
  /\ Declared \subseteq Nat \cup {None} /\ Slack \subseteq Nat

VARIABLES
  ima, ch, block,   \* codec, channels and block_align
  dataLen, target,  \* the payload and plan.total_frames
  max,              \* plan.max_samples
  pc,
  pos, remaining,   \* bytes read, bytes left of the payload
  at, made,         \* byte of the block reached, frames decoded from it
  frames,           \* frames delivered
  error

plan == <<ima, ch, block, dataLen, target, max>>
vars == <<plan, pc, pos, remaining, at, made, frames, error>>

(* open_decode admits no total above max_samples. *)
Init ==
  /\ ima \in BOOLEAN /\ ch \in {1, 2} /\ block \in Aligns /\ dataLen \in Lengths
  /\ \E declared \in Declared :
       target = Capped(AdpcmFrames(dataLen, block, ch, ima), declared)
  /\ \E more \in Slack : max = target + more
  /\ pc = "begin" /\ pos = 0 /\ remaining = dataLen
  /\ at = 0 /\ made = 0 /\ frames = 0 /\ error = ""

-----------------------------------------------------------------------------
(* The operators named Bug... are seeded faults, used by no specification.    *)

Stop(why) ==
  /\ pc' = (IF why = "" THEN "done" ELSE "failed") /\ error' = why
  /\ UNCHANGED <<plan, at, made>>

(* A predictor byte per channel, then delta and two samples; or sample, index, 0. *)
HeaderLen == IF ima THEN 4 * ch ELSE 7 * ch

Begin ==
  /\ pc = "begin"
  /\ IF block < HeaderLen
       THEN Stop("BlockTooShort")
       ELSE pc' = "loop" /\ UNCHANGED <<plan, at, made, error>>
  /\ UNCHANGED <<pos, remaining, frames>>

MoreBlocks == frames < target /\ remaining >= block

ReadBlock ==
  /\ pc = "loop" /\ MoreBlocks
  /\ pos' = pos + block /\ remaining' = remaining - block
  /\ pc' = "header" /\ UNCHANGED <<plan, at, made, frames, error>>

(* packet_io, with the cursor anywhere in the block. *)
ReadFails ==
  /\ pc = "loop" /\ MoreBlocks
  /\ pos' \in pos .. pos + block
  /\ Stop("Io") /\ UNCHANGED <<remaining, frames>>

Finished ==
  /\ pc = "loop" /\ ~MoreBlocks
  /\ Stop("") /\ UNCHANGED <<pos, remaining, frames>>

(* The samples a block starts with: two of history for MS, the predictor for IMA. *)
BlockHeader ==
  /\ pc = "header"
  /\ at' = HeaderLen /\ made' = IF ima THEN 1 ELSE 2
  /\ pc' = "nibbles"
  /\ UNCHANGED <<plan, pos, remaining, frames, error>>

(* A predictor without coefficients, a step index above 88. *)
BadHeader ==
  /\ pc = "header"
  /\ Stop("BadHeader") /\ UNCHANGED <<pos, remaining, frames>>

(* Stereo IMA decodes four bytes left and four bytes right, and drops less.    *)
Group == IF ima /\ ch = 2 THEN 8 ELSE 1

(* Stereo MS has a nibble of each channel in a byte. *)
GroupFrames == IF ch = 1 THEN 2 ELSE Group

Nibbles ==
  /\ pc = "nibbles"
  /\ IF at + Group <= block
       THEN at' = at + Group /\ made' = made + GroupFrames /\ UNCHANGED pc
       ELSE pc' = "take" /\ UNCHANGED <<at, made>>
  /\ UNCHANGED <<plan, pos, remaining, frames, error>>

(* take_block: what the target has left of the block. *)
BugTake == made
Take == Least(made, SatSub(target, frames))

(* The duration cap wins over the target, nothing taken ends the walk, a block     *)
(* taken in part is the last.                                                *)
TakeBlock ==
  /\ pc = "take"
  /\ IF Take > SatSub(max, frames)
       THEN Stop("TooLong") /\ UNCHANGED frames
       ELSE /\ frames' = frames + Take
            /\ IF Take < made THEN Stop("") ELSE pc' = "loop" /\ UNCHANGED <<plan, at, made, error>>
  /\ UNCHANGED <<pos, remaining>>

CallbackFails ==
  /\ pc = "take" /\ Take \in 1 .. SatSub(max, frames)
  /\ Stop("Callback") /\ UNCHANGED <<pos, remaining, frames>>

Next ==
  \/ Begin \/ ReadBlock \/ ReadFails \/ Finished \/ BlockHeader \/ BadHeader
  \/ Nibbles \/ TakeBlock \/ CallbackFails

Spec == Init /\ [][Next]_vars

-----------------------------------------------------------------------------
(* Properties                                                                *)

(* adpcm_est_frames, "Matches the nibble walk": a block decodes to the frames that  *)
(* the estimate counted for it, in every layout and with every leftover.       *)
BlockMatchesEstimate == pc = "take" => made = SamplesPerBlock(block, ch, ima)

(* The same for the whole payload: a walk that meets no error delivers the total    *)
(* the plan was admitted with, also where a declared count cuts a block; the budget  *)
(* that plan passed is never exceeded on the way, and no block is read that the      *)
(* total has no use for.                                                     *)
WalkDeliversTheTotal ==
  /\ pc = "done" => frames = target
  /\ frames <= target /\ error # "TooLong"
  /\ pc = "done" /\ pos > 0 =>
       frames > (pos \div block - 1) * SamplesPerBlock(block, ch, ima)

(* adpcm_est_frames states the frames "implied by block_align", and says of the      *)
(* walk that it matches; no plan with frames to deliver is refused for its           *)
(* block_align.                                                              *)
EstimatedBlocksAreWalked == target > 0 => error # "BlockTooShort"
=============================================================================
