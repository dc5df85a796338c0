---------------------------- MODULE MCAdpcmWalk ----------------------------
(* block_align around the headers of 4, 7, 8 and 14 bytes and around two groups     *)
(* of stereo IMA; payloads that end inside a block.                           *)
EXTENDS AdpcmWalk

SmallAligns == 3 .. 17 \cup {24}
SmallLengths == {0, 16, 35, 51}
SmallDeclared == {None, 0, 1, 4, 9, 18, 40}
SmallSlack == {0, 3}
=============================================================================
