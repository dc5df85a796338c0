--------------------------- MODULE MCFrameBudget ---------------------------
(* Words of 0 .. 500: eight bits to the byte saturate for the longest payload      *)
(* only, and the output of half a hundred stereo frames is near the word; GSM     *)
(* blocks of three bytes and four frames; block_align below, at and behind the    *)
(* header of an ADPCM block, with and without leftover bytes, and several blocks  *)
(* to the payload.                                                           *)
EXTENDS FrameBudget

SmallFormats ==
  [codec : {"Pcm"}, channels : {1, 2}, unit : {1, 3}, rate : {2}]
    \cup [codec : {"G722"}, channels : {1, 2}, unit : {1}, rate : {2}]
    \cup [codec : {"Gsm"}, channels : {1}, unit : {1}, rate : {2}]
    \cup [codec : {"G726"}, channels : {1}, unit : {2, 3, 5}, rate : {1}]
    \cup [codec : {"Ms"}, channels : {1}, unit : {6, 7, 9}, rate : {2}]
    \cup [codec : {"Ms"}, channels : {2}, unit : {14, 17}, rate : {2}]
    \cup [codec : {"Ima"}, channels : {1}, unit : {3, 6}, rate : {2}]
    \cup [codec : {"Ima"}, channels : {2}, unit : {8, 17}, rate : {2}]

SmallLengths == {0, 5, 20, 60, 64}
SmallDeclared == {None, 0, 3, 18, 61}
SmallDurations == {0, 5, 300}
SmallDecodeRates == {0, 1, 48}
SmallOutputCaps == {30, 400, 500}
=============================================================================
