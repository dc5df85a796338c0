--------------------------- MODULE MCPullWindows ---------------------------
(* Windows of eight bytes; GSM blocks of three bytes that hold three frames, so  *)
(* that a window holds one or several input frames, of one or several PCM      *)
(* frames, and the total cuts the last one at every place.                    *)
EXTENDS PullWindows

SampleFormats ==
  {<<"S16", 2>>, <<"S16", 4>>, <<"S24", 3>>, <<"F32", 4>>, <<"F32", 8>>, <<"ALaw", 1>>, <<"MuLaw", 1>>}

SmallFormats ==
  { [codec |-> sample[1], width |-> sample[2], channels |-> n, be |-> b] :
      sample \in SampleFormats, n \in {1, 2, 3}, b \in BOOLEAN }
    \cup [codec : {"G722"}, width : {1}, channels : {1, 2, 3}, be : {FALSE}]
    \cup [codec : {"Gsm"}, width : {MsBlock}, channels : {1}, be : {FALSE}]

SmallTotals == 0 .. 9
SmallLimits == {5, 100}
=============================================================================
