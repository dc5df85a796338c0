---------------------------- MODULE MCG726Stream ----------------------------
(* Windows of two bytes: a codeword straddles them at every width that can.      *)
EXTENDS G726Stream

SmallPayloads ==
  {<<>>, <<180>>, <<27, 201>>, <<180, 30, 199>>, <<39, 214, 91, 140, 233, 18, 167>>}
SmallLimits == {6, 100}
SmallCaps == {0, 1, 2, 5}
=============================================================================
