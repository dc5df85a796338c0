----------------------------- MODULE MCW64Walk ------------------------------
(***************************************************************************)
(* Small Wave64 files of up to five chunks, cut anywhere.                    *)
(***************************************************************************)
EXTENDS W64Walk

MCFileLens == {30, 70, 130, 181}

MCChunkSizes ==
  [g \in Guids |->
     CASE g = "fmt " -> {25, 26, 34, 124}
       [] g = "fact" -> {27, 28, 29}
       [] g = "data" -> {23, 25, 32}
       [] g = "other" -> {24, 31, 390}]
=============================================================================
