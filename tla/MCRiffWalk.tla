----------------------------- MODULE MCRiffWalk -----------------------------
(***************************************************************************)
(* Small files for RiffWalk.  The length cuts the file at any point of up to *)
(* six chunks; sizes are odd, even, too small, and the sentinel.             *)
(*                                                                          *)
(* Two studies, told apart by the length of the file: the order of chunks,    *)
(* without ds64, and the assignment of sizes, without LIST.                  *)
(***************************************************************************)
EXTENDS RiffWalkInv

OrderFileLens == {7, 31, 62}
SizesFileLens == {33, 66}
AllFileLens == OrderFileLens \cup SizesFileLens

AllRiffSizes == {0, 29, 42, 44}

(* Every mix of fmt, data, fact, LIST and others. *)
OrderChunkSizes ==
  [t \in Tags |->
     CASE t = "ds64" -> {}
       [] t = "fmt " -> {1, 2, 3}
       [] t = "fact" -> {3, 5}
       [] t = "LIST" -> {3, 4}
       [] t = "data" -> {1, 2, 44}
       [] t = "JUNK" -> {0, 9, 44}]

(* ds64, its size table and the sentinel in every place. *)
SizesChunkSizes ==
  [t \in Tags |->
     CASE t = "ds64" -> {3, 6, 44}
       [] t = "fmt " -> {2}
       [] t = "fact" -> {4, 44}
       [] t = "LIST" -> {}
       [] t = "data" -> {1, 44}
       [] t = "JUNK" -> {44}]

ChunkSizesOf(n) == IF n \in OrderFileLens THEN OrderChunkSizes ELSE SizesChunkSizes

AllChunkSizes == [t \in Tags |-> OrderChunkSizes[t] \cup SizesChunkSizes[t]]
SizesDs64Bodies == {[riff |-> 0, data |-> 3, samples |-> 0],
                    [riff |-> 58, data |-> 2, samples |-> 7],
                    [riff |-> 201, data |-> 1, samples |-> 0]}

Entry(t, n) == [tag |-> t, size |-> n]

SizesSizeTables ==
  {<<>>, <<Entry("JUNK", 2), Entry("JUNK", 1)>>, <<Entry("fact", 5), Entry("JUNK", 172)>>,
   <<Entry("JUNK", 198)>>}

(* The choice of sizes of the study the file belongs to.  No walk is cut: the *)
(* file ends, and every chunk header takes eight bytes of it.                *)
InStudy == \A i \in DOMAIN seen : seen[i].size \in ChunkSizesOf(fileLen)[seen[i].tag]

StudiedWalk == Walk /\ InStudy'

(* Wherever Walk can go on it can with sizes of the study, so the fairness    *)
(* is that of FairSpec.                                                     *)
MCSpec == Init /\ [][StudiedWalk \/ ReadFails]_vars /\ WF_vars(StudiedWalk)
=============================================================================
