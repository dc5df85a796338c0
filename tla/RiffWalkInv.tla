---------------------------- MODULE RiffWalkInv -----------------------------
(***************************************************************************)
(* The inductive invariant behind the theorems of RiffWalkProofs.            *)
(***************************************************************************)
EXTENDS RiffWalk

Chunks == [tag : Tags, size : Nat, len : Nat, at : Nat,
           samples : Nat, data : Nat \cup {NoSize}, table : Seq(Entries)]

(* The chunks whose bodies are behind the walk: all but the one in hand. *)
Behind == IF pc = "body" THEN 1 .. (Len(seen) - 1) ELSE DOMAIN seen

LastEnd == IF seen = <<>> THEN FormHead ELSE seen[Len(seen)].at + seen[Len(seen)].len

TypeInv ==
  /\ TypeOK
  /\ seen \in Seq(Chunks) /\ chunk \in Chunks
  /\ pending \in [at : Nat, declared : Nat \cup {NoSize}]
  /\ pc # "done" => result = "None"
  /\ pc = "start" => seen = <<>> /\ consumed = 0 /\ pos = 0

(* Where the walk stands, by the counter and by the chunks seen. *)
PlaceInv ==
  /\ pc # "done" => \A i \in DOMAIN seen : seen[i].at <= fileLen
  /\ lengthKnown /\ pc = "loop" => pos <= fileLen
  /\ pc = "loop" => (pos = FormHead + consumed /\ pos = LastEnd) \/ pos > fileLen
  /\ pc = "body" =>
       /\ seen # <<>> /\ chunk = seen[Len(seen)]
       /\ pos = chunk.at /\ pos <= fileLen /\ pos >= FormHead + ChunkHead
       /\ consumed = SatAdd(pos - FormHead,
                            IF chunk.size = SizeMax /\ chunk.tag \in OwnSentinel
                            THEN 0 ELSE chunk.len)
       /\ chunk.size # SizeMax \/ chunk.tag \in OwnSentinel => chunk.len = chunk.size

(* The walk holds the first fmt it has passed, *)
FmtInv ==
  pc # "done" =>
    IF fmt = 0 THEN \A i \in Behind : seen[i].tag # "fmt "
    ELSE fmt \in Behind /\ IsFirst(fmt, "fmt ")

(* the first data chunk it has passed, which has a size of its own, *)
DataInv ==
  pc # "done" =>
    IF pending = NoData THEN \A i \in Behind : seen[i].tag # "data"
    ELSE \E d \in Behind :
           /\ IsFirst(d, "data")
           /\ pending.at = seen[d].at
           /\ seen[d].size # SizeMax /\ pending.declared = seen[d].size

(* and the only ds64 chunk. *)
Ds64Inv ==
  pc # "done" =>
    IF ~sawDs64 THEN dsData = NoSize /\ \A i \in Behind : seen[i].tag # "ds64"
    ELSE \E k \in Behind : IsFirst(k, "ds64") /\ dsData = seen[k].data

(* The chunks whose length the size table gave. *)
Lookups == {i \in DOMAIN seen : NeedsTable(seen[i].tag, seen[i].size)}

(* Where in the ds64 table, `entries', every entry that is left and every     *)
(* entry taken comes from: both follow the order of the table, nothing is     *)
(* lost, and of each tag what was taken lies before what is left.            *)
Origins(entries, left, taken) ==
  /\ \A x \in DOMAIN table : table[x] = entries[left[x]]
  /\ \A x, y \in DOMAIN table : x < y => left[x] < left[y]
  /\ \A i \in Lookups : entries[taken[i]].tag = seen[i].tag /\ entries[taken[i]].size = seen[i].len
  /\ \A i, j \in Lookups : i < j /\ seen[i].tag = seen[j].tag => taken[i] < taken[j]
  /\ \A i \in Lookups, x \in DOMAIN table : table[x].tag = seen[i].tag => taken[i] < left[x]
  /\ \A p \in DOMAIN entries :
       (\E x \in DOMAIN table : left[x] = p) \/ (\E i \in Lookups : taken[i] = p)

(* TableInv: before ds64 there is no table and no lookup, after it every      *)
(* entry of its table is accounted for.                                      *)
TableInv ==
  IF sawDs64
  THEN \E k \in Numbers("ds64") :
         /\ IsFirst(k, "ds64")
         /\ \E left \in [DOMAIN table -> DOMAIN seen[k].table],
              taken \in [Lookups -> DOMAIN seen[k].table] :
              Origins(seen[k].table, left, taken)
  ELSE table = <<>> /\ Lookups = {}

(* CountInv: the walk holds the last count that the fact chunks it has seen   *)
(* state, apart from that of the only ds64 chunk; neither is read from the    *)
(* body in hand.                                                            *)
CountInv ==
  /\ pc # "done" =>
       /\ FactsSay(factSamples)
       /\ IF ~sawDs64 THEN dsSamples = NoSize
          ELSE \E k \in Behind :
                 /\ IsFirst(k, "ds64")
                 /\ dsSamples = IF seen[k].samples > 0 THEN seen[k].samples ELSE NoSize
       /\ pc = "body" => seen[Len(seen)].samples = 0
  /\ SampleCountIsItsOwn

(* WalkInv: the inductive invariant: between two chunks counter, position and *)
(* chunk boundary agree, and the options of the walk hold what they stand for. *)
WalkInv ==
  /\ TypeInv /\ PlaceInv /\ FmtInv /\ DataInv /\ Ds64Inv
  /\ ChunksAreAdjacent /\ FirstChunksWin /\ DeclaredSizeIsItsOwn
  /\ Rf64NeedsDs64 /\ CounterNeverOverflows

(* ToGo: how many steps the walk can take at most: the bytes in front of it,  *)
(* and a step for the form, a body, a header and the end.                     *)
StepsAt == [start |-> 4, body |-> 3, loop |-> 2, end |-> 1]

BytesAhead == Larger(fileLen - pos, 0)

ToGo == IF pc = "done" THEN 0 ELSE StepsAt[pc] + BytesAhead

(* WalkAdvances: no step of parse_header leaves it where it was: whatever the *)
(* chunks say, empty ones, sentinels and sizes past the end of the file       *)
(* included, fewer steps are left than before.                               *)
WalkAdvances == [][ToGo' < ToGo /\ ToGo' \in Nat]_vars
=============================================================================
