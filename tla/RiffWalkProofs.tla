--------------------------- MODULE RiffWalkProofs ---------------------------
(***************************************************************************)
(* Theorems about RiffWalk, for files of every length and all size fields,   *)
(* size tables and word lengths that its assumptions allow.                 *)
(***************************************************************************)
EXTENDS RiffWalkInv, SequenceTheorems, FiniteSetTheorems, TLAPS

-----------------------------------------------------------------------------
(* Facts about numbers and sequences.                                       *)

(* Every nonempty set of natural numbers has a least element.                *)
LEMMA LeastOf ==
  ASSUME NEW S \in SUBSET Nat, S # {}
  PROVE  \E i \in S : \A j \in S : i <= j
<1> DEFINE T == {0 .. i : i \in S}
           R == StrictSubsetOrdering(Nat)
<1>1. T \subseteq FiniteSubsetsOf(Nat) /\ T # {}
  <2>1. ASSUME NEW i \in S
        PROVE  IsFiniteSet(0 .. i) /\ 0 .. i \in SUBSET Nat
    <3>1. i \in Int /\ 0 \in Int
      OBVIOUS
    <3> QED BY <3>1, FS_Interval
  <2> QED BY <2>1 DEF FiniteSubsetsOf
<1>2. IsWellFoundedOn(R, FiniteSubsetsOf(Nat))
  BY FS_StrictSubsetOrderingWellFounded
<1>3. \E x \in T : \A y \in T : ~(<<y, x>> \in R)
  <2> HIDE DEF T, R
  <2> QED BY <1>1, <1>2, WFMin, Zenon
<1>4. PICK i \in S : \A y \in T : ~(<<y, 0 .. i>> \in R)
  BY <1>3
<1>5. ASSUME NEW j \in S, j < i
      PROVE  FALSE
  <2>1. 0 .. j \subseteq 0 .. i /\ i \in 0 .. i /\ i \notin 0 .. j
    BY <1>5
  <2>2. 0 .. j \in SUBSET Nat /\ 0 .. i \in SUBSET Nat
    OBVIOUS
  <2>3. <<0 .. j, 0 .. i>> \in R
    BY <2>1, <2>2 DEF StrictSubsetOrdering
  <2> QED BY <2>3, <1>4
<1> QED BY <1>5

(* The size table: the entry taken is there, and what is left is a table.    *)
LEMMA TableFacts ==
  ASSUME TypeOK, NEW tag, Listed(tag) # {}
  PROVE  /\ FirstListed(tag) \in DOMAIN table
         /\ table[FirstListed(tag)].size \in Nat
         /\ TableWithout(FirstListed(tag)) \in Seq(Entries)
<1> DEFINE f == FirstListed(tag)
<1>1. table \in Seq(Entries)
  BY DEF TypeOK
<1>2. Listed(tag) \in SUBSET Nat /\ Listed(tag) \subseteq DOMAIN table
  BY <1>1 DEF Listed
<1>3. \E i \in Listed(tag) : \A j \in Listed(tag) : i <= j
  BY <1>2, LeastOf
<1>4. f \in Listed(tag)
  BY <1>3 DEF FirstListed
<1>5. f \in 1 .. Len(table) /\ table[f] \in Entries
  BY <1>1, <1>2, <1>4
<1> HIDE DEF f
<1>6. SubSeq(table, 1, f - 1) \in Seq(Entries)
  <2>1. \A i \in 1 .. (f - 1) : table[i] \in Entries
    BY <1>1, <1>5
  <2>2. f - 1 \in Int
    BY <1>5
  <2> QED BY <2>1, <2>2, SubSeqProperties
<1>7. SubSeq(table, f + 1, Len(table)) \in Seq(Entries)
  <2>1. \A i \in (f + 1) .. Len(table) : table[i] \in Entries
    BY <1>1, <1>5
  <2>2. f + 1 \in Int /\ Len(table) \in Int
    BY <1>1, <1>5
  <2> QED BY <2>1, <2>2, SubSeqProperties
<1>8. TableWithout(f) \in Seq(Entries)
  BY <1>6, <1>7, ConcatProperties DEF TableWithout
<1>9. table[f].size \in Nat /\ f \in DOMAIN table
  BY <1>1, <1>5 DEF Entries
<1> QED BY <1>8, <1>9 DEF f

(* What the options and counters of the walk can hold.                       *)
LEMMA Numerals ==
  /\ WordMax \in Nat /\ SizeMax \in Nat /\ NoSize \notin Nat
  /\ \A n \in FileLens : n \in Nat /\ n + 8 <= WordMax
  /\ FmtCore \in Nat /\ Ds64Core \in Nat /\ EntryLen \in Nat
BY SourceAssumption, WalkAssumption DEF NoSize

LEMMA ZeroInRange == \A m \in Nat : 0 \in 0 .. m
OBVIOUS

LEMMA SatAddType ==
  ASSUME NEW a \in Nat, NEW b \in Nat
  PROVE  SatAdd(a, b) \in 0 .. WordMax
BY Numerals DEF SatAdd, Least

(* A read of n bytes followed by a skip reaches as far as one skip.          *)
LEMMA ReadThenSkip ==
  ASSUME fileLen \in FileLens, NEW p \in Nat, NEW n \in Nat, NEW m \in Nat, n <= m,
         Has(p, n), CanSkip(p + n, m - n)
  PROVE  CanSkip(p, m)
BY Numerals, SourceAssumption DEF Has, CanSkip

-----------------------------------------------------------------------------
(* Facts about the history of chunks.                                       *)

(* The history only grows: what is behind the walk stays, and so does the    *)
(* header of the chunk in hand.                                             *)
Kept ==
  /\ seen' \in Seq(Chunks) /\ Len(seen) <= Len(seen')
  /\ \A i \in Behind : seen'[i] = seen[i]
  /\ \A i \in DOMAIN seen :
       /\ seen'[i].tag = seen[i].tag /\ seen'[i].size = seen[i].size
       /\ seen'[i].len = seen[i].len /\ seen'[i].at = seen[i].at

LEMMA SeenFacts ==
  ASSUME seen \in Seq(Chunks)
  PROVE  /\ Len(seen) \in Nat /\ DOMAIN seen = 1 .. Len(seen)
         /\ Behind \subseteq DOMAIN seen
         /\ \A i \in DOMAIN seen :
              /\ seen[i] \in Chunks
              /\ seen[i].size \in Nat /\ seen[i].len \in Nat /\ seen[i].at \in Nat
<1>1. Len(seen) \in Nat /\ DOMAIN seen = 1 .. Len(seen)
  BY LenProperties
<1>2. \A i \in 1 .. Len(seen) : seen[i] \in Chunks
  BY ElementOfSeq
<1>3. \A c \in Chunks : c.size \in Nat /\ c.len \in Nat /\ c.at \in Nat
  BY DEF Chunks
<1>4. Behind \subseteq 1 .. Len(seen)
  BY <1>1 DEF Behind
<1> QED BY <1>1, <1>2, <1>3, <1>4

LEMMA KeptDomain ==
  ASSUME seen \in Seq(Chunks), Kept
  PROVE  /\ Len(seen') \in Nat /\ DOMAIN seen' = 1 .. Len(seen')
         /\ DOMAIN seen \subseteq DOMAIN seen'
BY SeenFacts DEF Kept

(* The first chunk with a tag stays the first.                               *)
LEMMA FirstStable ==
  ASSUME seen \in Seq(Chunks), Kept, NEW tag, NEW i, IsFirst(i, tag)
  PROVE  IsFirst(i, tag)'
<1>1. i \in DOMAIN seen /\ seen[i].tag = tag
  BY DEF IsFirst, Numbers
<1>2. i \in Numbers(tag)'
  BY <1>1, KeptDomain DEF Kept, Numbers
<1>3. ASSUME NEW j \in Numbers(tag)'
      PROVE  i <= j
  <2>1. j \in DOMAIN seen' /\ seen'[j].tag = tag /\ j \in Nat
    BY KeptDomain DEF Numbers
  <2>2. CASE j \in DOMAIN seen
    BY <2>1, <2>2 DEF Kept, IsFirst, Numbers
  <2>3. CASE j \notin DOMAIN seen
    <3>1. Len(seen) \in Nat /\ i \in 1 .. Len(seen) /\ j \notin 1 .. Len(seen)
      BY <2>3, <1>1, SeenFacts
    <3>2. j \in Nat /\ j >= 1
      BY <2>1, KeptDomain
    <3> QED BY <3>1, <3>2
  <2> QED BY <2>2, <2>3
<1> QED BY <1>2, <1>3 DEF IsFirst

(* A new chunk at the end, and what was learnt about the last one.           *)
LEMMA AppendFacts ==
  ASSUME seen \in Seq(Chunks), NEW c \in Chunks, seen' = Append(seen, c)
  PROVE  /\ Kept /\ Len(seen') = Len(seen) + 1
         /\ seen'[Len(seen) + 1] = c
         /\ \A i \in DOMAIN seen : seen'[i] = seen[i]
<1>1. /\ seen' \in Seq(Chunks) /\ Len(seen') = Len(seen) + 1
      /\ \A i \in 1 .. Len(seen) : seen'[i] = seen[i]
      /\ seen'[Len(seen) + 1] = c
  BY AppendProperties
<1> QED BY <1>1, SeenFacts DEF Kept

LEMMA LearnFacts ==
  ASSUME seen \in Seq(Chunks), pc = "body", seen # <<>>,
         NEW s \in Nat, NEW d \in Nat \cup {NoSize}, NEW t \in Seq(Entries),
         Learn(s, d, t)
  PROVE  /\ Kept /\ Len(seen') = Len(seen)
         /\ seen'[Len(seen)].data = d
<1> DEFINE n == Len(seen)
           new == [seen[n] EXCEPT !.samples = s, !.data = d, !.table = t]
<1>1. n \in 1 .. Len(seen) /\ seen[n] \in Chunks
  BY SeenFacts, EmptySeq
<1>2. new \in Chunks /\ new.data = d
  <2> HIDE DEF n
  <2>1. seen[n] \in Chunks
    BY <1>1 DEF n
  <2> QED BY <2>1 DEF Chunks
<1>3. new.tag = seen[n].tag /\ new.size = seen[n].size
      /\ new.len = seen[n].len /\ new.at = seen[n].at
  BY <1>1 DEF Chunks
<1>4. seen' = [seen EXCEPT ![n] = new]
  BY DEF Learn
<1> HIDE DEF new
<1>5. /\ seen' \in Seq(Chunks) /\ Len(seen') = Len(seen)
      /\ \A j \in 1 .. Len(seen) : seen'[j] = IF j = n THEN new ELSE seen[j]
  BY <1>1, <1>2, <1>4, ExceptSeq
<1>6. DOMAIN seen = 1 .. Len(seen) /\ Len(seen) \in Nat /\ Behind = 1 .. Len(seen) - 1
  BY <1>1, SeenFacts DEF Behind
<1>7. Len(seen) <= Len(seen') /\ \A i \in Behind : seen'[i] = seen[i]
  BY <1>5, <1>6
<1>8. \A i \in DOMAIN seen :
        /\ seen'[i].tag = seen[i].tag /\ seen'[i].size = seen[i].size
        /\ seen'[i].len = seen[i].len /\ seen'[i].at = seen[i].at
  <2> TAKE i \in DOMAIN seen
  <2>1. CASE i = n
    BY <2>1, <1>3, <1>5, <1>6
  <2>2. CASE i # n
    BY <2>2, <1>5, <1>6
  <2> QED BY <2>1, <2>2
<1>9. seen'[Len(seen)].data = d
  BY <1>1, <1>2, <1>5, <1>6
<1> QED BY <1>5, <1>7, <1>8, <1>9 DEF Kept

LEMMA NothingLearnt ==
  ASSUME seen \in Seq(Chunks), seen' = seen
  PROVE  Kept /\ Len(seen') = Len(seen)
BY SeenFacts DEF Kept

-----------------------------------------------------------------------------
(* What a step that neither returns nor passes a chunk of interest keeps.    *)

(* parse_header returns an error: nothing is claimed of the locals any more. *)
LEMMA FailKeeps ==
  ASSUME WalkInv, pc # "done", NEW e, Fail(e), e # "Ok", lengthKnown => e # "Panic",
         seen' \in Seq(Chunks), Len(seen) <= Len(seen'), ChunksAreAdjacent'
  PROVE  WalkInv'
<1>1. TypeInv'
  <2>1. Len(seen) \in Nat /\ Len(seen') \in Nat /\ fmt \in 0 .. Len(seen)
    BY SeenFacts, LenProperties DEF WalkInv, TypeInv, TypeOK
  <2>2. fmt' \in 0 .. Len(seen')
    BY <2>1 DEF Fail, found
  <2>3. TypeOK'
    BY <2>2 DEF WalkInv, TypeInv, TypeOK, SourceTypeOK, Fail, found, source, ds64Vars
  <2> QED BY <2>3 DEF WalkInv, TypeInv, Fail, found
<1>2. PlaceInv' /\ FmtInv' /\ DataInv' /\ Ds64Inv'
  BY DEF Fail, PlaceInv, FmtInv, DataInv, Ds64Inv
<1>3. FirstChunksWin' /\ DeclaredSizeIsItsOwn' /\ Rf64NeedsDs64'
  BY DEF Fail, FirstChunksWin, DeclaredSizeIsItsOwn, Rf64NeedsDs64
<1>4. CounterNeverOverflows'
  BY DEF Fail, CounterNeverOverflows, source
<1> QED BY <1>1, <1>2, <1>3, <1>4 DEF WalkInv

(* While the walk runs nothing is returned. *)
LEMMA NothingReturned ==
  ASSUME WalkInv, pc # "done", UNCHANGED result
  PROVE  /\ result' = "None"
         /\ FirstChunksWin' /\ DeclaredSizeIsItsOwn' /\ Rf64NeedsDs64'
         /\ CounterNeverOverflows'
BY DEF WalkInv, TypeInv, FirstChunksWin, DeclaredSizeIsItsOwn, Rf64NeedsDs64,
       CounterNeverOverflows

LEMMA AdjacentAt ==
  ASSUME ChunksAreAdjacent, NEW i \in DOMAIN seen
  PROVE  LET before == IF i = 1 THEN FormHead ELSE seen[i - 1].at + seen[i - 1].len
         IN seen[i].at = before + (before % 2) + ChunkHead
BY Zenon DEF ChunksAreAdjacent

LEMMA AdjacentKept ==
  ASSUME WalkInv, Kept, Len(seen') = Len(seen)
  PROVE  ChunksAreAdjacent'
<1>1. seen \in Seq(Chunks) /\ DOMAIN seen = 1 .. Len(seen) /\ Len(seen) \in Nat
  BY SeenFacts DEF WalkInv, TypeInv
<1>2. DOMAIN seen' = 1 .. Len(seen)
  BY <1>1, KeptDomain
<1>3. SUFFICES ASSUME NEW i \in 1 .. Len(seen)
      PROVE  LET before == IF i = 1 THEN FormHead ELSE seen'[i - 1].at + seen'[i - 1].len
             IN seen'[i].at = before + (before % 2) + ChunkHead
  BY <1>2 DEF ChunksAreAdjacent
<1>4. seen'[i].at = seen[i].at
  BY <1>1 DEF Kept
<1>5. i # 1 => seen'[i - 1].at = seen[i - 1].at /\ seen'[i - 1].len = seen[i - 1].len
  BY <1>1 DEF Kept
<1> QED BY <1>1, <1>4, <1>5 DEF WalkInv, ChunksAreAdjacent

(* The fmt, data and ds64 chunks the walk holds, over a step that passes no  *)
(* other chunk of that kind.                                                *)
LEMMA FmtKept ==
  ASSUME seen \in Seq(Chunks), FmtInv, Kept, pc # "done", fmt' = fmt,
         Behind \subseteq Behind',
         \A i \in Behind' : i \in Behind \/ (i \in DOMAIN seen /\ (fmt # 0 \/ seen[i].tag # "fmt "))
  PROVE  FmtInv'
<1>1. CASE fmt = 0
  BY <1>1 DEF FmtInv, Kept
<1>2. CASE fmt # 0
  <2>1. fmt \in Behind /\ IsFirst(fmt, "fmt ")
    BY <1>2 DEF FmtInv
  <2>2. \A j : IsFirst(j, "fmt ") => IsFirst(j, "fmt ")'
    BY FirstStable
  <2>3. fmt' \in Behind' /\ \A j : j = fmt => IsFirst(j, "fmt ")'
    BY <2>1, <2>2
  <2>4. IsFirst(fmt, "fmt ")'
    BY <2>3 DEF IsFirst
  <2> QED BY <1>2, <2>3, <2>4 DEF FmtInv
<1> QED BY <1>1, <1>2

LEMMA DataKept ==
  ASSUME seen \in Seq(Chunks), DataInv, Kept, pc # "done", pending' = pending,
         Behind \subseteq Behind',
         \A i \in Behind' :
           i \in Behind \/ (i \in DOMAIN seen /\ (pending # NoData \/ seen[i].tag # "data"))
  PROVE  DataInv'
<1>1. CASE pending = NoData
  BY <1>1 DEF DataInv, Kept
<1>2. CASE pending # NoData
  <2>1. PICK d \in Behind :
           /\ IsFirst(d, "data")
           /\ pending.at = seen[d].at
           /\ seen[d].size # SizeMax /\ pending.declared = seen[d].size
    BY <1>2 DEF DataInv
  <2>2. IsFirst(d, "data")'
    BY <2>1, FirstStable
  <2>3. seen'[d] = seen[d] /\ d \in Behind'
    BY <2>1 DEF Kept
  <2> QED BY <1>2, <2>1, <2>2, <2>3 DEF DataInv
<1> QED BY <1>1, <1>2

LEMMA Ds64Kept ==
  ASSUME seen \in Seq(Chunks), Ds64Inv, Kept, pc # "done",
         sawDs64' = sawDs64, dsData' = dsData,
         Behind \subseteq Behind',
         \A i \in Behind' :
           i \in Behind \/ (i \in DOMAIN seen /\ (sawDs64 \/ seen[i].tag # "ds64"))
  PROVE  Ds64Inv'
<1>1. CASE ~sawDs64
  BY <1>1 DEF Ds64Inv, Kept
<1>2. CASE sawDs64
  <2>1. PICK k \in Behind : IsFirst(k, "ds64") /\ dsData = seen[k].data
    BY <1>2 DEF Ds64Inv
  <2>2. IsFirst(k, "ds64")'
    BY <2>1, FirstStable
  <2>3. seen'[k] = seen[k] /\ k \in Behind'
    BY <2>1 DEF Kept
  <2> QED BY <1>2, <2>1, <2>2, <2>3 DEF Ds64Inv
<1> QED BY <1>1, <1>2

-----------------------------------------------------------------------------
(* A body is passed: whichever way its bytes are read or skipped, the walk   *)
(* then stands, by the counter and by the chunks seen, on the end of the     *)
(* chunk, or it is past the end of the file.                                *)
LEMMA BodyFacts ==
  ASSUME WalkInv, pc = "body"
  PROVE  /\ Len(seen) \in Nat /\ Len(seen) >= 1 /\ DOMAIN seen = 1 .. Len(seen)
         /\ Behind = 1 .. (Len(seen) - 1)
         /\ chunk = seen[Len(seen)] /\ chunk \in Chunks
         /\ chunk.len \in Nat /\ chunk.size \in Nat /\ chunk.at \in Nat
         /\ pos \in Nat /\ pos = chunk.at /\ pos <= fileLen /\ pos >= FormHead
         /\ fileLen \in FileLens /\ fileLen \in Nat /\ fileLen + 8 <= WordMax
<1>1. seen \in Seq(Chunks) /\ seen # <<>> /\ chunk = seen[Len(seen)] /\ chunk \in Chunks
  BY DEF WalkInv, TypeInv, PlaceInv
<1>2. Len(seen) \in Nat /\ Len(seen) >= 1 /\ DOMAIN seen = 1 .. Len(seen)
  BY <1>1, EmptySeq, LenProperties
<1>3. Behind = 1 .. (Len(seen) - 1)
  BY DEF Behind
<1>4. chunk.len \in Nat /\ chunk.size \in Nat /\ chunk.at \in Nat
  BY <1>1 DEF Chunks
<1>5. fileLen \in FileLens /\ fileLen \in Nat /\ fileLen + 8 <= WordMax
  BY Numerals DEF WalkInv, TypeInv, TypeOK, SourceTypeOK
<1>6. pos = chunk.at /\ pos <= fileLen /\ pos >= FormHead
  BY <1>4, <1>5 DEF WalkInv, PlaceInv, FormHead, ChunkHead
<1> QED BY <1>1, <1>2, <1>3, <1>4, <1>5, <1>6

LEMMA PassKeeps ==
  ASSUME WalkInv, pc = "body", pc' = "loop",
         CanSkip(pos, chunk.len), pos' = SatAdd(pos, chunk.len),
         consumed' = SatAdd(pos - FormHead, chunk.len),
         UNCHANGED <<source, result>>, Kept, Len(seen') = Len(seen)
  PROVE  /\ PlaceInv' /\ ChunksAreAdjacent'
         /\ pos' \in 0 .. WordMax /\ consumed' \in 0 .. WordMax
         /\ Behind' = 1 .. Len(seen)
<1> DEFINE n == Len(seen)
<1>1. /\ n \in Nat /\ n >= 1 /\ DOMAIN seen = 1 .. n
      /\ chunk = seen[n] /\ chunk.len \in Nat /\ chunk.at \in Nat
      /\ pos \in Nat /\ pos = chunk.at /\ pos <= fileLen /\ pos >= FormHead
      /\ fileLen \in FileLens /\ fileLen \in Nat /\ fileLen + 8 <= WordMax
  BY BodyFacts
<1>2. seen' # <<>> /\ DOMAIN seen' = 1 .. n /\ Len(seen') = n
  BY <1>1, KeptDomain, EmptySeq DEF WalkInv, TypeInv
<1>3. LastEnd' = chunk.at + chunk.len
  <2>1. seen'[n].at = chunk.at /\ seen'[n].len = chunk.len
    BY <1>1 DEF Kept
  <2> QED BY <1>2, <2>1 DEF LastEnd
<1>4. pos' \in 0 .. WordMax /\ consumed' \in 0 .. WordMax
  <2>1. pos - FormHead \in Nat
    BY <1>1 DEF FormHead
  <2> QED BY <1>1, <2>1, SatAddType
<1>5. fileLen' = fileLen /\ lengthKnown' = lengthKnown
  BY DEF source
<1>6. ASSUME Has(pos, chunk.len)
      PROVE  pos' <= fileLen' /\ pos' = FormHead + consumed' /\ pos' = LastEnd'
  <2>1. pos + chunk.len <= fileLen
    BY <1>1, <1>6 DEF Has
  <2>2. pos' = pos + chunk.len /\ consumed' = pos - FormHead + chunk.len
    BY <2>1, <1>1, Numerals DEF SatAdd, Least, FormHead
  <2>3. pos' = FormHead + consumed' /\ pos' <= fileLen' /\ pos' = LastEnd'
    BY <2>1, <2>2, <1>1, <1>3, <1>5 DEF FormHead
  <2> QED BY <2>3
<1>7. ASSUME ~Has(pos, chunk.len)
      PROVE  ~lengthKnown' /\ pos' > fileLen'
  <2>1. ~lengthKnown /\ pos + chunk.len > fileLen
    BY <1>1, <1>7 DEF Has, CanSkip
  <2>2. pos' > fileLen'
    BY <2>1, <1>1, <1>5, Numerals DEF SatAdd, Least
  <2> QED BY <2>1, <2>2, <1>5
<1>8. PlaceInv'
  <2>1. lengthKnown' => pos' <= fileLen'
    BY <1>6, <1>7
  <2>2. (pos' = FormHead + consumed' /\ pos' = LastEnd') \/ pos' > fileLen'
    BY <1>6, <1>7
  <2>3. pc' = "loop" /\ pc' # "body"
    OBVIOUS
  <2>4. \A i \in DOMAIN seen' : seen'[i].at <= fileLen'
    BY <1>1, <1>2, <1>5 DEF Kept, WalkInv, PlaceInv
  <2> QED BY <2>1, <2>2, <2>3, <2>4, Zenon DEF PlaceInv
<1>9. Behind' = 1 .. n
  BY <1>2 DEF Behind
<1> HIDE DEF n
<1> QED BY <1>4, <1>8, <1>9, AdjacentKept DEF n

(* A chunk that counted its length before its body is counted exactly once.   *)
LEMMA CountedOnce ==
  ASSUME WalkInv, pc = "body", chunk.size # SizeMax \/ chunk.tag \notin OwnSentinel
  PROVE  consumed = SatAdd(pos - FormHead, chunk.len)
BY DEF WalkInv, PlaceInv

(* What each of the passed bodies keeps.  A chunk of another kind leaves the  *)
(* fmt, data and ds64 the walk holds as they are.                            *)
LEMMA OthersKept ==
  ASSUME WalkInv, pc = "body", Kept, Behind' = 1 .. Len(seen)
  PROVE  /\ fmt' = fmt /\ (fmt # 0 \/ chunk.tag # "fmt ") => FmtInv'
         /\ pending' = pending /\ (pending # NoData \/ chunk.tag # "data") => DataInv'
         /\ sawDs64' = sawDs64 /\ dsData' = dsData /\ (sawDs64 \/ chunk.tag # "ds64")
              => Ds64Inv'
<1>1. /\ Len(seen) \in Nat /\ Len(seen) >= 1 /\ DOMAIN seen = 1 .. Len(seen)
      /\ Behind = 1 .. (Len(seen) - 1) /\ chunk = seen[Len(seen)]
  BY BodyFacts
<1>2. Behind \subseteq Behind' /\ Behind' = Behind \cup {Len(seen)} /\ Len(seen) \in DOMAIN seen
  BY <1>1
<1>3. seen \in Seq(Chunks) /\ FmtInv /\ DataInv /\ Ds64Inv /\ pc # "done"
  BY DEF WalkInv, TypeInv
<1>4. ASSUME fmt' = fmt, fmt # 0 \/ chunk.tag # "fmt "
      PROVE  FmtInv'
  BY <1>1, <1>2, <1>3, <1>4, FmtKept
<1>5. ASSUME pending' = pending, pending # NoData \/ chunk.tag # "data"
      PROVE  DataInv'
  BY <1>1, <1>2, <1>3, <1>5, DataKept
<1>6. ASSUME sawDs64' = sawDs64, dsData' = dsData, sawDs64 \/ chunk.tag # "ds64"
      PROVE  Ds64Inv'
  BY <1>1, <1>2, <1>3, <1>6, Ds64Kept
<1> QED BY <1>4, <1>5, <1>6

(* No chunk with the tag in hand came before: this one is the first.          *)
LEMMA ThisIsFirst ==
  ASSUME WalkInv, pc = "body", \A i \in Behind : seen[i].tag # chunk.tag
  PROVE  IsFirst(Len(seen), chunk.tag)
<1>1. /\ Len(seen) \in Nat /\ Len(seen) >= 1 /\ DOMAIN seen = 1 .. Len(seen)
      /\ Behind = 1 .. (Len(seen) - 1) /\ chunk = seen[Len(seen)]
  BY BodyFacts
<1>2. \A i \in DOMAIN seen : seen[i].tag = chunk.tag => i = Len(seen)
  BY <1>1
<1> QED BY <1>1, <1>2 DEF IsFirst, Numbers

LEMMA SkippedStep ==
  ASSUME WalkInv, SkippedBody
  PROVE  WalkInv'
<1>1. pc = "body" /\ pc' = "loop" /\ chunk.tag \in {"LIST", "JUNK"}
  BY DEF SkippedBody, Body, ToNext
<1>2. Kept /\ Len(seen') = Len(seen)
  BY NothingLearnt DEF WalkInv, TypeInv, SkippedBody, ToNext
<1>3. chunk.tag \notin OwnSentinel
  BY <1>1 DEF OwnSentinel
<1>4. /\ PlaceInv' /\ ChunksAreAdjacent'
      /\ pos' \in 0 .. WordMax /\ consumed' \in 0 .. WordMax
      /\ Behind' = 1 .. Len(seen)
  BY <1>1, <1>2, <1>3, CountedOnce, PassKeeps DEF SkippedBody, ToNext, returned
<1>5. FmtInv' /\ DataInv' /\ Ds64Inv'
  BY <1>1, <1>2, <1>4, OthersKept DEF SkippedBody, ds64Vars
<1>6. TypeInv'
  BY <1>1, <1>4 DEF WalkInv, TypeInv, TypeOK, SourceTypeOK, SkippedBody, ToNext,
                    source, returned, ds64Vars
<1> QED BY <1>1, <1>4, <1>5, <1>6, NothingReturned DEF WalkInv, SkippedBody, ToNext, returned

LEMMA FmtStep ==
  ASSUME WalkInv, FmtBody
  PROVE  WalkInv'
<1>1. pc = "body" /\ pc' = "loop" /\ chunk.tag = "fmt " /\ chunk.size # SizeMax
  BY DEF FmtBody, Body, ToNext
<1>2. Kept /\ Len(seen') = Len(seen)
  BY NothingLearnt DEF WalkInv, TypeInv, FmtBody, ToNext
<1>3. CanSkip(pos, chunk.len)
  <2>1. CASE fmt # 0
    BY <2>1 DEF FmtBody, FmtRead
  <2>2. CASE fmt = 0
    <3>1. Has(pos, FmtCore) /\ CanSkip(pos + FmtCore, chunk.len - FmtCore) /\ chunk.len >= FmtCore
      BY <2>2 DEF FmtBody, FmtRead
    <3>2. FmtCore \in Nat /\ fileLen \in FileLens /\ pos \in Nat /\ chunk.len \in Nat
      BY <1>1, BodyFacts, Numerals
    <3> QED BY <3>1, <3>2, ReadThenSkip
  <2> QED BY <2>1, <2>2
<1>4. /\ PlaceInv' /\ ChunksAreAdjacent'
      /\ pos' \in 0 .. WordMax /\ consumed' \in 0 .. WordMax
      /\ Behind' = 1 .. Len(seen)
  BY <1>1, <1>2, <1>3, CountedOnce, PassKeeps DEF FmtBody, ToNext, returned
<1>5. DataInv' /\ Ds64Inv'
  BY <1>1, <1>2, <1>4, OthersKept DEF FmtBody, ds64Vars
<1>6. Len(seen) \in Nat /\ Len(seen) >= 1
  BY <1>1, BodyFacts
<1>7. FmtInv'
  <2>1. CASE fmt # 0
    BY <2>1, <1>1, <1>2, <1>4, OthersKept DEF FmtBody
  <2>2. CASE fmt = 0
    <3>1. \A i \in Behind : seen[i].tag # "fmt "
      BY <2>2, <1>1 DEF WalkInv, FmtInv
    <3>2. IsFirst(Len(seen), "fmt ")
      BY <3>1, <1>1, ThisIsFirst
    <3>3. fmt' = Len(seen) /\ seen' = seen
      BY <2>2 DEF FmtBody, ToNext
    <3>4. IsFirst(fmt, "fmt ")'
      BY <3>2, <3>3 DEF IsFirst, Numbers
    <3>5. fmt' # 0 /\ fmt' \in Behind'
      BY <3>3, <1>4, <1>6
    <3> QED BY <3>4, <3>5 DEF FmtInv
  <2> QED BY <2>1, <2>2
<1>8. TypeInv'
  <2>1. fmt' \in 0 .. Len(seen')
    <3>1. fmt \in 0 .. Len(seen)
      BY DEF WalkInv, TypeInv, TypeOK
    <3>2. fmt' \in {fmt, Len(seen)} /\ seen' = seen
      BY DEF FmtBody, ToNext
    <3> QED BY <3>1, <3>2, <1>6
  <2> QED BY <1>1, <1>4, <2>1 DEF WalkInv, TypeInv, TypeOK, SourceTypeOK, FmtBody,
                                  ToNext, source, returned, ds64Vars
<1> QED BY <1>1, <1>4, <1>5, <1>7, <1>8, NothingReturned DEF WalkInv, FmtBody, ToNext, returned

LEMMA FactStep ==
  ASSUME WalkInv, FactBody
  PROVE  WalkInv'
<1>1. pc = "body" /\ pc' = "loop" /\ chunk.tag = "fact"
  BY DEF FactBody, Body
<1>2. PICK n \in FactCounts : factSamples' = FactCount(n) /\ Learn(n, NoSize, <<>>)
  BY DEF FactBody
<1>3. n \in Nat /\ <<>> \in Seq(Entries) /\ NoSize \in Nat \cup {NoSize}
  BY WalkAssumption, EmptySeq
<1>4. Kept /\ Len(seen') = Len(seen)
  BY <1>1, <1>2, <1>3, LearnFacts DEF WalkInv, TypeInv, PlaceInv
<1>5. CanSkip(pos, chunk.len)
  <2>1. Has(pos, FieldLen) /\ CanSkip(pos + FieldLen, chunk.len - FieldLen)
        /\ chunk.len >= FieldLen
    BY DEF FactBody
  <2>2. FieldLen \in Nat /\ fileLen \in FileLens /\ pos \in Nat /\ chunk.len \in Nat
    BY <1>1, BodyFacts DEF FieldLen
  <2> QED BY <2>1, <2>2, ReadThenSkip
<1>6. chunk.tag \notin OwnSentinel
  BY <1>1 DEF OwnSentinel
<1>7. /\ PlaceInv' /\ ChunksAreAdjacent'
      /\ pos' \in 0 .. WordMax /\ consumed' \in 0 .. WordMax
      /\ Behind' = 1 .. Len(seen)
  BY <1>1, <1>4, <1>5, <1>6, CountedOnce, PassKeeps DEF FactBody, returned
<1>8. FmtInv' /\ DataInv' /\ Ds64Inv'
  BY <1>1, <1>4, <1>7, OthersKept DEF FactBody, ds64Vars
<1>9. TypeInv'
  <2>1. factSamples' \in Nat \cup {NoSize}
    BY <1>2, <1>3 DEF FactCount, WalkInv, TypeInv, TypeOK
  <2>2. fmt' \in 0 .. Len(seen')
    BY <1>4 DEF WalkInv, TypeInv, TypeOK, FactBody
  <2> QED BY <1>1, <1>4, <1>7, <2>1, <2>2
        DEF WalkInv, TypeInv, TypeOK, SourceTypeOK, FactBody, Kept, source, returned, ds64Vars
<1> QED BY <1>1, <1>7, <1>8, <1>9, NothingReturned DEF WalkInv, FactBody, returned

LEMMA Ds64Step ==
  ASSUME WalkInv, Ds64Body
  PROVE  WalkInv'
<1>1. pc = "body" /\ pc' = "loop" /\ chunk.tag = "ds64" /\ ~sawDs64 /\ chunk.len >= Ds64Core
  BY DEF Ds64Body, Ds64Accepted, Body
<1>2. PICK b \in Ds64Bodies, t \in SizeTables :
        /\ TableFits(Len(t)) /\ Ds64Read(Len(t))
        /\ sawDs64' = TRUE /\ table' = t
        /\ limit' = (IF b.riff >= FieldLen THEN b.riff - FieldLen ELSE limit)
        /\ dsData' = b.data
        /\ dsSamples' = (IF b.samples > 0 THEN b.samples ELSE dsSamples)
        /\ Learn(b.samples, b.data, t)
  BY DEF Ds64Body
<1>3. b.samples \in Nat /\ b.data \in Nat /\ b.riff \in Nat /\ t \in Seq(Entries)
  BY WalkAssumption
<1>4. Kept /\ Len(seen') = Len(seen) /\ seen'[Len(seen)].data = b.data
  BY <1>1, <1>2, <1>3, LearnFacts DEF WalkInv, TypeInv, PlaceInv
<1>5. /\ Len(seen) \in Nat /\ Len(seen) >= 1
      /\ fileLen \in FileLens /\ pos \in Nat /\ pos >= FormHead /\ pos <= fileLen
      /\ fileLen \in Nat /\ fileLen + 8 <= WordMax
      /\ chunk.len \in Nat /\ chunk.size \in Nat
  BY <1>1, BodyFacts
<1>6. CanSkip(pos, chunk.len)
  <2> DEFINE fields == Ds64Core + Len(t) * EntryLen
  <2>1. Has(pos, fields) /\ CanSkip(pos + fields, chunk.len - fields)
    BY <1>2 DEF Ds64Read
  <2>2. Len(t) * EntryLen \in Nat /\ Len(t) * EntryLen <= chunk.len - Ds64Core
    <3>1. Len(t) \in Nat /\ EntryLen \in Nat
      BY <1>3, Numerals
    <3> QED BY <3>1, <1>2 DEF TableFits
  <2>3. fields \in Nat /\ fields <= chunk.len
    BY <2>2, <1>5, Numerals
  <2> HIDE DEF fields
  <2> QED BY <2>1, <2>3, <1>5, ReadThenSkip
<1>7. consumed' = SatAdd(pos - FormHead, chunk.len)
  <2>1. consumed' = SatAdd(consumed, Ds64Counted)
    BY DEF Ds64Body
  <2>2. CASE chunk.size = SizeMax
    <3>1. consumed = SatAdd(pos - FormHead, 0) /\ Ds64Counted = chunk.len
      BY <2>2, <1>1 DEF WalkInv, PlaceInv, OwnSentinel, Ds64Counted
    <3>2. consumed = pos - FormHead
      BY <3>1, <1>5, Numerals DEF SatAdd, Least, FormHead
    <3> QED BY <2>1, <3>1, <3>2
  <2>3. CASE chunk.size # SizeMax
    <3>1. consumed = SatAdd(pos - FormHead, chunk.len) /\ Ds64Counted = 0
      BY <2>3, <1>1, CountedOnce DEF Ds64Counted
    <3>2. consumed \in 0 .. WordMax
      BY DEF WalkInv, TypeInv, TypeOK
    <3> QED BY <2>1, <3>1, <3>2, Numerals DEF SatAdd, Least
  <2> QED BY <2>2, <2>3
<1>8. /\ PlaceInv' /\ ChunksAreAdjacent'
      /\ pos' \in 0 .. WordMax /\ consumed' \in 0 .. WordMax
      /\ Behind' = 1 .. Len(seen)
  BY <1>1, <1>4, <1>6, <1>7, PassKeeps DEF Ds64Body, returned
<1>9. FmtInv' /\ DataInv'
  BY <1>1, <1>4, <1>8, OthersKept DEF Ds64Body
<1>10. Ds64Inv'
  <2>1. \A i \in Behind : seen[i].tag # "ds64"
    BY <1>1 DEF WalkInv, Ds64Inv
  <2>2. IsFirst(Len(seen), "ds64")
    BY <2>1, <1>1, ThisIsFirst
  <2>3. IsFirst(Len(seen), "ds64")'
    BY <2>2, <1>4, FirstStable DEF WalkInv, TypeInv
  <2>4. Len(seen) \in Behind' /\ dsData' = seen'[Len(seen)].data /\ sawDs64'
    BY <1>2, <1>4, <1>5, <1>8
  <2>5. \E k \in Behind' : IsFirst(k, "ds64")' /\ dsData' = seen'[k].data
    <3>1. Len(seen') \in Behind' /\ dsData' = seen'[Len(seen')].data
      BY <2>4, <1>4
    <3>2. IsFirst(Len(seen), "ds64")'
      BY <2>3, <1>4 DEF IsFirst
    <3> QED BY <3>1, <3>2
  <2> QED BY <2>4, <2>5 DEF Ds64Inv
<1>11. TypeInv'
  <2>1. limit' \in Nat \cup {NoSize} /\ dsData' \in Nat /\ dsSamples' \in Nat \cup {NoSize}
    BY <1>2, <1>3 DEF FieldLen, WalkInv, TypeInv, TypeOK
  <2>2. fmt' \in 0 .. Len(seen')
    BY <1>4 DEF WalkInv, TypeInv, TypeOK, Ds64Body
  <2>3. table' \in Seq(Entries) /\ sawDs64' \in BOOLEAN
    BY <1>2, <1>3
  <2> QED BY <1>1, <1>4, <1>8, <2>1, <2>2, <2>3
        DEF WalkInv, TypeInv, TypeOK, SourceTypeOK, Ds64Body, Kept, source, returned
<1> QED BY <1>1, <1>8, <1>9, <1>10, <1>11, NothingReturned DEF WalkInv, Ds64Body, returned

LEMMA DataSkippedStep ==
  ASSUME WalkInv, DataSkipped
  PROVE  WalkInv'
<1>1. pc = "body" /\ pc' = "loop" /\ chunk.tag = "data" /\ chunk.size # SizeMax
  BY DEF DataSkipped, Body, ToNext
<1>2. Kept /\ Len(seen') = Len(seen) /\ seen' = seen
  BY NothingLearnt DEF WalkInv, TypeInv, DataSkipped, ToNext
<1>3. /\ PlaceInv' /\ ChunksAreAdjacent'
      /\ pos' \in 0 .. WordMax /\ consumed' \in 0 .. WordMax
      /\ Behind' = 1 .. Len(seen)
  BY <1>1, <1>2, CountedOnce, PassKeeps DEF DataSkipped, ToNext, returned
<1>4. FmtInv' /\ Ds64Inv'
  BY <1>1, <1>2, <1>3, OthersKept DEF DataSkipped, ds64Vars
<1>5. /\ Len(seen) \in Nat /\ Len(seen) >= 1 /\ chunk = seen[Len(seen)]
      /\ pos \in Nat /\ pos = chunk.at /\ chunk.len \in Nat
  BY <1>1, BodyFacts
<1>6. chunk.len = chunk.size
  BY <1>1 DEF WalkInv, PlaceInv
<1>7. pending' \in [at : Nat, declared : Nat \cup {NoSize}] /\ DataInv'
  <2>1. CASE pending # NoData
    <3>1. pending' = pending
      BY <2>1 DEF DataSkipped, KeptData
    <3>2. DataInv'
      BY <2>1, <3>1, <1>1, <1>2, <1>3, OthersKept
    <3> QED BY <3>1, <3>2 DEF WalkInv, TypeInv
  <2>2. CASE pending = NoData
    <3>1. pending' = [at |-> pos, declared |-> chunk.len]
      BY <2>2, <1>1 DEF DataSkipped, KeptData, Declared
    <3>2. \A i \in Behind : seen[i].tag # "data"
      BY <2>2, <1>1 DEF WalkInv, DataInv
    <3>3. IsFirst(Len(seen), "data")
      BY <3>2, <1>1, ThisIsFirst
    <3>4. IsFirst(Len(seen), "data")'
      BY <3>3, <1>2, FirstStable DEF WalkInv, TypeInv
    <3>5. /\ Len(seen) \in Behind' /\ pending'.at = seen'[Len(seen)].at
          /\ seen'[Len(seen)].size # SizeMax
          /\ pending'.declared = seen'[Len(seen)].size
      BY <3>1, <1>1, <1>2, <1>3, <1>5, <1>6
    <3>6. pending'.declared \in Nat /\ pending' \in [at : Nat, declared : Nat \cup {NoSize}]
      BY <3>1, <1>5
    <3>7. pending' # NoData
      BY <3>6, Numerals DEF NoData
    <3>8. \E d \in Behind' :
             /\ IsFirst(d, "data")' /\ pending'.at = seen'[d].at
             /\ seen'[d].size # SizeMax /\ pending'.declared = seen'[d].size
      <4>1. Len(seen') = Len(seen)
        BY <1>2
      <4>2. IsFirst(Len(seen), "data")' /\ Len(seen') \in Behind'
        BY <3>4, <3>5, <4>1 DEF IsFirst
      <4> QED BY <3>5, <4>1, <4>2
    <3> QED BY <3>6, <3>7, <3>8 DEF DataInv
  <2> QED BY <2>1, <2>2
<1>8. TypeInv'
  <2>1. fmt' \in 0 .. Len(seen')
    BY <1>2 DEF WalkInv, TypeInv, TypeOK, DataSkipped
  <2> QED BY <1>1, <1>2, <1>3, <1>7, <2>1
        DEF WalkInv, TypeInv, TypeOK, SourceTypeOK, DataSkipped, ToNext, source,
            returned, ds64Vars
<1> QED BY <1>1, <1>3, <1>4, <1>7, <1>8, NothingReturned
      DEF WalkInv, DataSkipped, ToNext, returned

-----------------------------------------------------------------------------
(* The walk returns a header.                                               *)

(* The payload found is in the first data chunk and the walk holds the first *)
(* fmt chunk and the only ds64 chunk of the file.                           *)
LEMMA FinishKeeps ==
  ASSUME WalkInv, pc # "done", NEW at \in 0 .. WordMax, NEW declared, fmt' = 0,
         Finish(at, declared), ~LacksDs64,
         IsFirst(fmt, "fmt "),
         NEW d \in DOMAIN seen, IsFirst(d, "data"), at = seen[d].at,
         declared = (IF seen[d].size # SizeMax THEN seen[d].size ELSE dsData),
         sawDs64 => \E k \in DOMAIN seen : IsFirst(k, "ds64") /\ dsData = seen[k].data,
         ~sawDs64 => dsData = NoSize /\ Numbers("ds64") = {}
  PROVE  WalkInv'
<1>1. /\ pc' = "done" /\ result' = "Ok" /\ pos' = at /\ seen' = seen
      /\ container' = container
      /\ header'.at = at /\ header'.declared = declared /\ header'.fmt = fmt
  BY DEF Finish
<1>2. TypeInv'
  <2>1. TypeOK'
    <3>1. fmt' \in 0 .. Len(seen')
      <4>1. Len(seen) \in Nat
        BY SeenFacts DEF WalkInv, TypeInv
      <4>2. fmt' = 0 /\ Len(seen') = Len(seen)
        BY <1>1
      <4> QED BY <4>1, <4>2, ZeroInRange, Zenon
    <3> QED BY <1>1, <3>1 DEF WalkInv, TypeInv, TypeOK, SourceTypeOK, Finish, source, ds64Vars
  <2> QED BY <1>1, <2>1 DEF WalkInv, TypeInv, Finish
<1>3. PlaceInv' /\ FmtInv' /\ DataInv' /\ Ds64Inv'
  BY <1>1 DEF PlaceInv, FmtInv, DataInv, Ds64Inv
<1>4. ChunksAreAdjacent'
  BY <1>1 DEF WalkInv, ChunksAreAdjacent
<1>5. d \in Numbers("data")
  BY DEF IsFirst
<1>6. FirstChunksWin'
  BY <1>1, <1>5 DEF FirstChunksWin, IsFirst, Numbers
<1>7. DeclaredSizeIsItsOwn'
  <2>1. CASE seen[d].size # SizeMax
    BY <2>1, <1>1, <1>5 DEF DeclaredSizeIsItsOwn, IsFirst, Numbers
  <2>2. CASE seen[d].size = SizeMax /\ ~sawDs64
    BY <2>2, <1>1, <1>5 DEF DeclaredSizeIsItsOwn, IsFirst, Numbers
  <2>3. CASE seen[d].size = SizeMax /\ sawDs64
    <3>1. PICK k \in DOMAIN seen : IsFirst(k, "ds64") /\ dsData = seen[k].data
      BY <2>3
    <3>2. k \in Numbers("ds64")
      BY <3>1 DEF IsFirst
    <3> QED BY <2>3, <3>1, <3>2, <1>1, <1>5 DEF DeclaredSizeIsItsOwn, IsFirst, Numbers
  <2> QED BY <2>1, <2>2, <2>3
<1>8. Rf64NeedsDs64'
  <2>1. container = "Rf64" => \E k \in DOMAIN seen : IsFirst(k, "ds64")
    BY DEF LacksDs64
  <2>2. container = "Rf64" => Numbers("ds64") # {}
    BY <2>1 DEF IsFirst
  <2> QED BY <2>2, <1>1 DEF Rf64NeedsDs64, Numbers
<1>9. CounterNeverOverflows'
  BY <1>1 DEF CounterNeverOverflows
<1> QED BY <1>2, <1>3, <1>4, <1>6, <1>7, <1>8, <1>9 DEF WalkInv

LEMMA DataStep ==
  ASSUME WalkInv, DataBody
  PROVE  WalkInv'
<1>1. pc = "body" /\ chunk.tag = "data" /\ pending = NoData /\ fmt # 0
  BY DEF DataBody, Body
<1>2. /\ Len(seen) \in Nat /\ Len(seen) >= 1 /\ DOMAIN seen = 1 .. Len(seen)
      /\ Behind = 1 .. (Len(seen) - 1)
      /\ chunk = seen[Len(seen)] /\ pos = chunk.at /\ pos \in Nat
      /\ pos <= fileLen /\ fileLen \in Nat /\ fileLen + 8 <= WordMax
  BY <1>1, BodyFacts
<1>3. CASE LacksDs64
  <2>1. Fail("MissingChunk") /\ UNCHANGED seen
    BY <1>3 DEF DataBody
  <2>2. seen' \in Seq(Chunks) /\ Len(seen) <= Len(seen') /\ ChunksAreAdjacent'
    BY <1>2, <2>1 DEF WalkInv, TypeInv, ChunksAreAdjacent
  <2> QED BY <1>1, <2>1, <2>2, FailKeeps
<1>4. CASE ~LacksDs64
  <2>1. fmt' = 0 /\ Finish(pos, Declared)
    BY <1>4 DEF DataBody
  <2>2. IsFirst(fmt, "fmt ")
    BY <1>1 DEF WalkInv, FmtInv
  <2>3. \A i \in Behind : seen[i].tag # "data"
    BY <1>1 DEF WalkInv, DataInv
  <2>4. IsFirst(Len(seen), "data")
    BY <2>3, <1>1, ThisIsFirst
  <2>5. chunk.size # SizeMax => chunk.len = chunk.size
    BY <1>1 DEF WalkInv, PlaceInv
  <2>6. Declared = (IF seen[Len(seen)].size # SizeMax THEN seen[Len(seen)].size ELSE dsData)
    BY <2>5, <1>2 DEF Declared
  <2>7. sawDs64 => \E k \in DOMAIN seen : IsFirst(k, "ds64") /\ dsData = seen[k].data
    BY <1>1, <1>2 DEF WalkInv, Ds64Inv
  <2>8. ~sawDs64 => dsData = NoSize /\ Numbers("ds64") = {}
    BY <1>1, <1>2 DEF WalkInv, Ds64Inv, Numbers
  <2>9. pos \in 0 .. WordMax /\ Len(seen) \in DOMAIN seen /\ pos = seen[Len(seen)].at
    BY <1>2, Numerals
  <2> QED BY <1>1, <1>4, <2>1, <2>2, <2>4, <2>6, <2>7, <2>8, <2>9, FinishKeeps
<1> QED BY <1>3, <1>4

LEMMA EndStep ==
  ASSUME WalkInv, WalkEnds
  PROVE  WalkInv'
<1>1. pc = "end" /\ pc # "done" /\ Behind = DOMAIN seen
  BY DEF WalkEnds, Behind
<1>2. CASE fmt = 0 \/ pending = NoData \/ LacksDs64
  <2>1. Fail("MissingChunk") /\ UNCHANGED seen
    BY <1>2 DEF WalkEnds
  <2>2. seen' \in Seq(Chunks) /\ Len(seen) <= Len(seen') /\ ChunksAreAdjacent'
    BY <2>1, SeenFacts DEF WalkInv, TypeInv, ChunksAreAdjacent
  <2> QED BY <1>1, <2>1, <2>2, FailKeeps
<1>3. CASE fmt # 0 /\ pending # NoData /\ ~LacksDs64
  <2>1. fmt' = 0 /\ Finish(pending.at, pending.declared)
    BY <1>3 DEF WalkEnds
  <2>2. IsFirst(fmt, "fmt ")
    BY <1>1, <1>3 DEF WalkInv, FmtInv
  <2>3. PICK d \in DOMAIN seen :
           /\ IsFirst(d, "data") /\ pending.at = seen[d].at
           /\ seen[d].size # SizeMax /\ pending.declared = seen[d].size
    BY <1>1, <1>3 DEF WalkInv, DataInv
  <2>4. sawDs64 => \E k \in DOMAIN seen : IsFirst(k, "ds64") /\ dsData = seen[k].data
    BY <1>1 DEF WalkInv, Ds64Inv
  <2>5. ~sawDs64 => dsData = NoSize /\ Numbers("ds64") = {}
    BY <1>1 DEF WalkInv, Ds64Inv, Numbers
  <2>6. pending.at \in 0 .. WordMax
    <3>1. pending.at \in Nat
      BY DEF WalkInv, TypeInv
    <3>2. pending.at <= fileLen
      BY <1>1, <2>3 DEF WalkInv, PlaceInv
    <3>3. fileLen \in Nat /\ fileLen + 8 <= WordMax
      BY Numerals DEF WalkInv, TypeInv, TypeOK, SourceTypeOK
    <3> QED BY <3>1, <3>2, <3>3, Numerals
  <2> QED BY <1>1, <1>3, <2>1, <2>2, <2>3, <2>4, <2>5, <2>6, FinishKeeps
<1> QED BY <1>2, <1>3

-----------------------------------------------------------------------------
(* The loop.                                                                *)

LEMMA LoopFacts ==
  ASSUME WalkInv, pc = "loop"
  PROVE  /\ seen \in Seq(Chunks) /\ Len(seen) \in Nat /\ DOMAIN seen = 1 .. Len(seen)
         /\ Behind = DOMAIN seen
         /\ pos \in Nat /\ consumed \in Nat /\ Padding \in {0, 1}
         /\ fileLen \in FileLens /\ fileLen \in Nat /\ fileLen + 8 <= WordMax
         /\ pos <= fileLen => pos = FormHead + consumed /\ pos = LastEnd
         /\ lengthKnown => pos <= fileLen
         /\ WordMax \in Nat
<1>1. seen \in Seq(Chunks) /\ Len(seen) \in Nat /\ DOMAIN seen = 1 .. Len(seen)
  BY SeenFacts DEF WalkInv, TypeInv
<1>2. /\ pos \in Nat /\ consumed \in Nat
      /\ fileLen \in FileLens /\ fileLen \in Nat /\ fileLen + 8 <= WordMax
  BY Numerals DEF WalkInv, TypeInv, TypeOK, SourceTypeOK
<1>3. Padding \in {0, 1}
  BY <1>2 DEF Padding
<1>4. Behind = DOMAIN seen
  BY DEF Behind
<1>5. /\ pos <= fileLen => pos = FormHead + consumed /\ pos = LastEnd
      /\ lengthKnown => pos <= fileLen
  BY <1>2 DEF WalkInv, PlaceInv
<1> QED BY <1>1, <1>2, <1>3, <1>4, <1>5, Numerals

LEMMA LeaveStep ==
  ASSUME WalkInv, LeaveLoop
  PROVE  WalkInv'
<1>1. pc = "loop" /\ pc' = "end" /\ seen' = seen /\ result' = result /\ fileLen' = fileLen
  BY DEF LeaveLoop, returned, source
<1>2. pos' \in 0 .. WordMax /\ consumed' \in 0 .. WordMax
  <2>1. /\ pos \in Nat /\ consumed \in Nat /\ Padding \in {0, 1}
        /\ fileLen \in Nat /\ fileLen + 8 <= WordMax /\ WordMax \in Nat
        /\ pos <= fileLen => pos = FormHead + consumed
        /\ pos <= WordMax /\ consumed <= WordMax
    BY <1>1, LoopFacts DEF WalkInv, TypeInv, TypeOK, SourceTypeOK
  <2>2. CASE UNCHANGED <<pos, consumed>>
    BY <2>1, <2>2
  <2>3. CASE /\ Has(pos, Padding) /\ consumed' = consumed + Padding
             /\ pos' = pos + Padding \/ pos' = Larger(pos, fileLen)
    <3>1. consumed + Padding <= WordMax /\ pos + Padding <= WordMax
      BY <2>1, <2>3 DEF Has, FormHead
    <3>2. Larger(pos, fileLen) \in 0 .. WordMax
      BY <2>1 DEF Larger
    <3> QED BY <2>1, <2>3, <3>1, <3>2
  <2> QED BY <2>2, <2>3 DEF LeaveLoop
<1>3. Kept /\ Behind = DOMAIN seen /\ Behind' = DOMAIN seen
  BY <1>1, NothingLearnt DEF WalkInv, TypeInv, Behind
<1>4. FmtInv' /\ DataInv' /\ Ds64Inv'
  BY <1>1, <1>3, FmtKept, DataKept, Ds64Kept
     DEF WalkInv, TypeInv, LeaveLoop, found, ds64Vars
<1>5. PlaceInv' /\ ChunksAreAdjacent'
  BY <1>1 DEF WalkInv, PlaceInv, ChunksAreAdjacent
<1>6. TypeInv'
  BY <1>1, <1>2 DEF WalkInv, TypeInv, TypeOK, SourceTypeOK, LeaveLoop, source, found,
                    returned, ds64Vars
<1> QED BY <1>1, <1>4, <1>5, <1>6, NothingReturned DEF WalkInv

(* A chunk header: the counter, the position and the end of the chunk before *)
(* agree, so that the padding decided from the counter leads to the next one. *)
LEMMA HeaderStep ==
  ASSUME WalkInv, ReadHeader
  PROVE  WalkInv'
<1> DEFINE head == consumed + Padding + ChunkHead
           at == pos + Padding + ChunkHead
           n == Len(seen)
           Given(t, s) ==
               IF NeedsTable(t, s) /\ Listed(t) = {}
               THEN Fail("MalformedChunk") /\ UNCHANGED seen
               ELSE LET len == ChunkLen(t, s)
                        this == Chunk(t, s, len, at)
                    IN /\ seen' = Append(seen, this)
                       /\ IF s # SizeMax /\ Beyond(head + len)
                          THEN Fail("MalformedChunk")
                          ELSE /\ chunk' = this
                               /\ pos' = at
                               /\ consumed' = SatAdd(head, Counted(t, s))
                               /\ table' = (IF NeedsTable(t, s)
                                            THEN TableWithout(FirstListed(t)) ELSE table)
                               /\ pc' = "body"
                               /\ UNCHANGED <<source, container, limit, fmt, pending,
                                              factSamples, sawDs64, dsData, dsSamples,
                                              returned>>
<1>1. pc = "loop" /\ Has(pos, Padding + ChunkHead)
  BY DEF ReadHeader
<1>2. /\ seen \in Seq(Chunks) /\ n \in Nat /\ DOMAIN seen = 1 .. n
      /\ Behind = DOMAIN seen
      /\ pos \in Nat /\ consumed \in Nat /\ Padding \in {0, 1}
      /\ fileLen \in FileLens /\ fileLen \in Nat /\ fileLen + 8 <= WordMax
      /\ pos <= fileLen => pos = FormHead + consumed /\ pos = LastEnd
      /\ WordMax \in Nat
  BY <1>1, LoopFacts
<1>3. at <= fileLen /\ pos <= fileLen
  BY <1>1, <1>2 DEF Has, ChunkHead
<1>4. pos = FormHead + consumed /\ pos = LastEnd
  BY <1>2, <1>3
<1>5. PICK tag \in Tags : \E size \in ChunkSizes[tag] : Given(tag, size)
  BY DEF ReadHeader
<1>6. PICK size \in ChunkSizes[tag] : Given(tag, size)
  BY <1>5
<1>7. size \in Nat
  BY WalkAssumption
<1>8. CASE NeedsTable(tag, size) /\ Listed(tag) = {}
  <2>1. Fail("MalformedChunk") /\ seen' = seen
    BY <1>6, <1>8
  <2>2. seen' \in Seq(Chunks) /\ Len(seen) <= Len(seen') /\ ChunksAreAdjacent'
    BY <1>2, <2>1 DEF WalkInv, ChunksAreAdjacent
  <2> QED BY <1>1, <2>1, <2>2, FailKeeps
<1>9. CASE ~(NeedsTable(tag, size) /\ Listed(tag) = {})
  <2> DEFINE len == ChunkLen(tag, size)
             this == Chunk(tag, size, len, at)
  <2>1. len \in Nat /\ (~NeedsTable(tag, size) => len = size)
    BY <1>7, <1>9, TableFacts DEF ChunkLen, WalkInv, TypeInv
  <2>2. /\ this \in Chunks /\ this.tag = tag /\ this.size = size
        /\ this.len = len /\ this.at = at
    BY <1>2, <1>7, <2>1, EmptySeq DEF Chunk, Chunks, ChunkHead, NoSize
  <2>3. seen' = Append(seen, this)
    BY <1>6, <1>9
  <2> HIDE DEF this
  <2>4. /\ Kept /\ Len(seen') = n + 1 /\ seen'[n + 1] = this
        /\ \A i \in DOMAIN seen : seen'[i] = seen[i]
    BY <1>2, <2>2, <2>3, AppendFacts
  <2>5. seen' \in Seq(Chunks) /\ DOMAIN seen' = 1 .. (n + 1)
    BY <1>2, <2>4, KeptDomain DEF Kept
  <2>6. ChunksAreAdjacent'
    <3>1. SUFFICES ASSUME NEW i \in 1 .. (n + 1)
          PROVE  LET before == IF i = 1 THEN FormHead ELSE seen'[i - 1].at + seen'[i - 1].len
                 IN seen'[i].at = before + (before % 2) + ChunkHead
      BY <2>5 DEF ChunksAreAdjacent
    <3>2. CASE i <= n
      <4>1. seen'[i] = seen[i] /\ (i # 1 => seen'[i - 1] = seen[i - 1])
        BY <3>2, <1>2, <2>4
      <4>2. LET before == IF i = 1 THEN FormHead ELSE seen[i - 1].at + seen[i - 1].len
            IN seen[i].at = before + (before % 2) + ChunkHead
        <5>1. ChunksAreAdjacent /\ i \in DOMAIN seen
          BY <3>2, <1>2 DEF WalkInv
        <5> QED BY <5>1, AdjacentAt, Zenon
      <4>3. CASE i = 1
        BY <4>1, <4>2, <4>3
      <4>4. CASE i # 1
        BY <4>1, <4>2, <4>4
      <4> QED BY <4>3, <4>4
    <3>3. CASE i = n + 1
      <4>1. LastEnd = IF i = 1 THEN FormHead ELSE seen'[i - 1].at + seen'[i - 1].len
        <5>1. CASE n = 0
          BY <5>1, <3>3, <1>2, EmptySeq DEF LastEnd
        <5>2. CASE n # 0
          BY <5>2, <3>3, <1>2, <2>4, EmptySeq DEF LastEnd
        <5> QED BY <5>1, <5>2
      <4>2. pos % 2 = Padding
        BY <1>2, <1>4 DEF Padding, FormHead
      <4>3. seen'[i].at = pos + (pos % 2) + ChunkHead
        BY <3>3, <2>2, <2>4, <4>2
      <4> QED BY <4>1, <4>3, <1>4
    <3> QED BY <3>2, <3>3, <1>2
  <2>7. CASE size # SizeMax /\ Beyond(head + len)
    <3>1. Fail("MalformedChunk")
      BY <1>6, <1>9, <2>7
    <3>2. Len(seen) <= Len(seen')
      BY <1>2, <2>4
    <3> QED BY <1>1, <2>5, <2>6, <3>1, <3>2, FailKeeps
  <2>8. CASE ~(size # SizeMax /\ Beyond(head + len))
    <3>1. /\ chunk' = this /\ pos' = at
          /\ consumed' = SatAdd(head, Counted(tag, size))
          /\ table' = (IF NeedsTable(tag, size)
                       THEN TableWithout(FirstListed(tag)) ELSE table)
          /\ pc' = "body"
          /\ UNCHANGED <<source, container, limit, fmt, pending,
                         factSamples, sawDs64, dsData, dsSamples, returned>>
      BY <1>6, <1>9, <2>8 DEF this
    <3>2. Behind' = DOMAIN seen
      BY <1>2, <2>4, <3>1 DEF Behind
    <3>3. FmtInv' /\ DataInv' /\ Ds64Inv'
      BY <1>1, <1>2, <2>4, <3>1, <3>2, FmtKept, DataKept, Ds64Kept DEF WalkInv, TypeInv
    <3>4. Counted(tag, size) = (IF size = SizeMax /\ tag \in OwnSentinel THEN 0 ELSE len)
      BY DEF Counted
    <3>5. head \in Nat /\ at \in Nat /\ head = at - FormHead /\ at >= FormHead + ChunkHead
      BY <1>2, <1>4 DEF FormHead, ChunkHead
    <3>6. consumed' = SatAdd(pos' - FormHead,
                             IF chunk'.size = SizeMax /\ chunk'.tag \in OwnSentinel
                             THEN 0 ELSE chunk'.len)
      BY <2>2, <3>1, <3>4, <3>5
    <3>7. chunk'.size # SizeMax \/ chunk'.tag \in OwnSentinel => chunk'.len = chunk'.size
      BY <2>1, <2>2, <3>1 DEF NeedsTable
    <3>8. PlaceInv'
      <4>1. /\ pc' = "body" /\ seen' # <<>> /\ chunk' = seen'[Len(seen')]
            /\ pos' = chunk'.at /\ pos' <= fileLen' /\ pos' >= FormHead + ChunkHead
        BY <1>2, <1>3, <2>2, <2>4, <2>5, <3>1, <3>5, EmptySeq DEF source
      <4>2. \A i \in DOMAIN seen' : seen'[i].at <= fileLen'
        <5>1. SUFFICES ASSUME NEW i \in 1 .. (n + 1)
              PROVE  seen'[i].at <= fileLen
          BY <2>5, <3>1 DEF source
        <5>2. CASE i <= n
          BY <5>2, <1>1, <1>2, <2>4 DEF WalkInv, PlaceInv
        <5>3. CASE i = n + 1
          BY <5>3, <1>3, <2>2, <2>4
        <5> QED BY <5>2, <5>3, <1>2
      <4> QED BY <4>1, <4>2, <3>6, <3>7, Zenon DEF PlaceInv
    <3>9. TypeInv'
      <4>1. table' \in Seq(Entries)
        BY <1>9, <3>1, TableFacts DEF WalkInv, TypeInv, TypeOK
      <4>2. consumed' \in 0 .. WordMax /\ pos' \in 0 .. WordMax
        <5>1. Counted(tag, size) \in Nat
          BY <2>1, <3>4
        <5>2. pos' = at /\ at \in 0 .. WordMax
          BY <1>2, <1>3, <3>1, <3>5
        <5> QED BY <3>1, <3>5, <5>1, <5>2, SatAddType
      <4>3. fmt' \in 0 .. Len(seen')
        BY <1>2, <2>4, <3>1 DEF WalkInv, TypeInv, TypeOK
      <4>4. chunk' \in Chunks
        BY <2>2, <3>1
      <4> QED BY <1>1, <2>5, <3>1, <4>1, <4>2, <4>3, <4>4
            DEF WalkInv, TypeInv, TypeOK, SourceTypeOK, source, returned
    <3> QED BY <1>1, <2>6, <3>1, <3>3, <3>8, <3>9, NothingReturned DEF WalkInv, returned
  <2> QED BY <2>7, <2>8
<1> QED BY <1>8, <1>9

-----------------------------------------------------------------------------
(* The form, the refusals, and the theorems.                                *)

LEMMA FormStep ==
  ASSUME WalkInv, ReadForm
  PROVE  WalkInv'
<1>1. /\ pc = "start" /\ pc' = "loop" /\ seen' = seen /\ pos' = FormHead
      /\ consumed' = consumed /\ Has(0, FormHead)
      /\ UNCHANGED <<source, consumed, chunk, found, returned, seen>>
  BY DEF ReadForm
<1>2. PICK c \in Containers, size \in RiffSizes :
        /\ container' = c
        /\ limit' = IF c = "Rf64" \/ size < FieldLen \/ size = SizeMax
                    THEN NoSize ELSE size - FieldLen
  BY DEF ReadForm
<1>3. seen = <<>> /\ consumed = 0
  BY <1>1 DEF WalkInv, TypeInv
<1>4. fileLen \in Nat /\ fileLen + 8 <= WordMax /\ FormHead <= fileLen
  BY <1>1, Numerals DEF WalkInv, TypeInv, TypeOK, SourceTypeOK, Has, FormHead
<1>5. limit' \in Nat \cup {NoSize}
  <2>1. size \in Nat
    BY WalkAssumption
  <2> QED BY <2>1, <1>2 DEF FieldLen
<1>6. TypeInv'
  <2>1. pos' \in 0 .. WordMax
    BY <1>1, <1>4, Numerals DEF FormHead
  <2> QED BY <1>1, <1>2, <1>5, <2>1
        DEF WalkInv, TypeInv, TypeOK, SourceTypeOK, source, found, returned, ds64Vars
<1>7. PlaceInv'
  <2>1. pos' <= fileLen' /\ pos' = FormHead + consumed' /\ pos' = LastEnd'
    BY <1>1, <1>3, <1>4 DEF LastEnd, FormHead, source
  <2>2. DOMAIN seen' = {}
    BY <1>1, <1>3, EmptySeq
  <2> QED BY <1>1, <2>1, <2>2, Zenon DEF PlaceInv
<1>8. Kept /\ Behind = DOMAIN seen /\ Behind' = DOMAIN seen
  BY <1>1, NothingLearnt DEF WalkInv, TypeInv, Behind
<1>9. FmtInv' /\ DataInv' /\ Ds64Inv'
  BY <1>1, <1>8, FmtKept, DataKept, Ds64Kept DEF WalkInv, TypeInv, found, ds64Vars
<1>10. ChunksAreAdjacent'
  BY <1>1 DEF WalkInv, ChunksAreAdjacent
<1> QED BY <1>1, <1>6, <1>7, <1>9, <1>10, NothingReturned DEF WalkInv, returned

LEMMA RefusalKeeps ==
  ASSUME WalkInv, pc # "done", NEW e, Fail(e), e # "Ok", lengthKnown => e # "Panic",
         UNCHANGED seen
  PROVE  WalkInv'
<1>1. seen \in Seq(Chunks) /\ Len(seen) \in Nat
  BY SeenFacts DEF WalkInv, TypeInv
<1>2. seen' \in Seq(Chunks) /\ Len(seen) <= Len(seen') /\ ChunksAreAdjacent'
  BY <1>1 DEF WalkInv, ChunksAreAdjacent
<1> QED BY <1>2, FailKeeps

(* The counter fits the word as long as the position is inside the file.     *)
LEMMA OverflowNeedsUnknownLength ==
  ASSUME WalkInv, CounterOverflows
  PROVE  ~lengthKnown
<1>1. /\ pc = "loop" /\ Has(pos, Padding) /\ consumed + Padding + ChunkHead > WordMax
  BY DEF CounterOverflows
<1>2. /\ pos \in Nat /\ consumed \in Nat /\ Padding \in {0, 1}
      /\ fileLen \in Nat /\ fileLen + 8 <= WordMax /\ WordMax \in Nat
      /\ pos <= fileLen => pos = FormHead + consumed
      /\ lengthKnown => pos <= fileLen
  BY <1>1, LoopFacts
<1>3. SUFFICES ASSUME lengthKnown PROVE FALSE
  OBVIOUS
<1>4. consumed + FormHead + Padding <= fileLen
  BY <1>1, <1>2, <1>3 DEF Has, FormHead
<1> QED BY <1>1, <1>2, <1>4 DEF FormHead, ChunkHead

LEMMA RefusalStep ==
  ASSUME WalkInv,
         \/ ReadFails \/ ShortForm \/ NotWave \/ CounterOverflows \/ ShortHeader
         \/ BodyRefused
  PROVE  WalkInv'
<1>1. CASE ReadFails
  BY <1>1, RefusalKeeps DEF ReadFails
<1>2. CASE ShortForm
  BY <1>2, RefusalKeeps DEF ShortForm
<1>3. CASE NotWave
  BY <1>3, RefusalKeeps DEF NotWave
<1>4. CASE CounterOverflows
  BY <1>4, OverflowNeedsUnknownLength, RefusalKeeps DEF CounterOverflows
<1>5. CASE ShortHeader
  BY <1>5, RefusalKeeps DEF ShortHeader
<1>6. CASE Ds64Refused
  BY <1>6, RefusalKeeps DEF Ds64Refused, Body
<1>7. CASE FmtRefused
  BY <1>7, RefusalKeeps DEF FmtRefused, Body
<1>8. CASE FactRefused
  BY <1>8, RefusalKeeps DEF FactRefused, Body
<1>9. CASE SkippedRefused
  BY <1>9, RefusalKeeps DEF SkippedRefused, Body
<1>10. CASE DataRefused
  BY <1>10, RefusalKeeps DEF DataRefused, Body
<1> QED BY <1>1, <1>2, <1>3, <1>4, <1>5, <1>6, <1>7, <1>8, <1>9, <1>10 DEF BodyRefused

LEMMA InitInv == Init => WalkInv
<1> SUFFICES ASSUME Init PROVE WalkInv
  OBVIOUS
<1>1. fileLen \in FileLens /\ WordMax \in Nat /\ pos = 0 /\ seen = <<>> /\ pc = "start"
  BY Numerals DEF Init, SourceInit
<1>2. /\ seen \in Seq(Chunks) /\ <<>> \in Seq(Entries) /\ Len(seen) = 0 /\ DOMAIN seen = {}
  BY <1>1, EmptySeq
<1>3. TypeInv
  <2>1. NoChunk \in Chunks
    BY <1>2 DEF NoChunk, Chunk, Chunks, Tags, NoSize
  <2>2. NoData \in [at : Nat, declared : Nat \cup {NoSize}]
    BY DEF NoData
  <2>3. pos \in 0 .. WordMax /\ consumed \in 0 .. WordMax /\ fmt \in 0 .. Len(seen)
    BY <1>1, <1>2 DEF Init
  <2>4. TypeOK
    BY <1>1, <1>2, <2>3 DEF Init, SourceInit, TypeOK, SourceTypeOK, Containers
  <2> QED BY <1>1, <1>2, <2>1, <2>2, <2>4 DEF Init, TypeInv
<1>4. PlaceInv /\ ChunksAreAdjacent
  BY <1>1, <1>2 DEF PlaceInv, ChunksAreAdjacent
<1>5. Behind = {}
  BY <1>1, <1>2 DEF Behind
<1>6. FmtInv /\ DataInv /\ Ds64Inv
  BY <1>5 DEF Init, FmtInv, DataInv, Ds64Inv
<1> QED BY <1>3, <1>4, <1>6
      DEF Init, WalkInv, FirstChunksWin, DeclaredSizeIsItsOwn, Rf64NeedsDs64,
          CounterNeverOverflows

LEMMA StutterInv == WalkInv /\ UNCHANGED vars => WalkInv'
<1> SUFFICES ASSUME WalkInv, UNCHANGED vars PROVE WalkInv'
  OBVIOUS
<1>1. TypeInv' /\ PlaceInv'
  BY DEF WalkInv, vars, source, found, ds64Vars, returned, TypeInv, TypeOK, SourceTypeOK,
         PlaceInv, LastEnd
<1>2. FmtInv' /\ DataInv' /\ Ds64Inv'
  BY DEF WalkInv, vars, found, ds64Vars, FmtInv, DataInv, Ds64Inv, Behind, IsFirst, Numbers
<1>3. ChunksAreAdjacent' /\ FirstChunksWin' /\ DeclaredSizeIsItsOwn'
  BY DEF WalkInv, vars, returned, ChunksAreAdjacent, FirstChunksWin, DeclaredSizeIsItsOwn,
         IsFirst, Numbers
<1>4. Rf64NeedsDs64' /\ CounterNeverOverflows'
  BY DEF WalkInv, vars, source, returned, Rf64NeedsDs64, CounterNeverOverflows, Numbers
<1> QED BY <1>1, <1>2, <1>3, <1>4 DEF WalkInv

LEMMA StepInv == WalkInv /\ Next => WalkInv'
<1> SUFFICES ASSUME WalkInv, Next PROVE WalkInv'
  OBVIOUS
<1>1. CASE ReadForm        BY <1>1, FormStep
<1>2. CASE LeaveLoop       BY <1>2, LeaveStep
<1>3. CASE ReadHeader      BY <1>3, HeaderStep
<1>4. CASE Ds64Body        BY <1>4, Ds64Step
<1>5. CASE FmtBody         BY <1>5, FmtStep
<1>6. CASE FactBody        BY <1>6, FactStep
<1>7. CASE SkippedBody     BY <1>7, SkippedStep
<1>8. CASE DataBody        BY <1>8, DataStep
<1>9. CASE DataSkipped     BY <1>9, DataSkippedStep
<1>10. CASE WalkEnds       BY <1>10, EndStep
<1>11. CASE \/ ReadFails \/ ShortForm \/ NotWave \/ CounterOverflows \/ ShortHeader
            \/ BodyRefused
  BY <1>11, RefusalStep
<1> QED BY <1>1, <1>2, <1>3, <1>4, <1>5, <1>6, <1>7, <1>8, <1>9, <1>10, <1>11
      DEF Next, Walk, Open, Loop, BodyRead

(* The inductive invariant of the walk, for every file.                      *)
THEOREM WalkInductive == Spec => []WalkInv
BY InitInv, StepInv, StutterInv, PTL DEF Spec

(* The locals of parse_header keep their types: no sum leaves the word.       *)
THEOREM WalkTypeCorrect == Spec => []TypeOK
<1>1. WalkInv => TypeOK
  BY DEF WalkInv, TypeInv
<1> QED BY <1>1, WalkInductive, PTL

(* The counter that decides padding and limits follows the stream position.   *)
THEOREM CounterInStep == Spec => []CounterFollowsPosition
<1>1. WalkInv => CounterFollowsPosition
  BY DEF WalkInv, PlaceInv, CounterFollowsPosition
<1> QED BY <1>1, WalkInductive, PTL

(* No chunk is read at a place where the file has none.                       *)
THEOREM WalkStaysOnChunks == Spec => []ChunksAreAdjacent
<1>1. WalkInv => ChunksAreAdjacent
  BY DEF WalkInv
<1> QED BY <1>1, WalkInductive, PTL

(* The first data and the first fmt chunk win, in every order of chunks.      *)
THEOREM FirstWins == Spec => []FirstChunksWin
<1>1. WalkInv => FirstChunksWin
  BY DEF WalkInv
<1> QED BY <1>1, WalkInductive, PTL

(* No RF64 file is read without its ds64 chunk.                               *)
THEOREM Rf64HasDs64 == Spec => []Rf64NeedsDs64
<1>1. WalkInv => Rf64NeedsDs64
  BY DEF WalkInv
<1> QED BY <1>1, WalkInductive, PTL

(* With a known length the counter never passes the end of the word.          *)
THEOREM NoCounterOverflow == Spec => []CounterNeverOverflows
<1>1. WalkInv => CounterNeverOverflows
  BY DEF WalkInv
<1> QED BY <1>1, WalkInductive, PTL
-----------------------------------------------------------------------------
(* The size table: which entry each sentinel chunk took.                     *)

(* What is left of the table when its entry f is taken out.                   *)
LEMMA WithoutFacts ==
  ASSUME table \in Seq(Entries), NEW f \in DOMAIN table
  PROVE  /\ TableWithout(f) \in Seq(Entries)
         /\ DOMAIN TableWithout(f) = 1 .. (Len(table) - 1)
         /\ \A x \in 1 .. (Len(table) - 1) :
              /\ x < f => TableWithout(f)[x] = table[x]
              /\ x >= f => TableWithout(f)[x] = table[x + 1]
<1> DEFINE n == Len(table)
           a == SubSeq(table, 1, f - 1)
           b == SubSeq(table, f + 1, n)
<1>1. n \in Nat /\ f \in 1 .. n /\ \A i \in 1 .. n : table[i] \in Entries
  BY LenProperties, ElementOfSeq
<1>2. /\ a \in Seq(Entries) /\ Len(a) = f - 1
      /\ \A i \in 1 .. (f - 1) : a[i] = table[i]
  <2>1. \A i \in 1 .. (f - 1) : table[i] \in Entries
    BY <1>1
  <2>2. f - 1 \in Int /\ 1 \in Int
    BY <1>1
  <2>3. /\ a \in Seq(Entries) /\ Len(a) = IF 1 <= f - 1 THEN f - 1 - 1 + 1 ELSE 0
        /\ \A i \in 1 .. (f - 1 - 1 + 1) : a[i] = table[1 + i - 1]
    BY <2>1, <2>2, SubSeqProperties
  <2> QED BY <1>1, <2>3
<1>3. /\ b \in Seq(Entries) /\ Len(b) = n - f
      /\ \A i \in 1 .. (n - f) : b[i] = table[f + i]
  <2>1. \A i \in (f + 1) .. n : table[i] \in Entries
    BY <1>1
  <2>2. f + 1 \in Int /\ n \in Int
    BY <1>1
  <2>3. /\ b \in Seq(Entries) /\ Len(b) = IF f + 1 <= n THEN n - (f + 1) + 1 ELSE 0
        /\ \A i \in 1 .. (n - (f + 1) + 1) : b[i] = table[f + 1 + i - 1]
    BY <2>1, <2>2, SubSeqProperties
  <2> QED BY <1>1, <2>3
<1>4. TableWithout(f) = a \o b
  BY DEF TableWithout
<1> HIDE DEF n, a, b
<1>5. /\ a \o b \in Seq(Entries) /\ Len(a \o b) = Len(a) + Len(b)
      /\ \A i \in 1 .. Len(a) + Len(b) :
           (a \o b)[i] = IF i <= Len(a) THEN a[i] ELSE b[i - Len(a)]
  BY <1>2, <1>3, ConcatProperties
<1>6. Len(a) + Len(b) = n - 1
  BY <1>1, <1>2, <1>3
<1>7. DOMAIN (a \o b) = 1 .. (n - 1)
  BY <1>5, <1>6, LenProperties
<1>8. ASSUME NEW x \in 1 .. (n - 1)
      PROVE  /\ x < f => (a \o b)[x] = table[x]
             /\ x >= f => (a \o b)[x] = table[x + 1]
  <2>1. CASE x < f
    BY <2>1, <1>1, <1>2, <1>5, <1>6
  <2>2. CASE x >= f
    <3>1. x \in 1 .. Len(a) + Len(b) /\ ~(x <= Len(a))
      BY <2>2, <1>1, <1>2, <1>6
    <3>2. (a \o b)[x] = b[x - Len(a)]
      BY <3>1, <1>5
    <3>3. x - Len(a) \in 1 .. (n - f) /\ f + (x - Len(a)) = x + 1
      BY <2>2, <1>1, <1>2
    <3>4. (a \o b)[x] = table[x + 1]
      BY <3>2, <3>3, <1>3
    <3> QED BY <2>2, <3>4, <1>1
  <2> QED BY <2>1, <2>2, <1>1
<1> QED BY <1>4, <1>5, <1>7, <1>8 DEF n

(* A step that looks nothing up and reads no ds64 keeps every origin.         *)
LEMMA TableKept ==
  ASSUME TableInv, seen \in Seq(Chunks), Kept, Lookups' = Lookups,
         table' = table, sawDs64' = sawDs64,
         \A i \in DOMAIN seen : seen[i].tag = "ds64" => seen'[i].table = seen[i].table
  PROVE  TableInv'
<1>1. CASE ~sawDs64
  BY <1>1 DEF TableInv
<1>2. CASE sawDs64
  <2>1. PICK k \in Numbers("ds64") :
          /\ IsFirst(k, "ds64")
          /\ \E left \in [DOMAIN table -> DOMAIN seen[k].table],
                taken \in [Lookups -> DOMAIN seen[k].table] :
                Origins(seen[k].table, left, taken)
    BY <1>2 DEF TableInv
  <2>2. IsFirst(k, "ds64")' /\ k \in Numbers("ds64")' /\ seen'[k].table = seen[k].table
    <3>1. IsFirst(k, "ds64")'
      BY <2>1, FirstStable
    <3>2. k \in DOMAIN seen /\ seen[k].tag = "ds64"
      BY DEF Numbers
    <3>3. k \in Numbers("ds64")'
      BY <3>1 DEF IsFirst
    <3> QED BY <3>1, <3>2, <3>3
  <2>3. PICK left \in [DOMAIN table -> DOMAIN seen[k].table],
             taken \in [Lookups -> DOMAIN seen[k].table] :
             Origins(seen[k].table, left, taken)
    BY <2>1
  <2>4. \A i \in Lookups : seen'[i].tag = seen[i].tag /\ seen'[i].len = seen[i].len
    BY DEF Lookups, Kept
  <2>5. Origins(seen[k].table, left, taken)'
    BY <2>2, <2>3, <2>4 DEF Origins
  <2> QED BY <1>2, <2>2, <2>3, <2>5 DEF TableInv
<1> QED BY <1>1, <1>2

(* A looked-up chunk takes the first entry left of its tag.                   *)
LEMMA TableTaken ==
  ASSUME TableInv, TypeOK, seen \in Seq(Chunks), NEW c \in Chunks,
         seen' = Append(seen, c), sawDs64' = sawDs64,
         NeedsTable(c.tag, c.size), Listed(c.tag) # {},
         c.len = table[FirstListed(c.tag)].size,
         table' = TableWithout(FirstListed(c.tag))
  PROVE  TableInv'
<1> DEFINE n == Len(seen) + 1
           f == FirstListed(c.tag)
           m == Len(table)
<1>1. table \in Seq(Entries) /\ m \in Nat /\ DOMAIN table = 1 .. m
  BY LenProperties DEF TypeOK
<1>2. f \in DOMAIN table /\ table[f].tag = c.tag
      /\ \A x \in DOMAIN table : table[x].tag = c.tag => f <= x
  <2>1. Listed(c.tag) \in SUBSET Nat
    BY <1>1 DEF Listed
  <2>2. \E i \in Listed(c.tag) : \A j \in Listed(c.tag) : i <= j
    BY <2>1, LeastOf
  <2>3. f \in Listed(c.tag) /\ \A j \in Listed(c.tag) : f <= j
    BY <2>2 DEF FirstListed
  <2> QED BY <2>3 DEF Listed
<1> HIDE DEF f, m
<1>3. /\ table' \in Seq(Entries) /\ DOMAIN table' = 1 .. (m - 1)
      /\ \A x \in 1 .. (m - 1) :
           /\ x < f => table'[x] = table[x]
           /\ x >= f => table'[x] = table[x + 1]
  BY <1>1, <1>2, WithoutFacts DEF f, m
<1>4. sawDs64
  <2>1. table # <<>>
    BY <1>2
  <2> QED BY <2>1 DEF TableInv
<1>5. /\ Kept /\ Len(seen') = n /\ seen'[n] = c
      /\ \A i \in DOMAIN seen : seen'[i] = seen[i]
      /\ Len(seen) \in Nat /\ DOMAIN seen = 1 .. Len(seen) /\ DOMAIN seen' = 1 .. n
  BY AppendFacts, SeenFacts, KeptDomain
<1>6. /\ Lookups' = Lookups \cup {n} /\ n \notin Lookups /\ n \in Nat
      /\ \A i \in Lookups : i \in Nat /\ i < n /\ i \in DOMAIN seen
  BY <1>5 DEF Lookups
<1> HIDE DEF n
<1>7. PICK k \in Numbers("ds64") :
        /\ IsFirst(k, "ds64")
        /\ \E left \in [DOMAIN table -> DOMAIN seen[k].table],
              taken \in [Lookups -> DOMAIN seen[k].table] :
              Origins(seen[k].table, left, taken)
  BY <1>4 DEF TableInv
<1>8. PICK left \in [DOMAIN table -> DOMAIN seen[k].table],
           taken \in [Lookups -> DOMAIN seen[k].table] :
           Origins(seen[k].table, left, taken)
  BY <1>7
<1>9. k \in DOMAIN seen /\ seen[k] \in Chunks /\ seen'[k] = seen[k]
      /\ IsFirst(k, "ds64")' /\ k \in Numbers("ds64")'
  <2>1. k \in DOMAIN seen /\ IsFirst(k, "ds64")'
    BY <1>5, <1>7, FirstStable DEF Numbers
  <2> QED BY <2>1, <1>5, SeenFacts DEF IsFirst
<1> DEFINE E == seen[k].table
           D == DOMAIN E
           L == [x \in 1 .. (m - 1) |-> IF x < f THEN left[x] ELSE left[x + 1]]
           T == [i \in Lookups \cup {n} |-> IF i = n THEN left[f] ELSE taken[i]]
<1>10. D \in SUBSET Nat
  <2>1. E \in Seq(Entries)
    BY <1>9 DEF Chunks
  <2> QED BY <2>1, LenProperties
<1>11. /\ \A x \in DOMAIN table : left[x] \in D /\ table[x] = E[left[x]]
       /\ \A i \in Lookups : taken[i] \in D /\ E[taken[i]].tag = seen[i].tag
                             /\ E[taken[i]].size = seen[i].len
  BY <1>8 DEF Origins
<1>12. \A x, y \in DOMAIN table : x < y => left[x] < left[y]
  BY <1>8 DEF Origins
<1>13. \A i, j \in Lookups : i < j /\ seen[i].tag = seen[j].tag => taken[i] < taken[j]
  BY <1>8 DEF Origins
<1>14. \A i \in Lookups, x \in DOMAIN table : table[x].tag = seen[i].tag => taken[i] < left[x]
  BY <1>8 DEF Origins
<1>15. \A p \in D : (\E x \in DOMAIN table : left[x] = p) \/ (\E i \in Lookups : taken[i] = p)
  BY <1>8 DEF Origins
<1> HIDE DEF E, D
<1>16. \A x \in 1 .. (m - 1) :
         \E y \in DOMAIN table :
           y # f /\ L[x] = left[y] /\ table'[x] = table[y] /\ (x < f => y = x)
           /\ (x >= f => y = x + 1)
  <2> TAKE x \in 1 .. (m - 1)
  <2>1. CASE x < f
    <3>1. x \in DOMAIN table /\ L[x] = left[x] /\ table'[x] = table[x] /\ x # f /\ ~(x >= f)
      BY <2>1, <1>1, <1>2, <1>3
    <3> QED BY <3>1
  <2>2. CASE x >= f
    <3>1. x + 1 \in DOMAIN table /\ L[x] = left[x + 1] /\ table'[x] = table[x + 1]
          /\ x + 1 # f /\ ~(x < f)
      BY <2>2, <1>1, <1>2, <1>3
    <3> QED BY <3>1
  <2> QED BY <2>1, <2>2, <1>1, <1>2
<1>17. L \in [DOMAIN table' -> D] /\ T \in [Lookups' -> D]
  <2>1. \A x \in 1 .. (m - 1) : L[x] \in D
    BY <1>11, <1>16
  <2>2. \A i \in Lookups \cup {n} : T[i] \in D
    BY <1>2, <1>6, <1>11
  <2>3. L \in [1 .. (m - 1) -> D]
    <3>1. L = [x \in 1 .. (m - 1) |-> L[x]]
      OBVIOUS
    <3> HIDE DEF L
    <3> QED BY <2>1, <3>1
  <2>4. T \in [Lookups \cup {n} -> D]
    <3>1. T = [i \in Lookups \cup {n} |-> T[i]]
      OBVIOUS
    <3> HIDE DEF T
    <3> QED BY <2>2, <3>1
  <2> QED BY <2>3, <2>4, <1>3, <1>6
<1>18. \A x \in DOMAIN table' : table'[x] = E[L[x]]
  BY <1>3, <1>11, <1>16
<1>19. \A x, y \in DOMAIN table' : x < y => L[x] < L[y]
  <2> SUFFICES ASSUME NEW x \in 1 .. (m - 1), NEW y \in 1 .. (m - 1), x < y PROVE L[x] < L[y]
    BY <1>3
  <2>1. PICK u \in DOMAIN table : L[x] = left[u] /\ (x < f => u = x) /\ (x >= f => u = x + 1)
    BY <1>16
  <2>2. PICK v \in DOMAIN table : L[y] = left[v] /\ (y < f => v = y) /\ (y >= f => v = y + 1)
    BY <1>16
  <2>3. u < v
    BY <2>1, <2>2, <1>1, <1>2
  <2> QED BY <2>1, <2>2, <2>3, <1>12
<1>20. T[n] = left[f] /\ \A i \in Lookups : T[i] = taken[i] /\ seen'[i] = seen[i]
  BY <1>5, <1>6
<1>21. \A i \in Lookups' : E[T[i]].tag = seen'[i].tag /\ E[T[i]].size = seen'[i].len
  <2> SUFFICES ASSUME NEW i \in Lookups \cup {n}
               PROVE  E[T[i]].tag = seen'[i].tag /\ E[T[i]].size = seen'[i].len
    BY <1>6
  <2>1. CASE i = n
    <3>1. E[left[f]] = table[f] /\ seen'[i] = c
      BY <2>1, <1>2, <1>5, <1>11
    <3> QED BY <2>1, <3>1, <1>2, <1>20 DEF f
  <2>2. CASE i \in Lookups
    BY <2>2, <1>11, <1>20
  <2> QED BY <2>1, <2>2
<1>22. \A i, j \in Lookups' : i < j /\ seen'[i].tag = seen'[j].tag => T[i] < T[j]
  <2> SUFFICES ASSUME NEW i \in Lookups \cup {n}, NEW j \in Lookups \cup {n},
                      i < j, seen'[i].tag = seen'[j].tag
               PROVE  T[i] < T[j]
    BY <1>6
  <2>1. i \in Lookups
    BY <1>6
  <2>2. CASE j \in Lookups
    BY <2>1, <2>2, <1>13, <1>20
  <2>3. CASE j = n
    <3>1. seen[i].tag = table[f].tag
      BY <2>1, <2>3, <1>2, <1>5, <1>20
    <3>2. taken[i] < left[f]
      BY <2>1, <3>1, <1>2, <1>14
    <3> QED BY <2>1, <2>3, <3>2, <1>20
  <2> QED BY <2>2, <2>3
<1>23. \A i \in Lookups', x \in DOMAIN table' : table'[x].tag = seen'[i].tag => T[i] < L[x]
  <2> SUFFICES ASSUME NEW i \in Lookups \cup {n}, NEW x \in 1 .. (m - 1),
                      table'[x].tag = seen'[i].tag
               PROVE  T[i] < L[x]
    BY <1>3, <1>6
  <2>1. PICK u \in DOMAIN table : u # f /\ L[x] = left[u] /\ table'[x] = table[u]
    BY <1>16
  <2>2. CASE i \in Lookups
    BY <2>1, <2>2, <1>14, <1>20
  <2>3. CASE i = n
    <3>1. table[u].tag = c.tag /\ f <= u
      BY <2>1, <2>3, <1>2, <1>5
    <3>2. f < u
      BY <2>1, <3>1, <1>1, <1>2
    <3> QED BY <2>1, <2>3, <3>2, <1>2, <1>12, <1>20
  <2> QED BY <2>2, <2>3
<1>24. \A p \in D : (\E x \in DOMAIN table' : L[x] = p) \/ (\E i \in Lookups' : T[i] = p)
  <2> TAKE p \in D
  <2>1. CASE \E i \in Lookups : taken[i] = p
    BY <2>1, <1>6, <1>20
  <2>2. CASE p = left[f]
    BY <2>2, <1>6, <1>20
  <2>3. ASSUME NEW y \in DOMAIN table, left[y] = p, y # f
        PROVE  \E x \in DOMAIN table' : L[x] = p
    <3>1. CASE y < f
      <4>1. y \in 1 .. (m - 1) /\ L[y] = left[y]
        BY <2>3, <3>1, <1>1, <1>2
      <4> QED BY <2>3, <4>1, <1>3
    <3>2. CASE y > f
      <4>1. y - 1 \in 1 .. (m - 1) /\ ~(y - 1 < f) /\ (y - 1) + 1 = y
        BY <2>3, <3>2, <1>1, <1>2
      <4>2. L[y - 1] = left[y]
        BY <4>1
      <4>3. y - 1 \in DOMAIN table' /\ L[y - 1] = p
        BY <2>3, <4>1, <4>2, <1>3
      <4> QED BY <4>3
    <3>3. y < f \/ y > f
      BY <2>3, <1>1, <1>2
    <3> QED BY <3>1, <3>2, <3>3
  <2> QED BY <2>1, <2>2, <2>3, <1>15
<1> HIDE DEF L, T
<1>25. E = seen'[k].table /\ D = DOMAIN seen'[k].table
  BY <1>9 DEF E, D
<1>26. PICK l, t : l = L /\ t = T
  OBVIOUS
<1>27. Origins(seen[k].table, l, t)'
  BY <1>18, <1>19, <1>21, <1>22, <1>23, <1>24, <1>25, <1>26 DEF Origins
<1>28. l \in [DOMAIN table' -> DOMAIN seen'[k].table] /\ t \in [Lookups' -> DOMAIN seen'[k].table]
  BY <1>17, <1>25, <1>26
<1>29. sawDs64'
  BY <1>4
<1> QED BY <1>9, <1>27, <1>28, <1>29 DEF TableInv

(* ds64 is read: its whole table is left.                                     *)
LEMMA TableBegins ==
  ASSUME TableInv, seen \in Seq(Chunks), Kept, DOMAIN seen' = DOMAIN seen, ~sawDs64, sawDs64',
         NEW k \in DOMAIN seen, IsFirst(k, "ds64"), table' \in Seq(Entries),
         seen'[k].table = table'
  PROVE  TableInv'
<1>1. Lookups' = {}
  <2>1. Lookups = {}
    BY DEF TableInv
  <2>2. \A i \in DOMAIN seen : seen'[i].tag = seen[i].tag /\ seen'[i].size = seen[i].size
    BY DEF Kept
  <2> QED BY <2>1, <2>2 DEF Lookups
<1>2. IsFirst(k, "ds64")'
  BY FirstStable
<1>3. k \in Numbers("ds64")'
  BY <1>2 DEF IsFirst
<1>4. PICK left, taken : left = [x \in DOMAIN table' |-> x] /\ taken = [i \in {} |-> 0]
  OBVIOUS
<1>5. left \in [DOMAIN table' -> DOMAIN seen'[k].table] /\ taken \in [{} -> DOMAIN seen'[k].table]
  BY <1>4
<1>6. \A x \in DOMAIN table' : left[x] = x
  BY <1>4
<1>7. Origins(seen[k].table, left, taken)'
  BY <1>1, <1>6 DEF Origins
<1> QED BY <1>1, <1>2, <1>3, <1>5, <1>7 DEF TableInv

LEMMA TableInit == Init => TableInv
BY EmptySeq DEF Init, TableInv, Lookups

(* The steps that learn nothing from a ds64 chunk.                            *)
LEMMA TablePasses ==
  ASSUME WalkInv, TableInv, seen' = seen, table' = table, sawDs64' = sawDs64
  PROVE  TableInv'
<1>1. Kept /\ seen \in Seq(Chunks)
  BY NothingLearnt DEF WalkInv, TypeInv
<1>2. Lookups' = Lookups
  BY DEF Lookups
<1> QED BY <1>1, <1>2, TableKept

LEMMA TableHeader == ASSUME WalkInv, TableInv, ReadHeader PROVE TableInv'
<1> DEFINE at == pos + Padding + ChunkHead
           head == consumed + Padding + ChunkHead
           Given(t, s) ==
               IF NeedsTable(t, s) /\ Listed(t) = {}
               THEN Fail("MalformedChunk") /\ UNCHANGED seen
               ELSE LET len == ChunkLen(t, s)
                        this == Chunk(t, s, len, at)
                    IN /\ seen' = Append(seen, this)
                       /\ IF s # SizeMax /\ Beyond(head + len)
                          THEN Fail("MalformedChunk")
                          ELSE /\ chunk' = this
                               /\ pos' = at
                               /\ consumed' = SatAdd(head, Counted(t, s))
                               /\ table' = (IF NeedsTable(t, s)
                                            THEN TableWithout(FirstListed(t)) ELSE table)
                               /\ pc' = "body"
                               /\ UNCHANGED <<source, container, limit, fmt, pending,
                                              factSamples, sawDs64, dsData, dsSamples,
                                              returned>>
<1>1. PICK tag \in Tags : \E size \in ChunkSizes[tag] : Given(tag, size)
  BY DEF ReadHeader
<1>2. PICK size \in ChunkSizes[tag] : Given(tag, size)
  BY <1>1
<1>3. CASE NeedsTable(tag, size) /\ Listed(tag) = {}
  <2>1. seen' = seen /\ table' = table /\ sawDs64' = sawDs64
    BY <1>2, <1>3 DEF Fail, found, ds64Vars
  <2> QED BY <2>1, TablePasses
<1>4. CASE ~(NeedsTable(tag, size) /\ Listed(tag) = {})
  <2> DEFINE len == ChunkLen(tag, size)
             this == Chunk(tag, size, len, at)
  <2>1. TypeOK /\ size \in Nat /\ pos \in Nat /\ consumed \in Nat /\ seen \in Seq(Chunks)
    BY WalkAssumption DEF WalkInv, TypeInv, TypeOK, SourceTypeOK
  <2>2. len \in Nat
    BY <2>1, <1>4, TableFacts DEF ChunkLen
  <2>3. at \in Nat
    BY <2>1 DEF Padding, ChunkHead
  <2>4. this \in Chunks /\ this.tag = tag /\ this.size = size /\ this.len = len
    BY <2>1, <2>2, <2>3, EmptySeq DEF Chunk, Chunks, NoSize
  <2>5. seen' = Append(seen, this)
    BY <1>2, <1>4
  <2>6. \/ table' = table /\ sawDs64' = sawDs64 /\ ~NeedsTable(tag, size)
        \/ /\ table' = (IF NeedsTable(tag, size) THEN TableWithout(FirstListed(tag)) ELSE table)
           /\ sawDs64' = sawDs64
    BY <1>2, <1>4 DEF Fail, found, ds64Vars, NeedsTable
  <2> HIDE DEF this
  <2>7. CASE ~NeedsTable(tag, size)
    <3>1. table' = table /\ sawDs64' = sawDs64
      BY <2>6, <2>7
    <3>2. /\ Kept /\ Len(seen') = Len(seen) + 1 /\ seen'[Len(seen) + 1] = this
          /\ \A i \in DOMAIN seen : seen'[i] = seen[i]
          /\ Len(seen) \in Nat /\ DOMAIN seen = 1 .. Len(seen)
      BY <2>1, <2>4, <2>5, AppendFacts, SeenFacts
    <3>3. DOMAIN seen' = DOMAIN seen \cup {Len(seen) + 1}
      BY <2>1, <3>2, KeptDomain
    <3>4. Lookups' = Lookups
      BY <2>4, <2>7, <3>2, <3>3 DEF Lookups
    <3> QED BY <2>1, <3>1, <3>2, <3>4, TableKept
  <2>8. CASE NeedsTable(tag, size)
    <3>1. table' = TableWithout(FirstListed(tag)) /\ sawDs64' = sawDs64
      BY <2>6, <2>8
    <3>2. len = table[FirstListed(tag)].size /\ Listed(tag) # {}
      BY <2>8, <1>4 DEF ChunkLen
    <3> QED BY <2>1, <2>4, <2>5, <2>8, <3>1, <3>2, TableTaken
  <2> QED BY <2>7, <2>8
<1> QED BY <1>3, <1>4

LEMMA TableDs64 == ASSUME WalkInv, TableInv, Ds64Body PROVE TableInv'
<1>1. pc = "body" /\ chunk.tag = "ds64" /\ ~sawDs64
  BY DEF Ds64Body, Ds64Accepted, Body
<1>2. PICK b \in Ds64Bodies, t \in SizeTables :
        sawDs64' = TRUE /\ table' = t /\ Learn(b.samples, b.data, t)
  BY DEF Ds64Body
<1>3. b.samples \in Nat /\ b.data \in Nat /\ t \in Seq(Entries)
  BY WalkAssumption
<1>4. /\ seen \in Seq(Chunks) /\ seen # <<>> /\ chunk = seen[Len(seen)]
      /\ Len(seen) \in Nat /\ DOMAIN seen = 1 .. Len(seen) /\ Len(seen) \in DOMAIN seen
  BY <1>1, BodyFacts, SeenFacts DEF WalkInv, TypeInv, PlaceInv
<1>5. Kept /\ Len(seen') = Len(seen) /\ seen'[Len(seen)].table = t
  <2>1. Kept /\ Len(seen') = Len(seen)
    BY <1>1, <1>2, <1>3, <1>4, LearnFacts
  <2>2. seen' = [seen EXCEPT ![Len(seen)] =
                   [@ EXCEPT !.samples = b.samples, !.data = b.data, !.table = t]]
    BY <1>2 DEF Learn
  <2>3. seen[Len(seen)] \in Chunks
    BY <1>4, SeenFacts
  <2>4. seen'[Len(seen)]
          = [seen[Len(seen)] EXCEPT !.samples = b.samples, !.data = b.data, !.table = t]
    BY <1>4, <2>2
  <2> QED BY <2>1, <2>3, <2>4 DEF Chunks
<1>6. IsFirst(Len(seen), "ds64")
  <2>1. \A i \in Behind : seen[i].tag # "ds64"
    BY <1>1 DEF WalkInv, Ds64Inv
  <2> QED BY <2>1, <1>1, ThisIsFirst
<1>7. DOMAIN seen' = DOMAIN seen
  BY <1>4, <1>5, KeptDomain
<1> QED BY <1>1, <1>2, <1>3, <1>4, <1>5, <1>6, <1>7, TableBegins

LEMMA TableFact == ASSUME WalkInv, TableInv, FactBody PROVE TableInv'
<1>1. pc = "body" /\ chunk.tag = "fact" /\ table' = table /\ sawDs64' = sawDs64
  BY DEF FactBody, Body, ds64Vars
<1>2. PICK n \in FactCounts : Learn(n, NoSize, <<>>)
  BY DEF FactBody
<1>3. n \in Nat /\ <<>> \in Seq(Entries) /\ NoSize \in Nat \cup {NoSize}
  BY WalkAssumption, EmptySeq
<1>4. /\ seen \in Seq(Chunks) /\ seen # <<>> /\ chunk = seen[Len(seen)]
      /\ Len(seen) \in Nat /\ DOMAIN seen = 1 .. Len(seen)
  BY <1>1, SeenFacts DEF WalkInv, TypeInv, PlaceInv
<1>5. Kept /\ Len(seen') = Len(seen)
  BY <1>1, <1>2, <1>3, <1>4, LearnFacts
<1>6. DOMAIN seen' = DOMAIN seen
  BY <1>4, <1>5, KeptDomain
<1>7. Lookups' = Lookups
  BY <1>5, <1>6 DEF Kept, Lookups
<1>8. \A i \in DOMAIN seen : seen[i].tag = "ds64" => seen'[i].table = seen[i].table
  <2> SUFFICES ASSUME NEW i \in DOMAIN seen, seen[i].tag = "ds64"
               PROVE  seen'[i] = seen[i]
    OBVIOUS
  <2>1. i # Len(seen)
    BY <1>1, <1>4
  <2>2. i \in Behind
    BY <1>1, <1>4, <2>1 DEF Behind
  <2> QED BY <1>5, <2>2 DEF Kept
<1> QED BY <1>1, <1>4, <1>5, <1>7, <1>8, TableKept

LEMMA TableStep == WalkInv /\ TableInv /\ [Next]_vars => TableInv'
<1> SUFFICES ASSUME WalkInv, TableInv, [Next]_vars PROVE TableInv'
  OBVIOUS
<1>1. CASE ReadHeader BY <1>1, TableHeader
<1>2. CASE Ds64Body   BY <1>2, TableDs64
<1>3. CASE FactBody   BY <1>3, TableFact
<1>4. CASE ReadForm \/ LeaveLoop
  BY <1>4, TablePasses DEF ReadForm, LeaveLoop, found, ds64Vars
<1>5. CASE FmtBody \/ SkippedBody \/ DataSkipped
  BY <1>5, TablePasses DEF FmtBody, SkippedBody, DataSkipped, ToNext, ds64Vars
<1>6. CASE DataBody \/ WalkEnds
  BY <1>6, TablePasses DEF DataBody, WalkEnds, Finish, Fail, found, ds64Vars
<1>7. CASE BodyRefused
  BY <1>7, TablePasses DEF BodyRefused, Ds64Refused, FmtRefused, FactRefused, SkippedRefused,
                           DataRefused, Fail, found, ds64Vars
<1>8. CASE ReadFails \/ ShortForm \/ NotWave \/ CounterOverflows \/ ShortHeader
  BY <1>8, TablePasses DEF ReadFails, ShortForm, NotWave, CounterOverflows, ShortHeader, Fail,
                           found, ds64Vars
<1>9. CASE UNCHANGED vars
  BY <1>9, TablePasses DEF vars, found, ds64Vars
<1> QED BY <1>1, <1>2, <1>3, <1>4, <1>5, <1>6, <1>7, <1>8, <1>9
      DEF Next, Walk, Open, Loop, BodyRead

(* What was taken of a tag up to a place of the table is all there is of it.  *)
LEMMA TakenInOrder ==
  ASSUME WalkInv, TableInv PROVE TableSizesInOrder
<1>1. seen \in Seq(Chunks) /\ DOMAIN seen = 1 .. Len(seen) /\ Len(seen) \in Nat
  BY SeenFacts DEF WalkInv, TypeInv
<1> SUFFICES ASSUME NEW i \in DOMAIN seen, NeedsTable(seen[i].tag, seen[i].size)
             PROVE  LET tag == seen[i].tag
                        nth == Cardinality({j \in 1 .. i : seen[j].tag = tag
                                                           /\ seen[j].size = SizeMax})
                        ds64 == CHOOSE k \in Numbers("ds64") : IsFirst(k, "ds64")
                        entries == seen[ds64].table
                    IN \E p \in DOMAIN entries :
                         /\ entries[p].tag = tag /\ entries[p].size = seen[i].len
                         /\ Cardinality({q \in 1 .. p : entries[q].tag = tag}) = nth
  BY DEF TableSizesInOrder
<1>2. i \in Lookups /\ i \in Nat
  BY <1>1 DEF Lookups
<1>3. PICK k \in Numbers("ds64") :
        /\ IsFirst(k, "ds64")
        /\ \E left \in [DOMAIN table -> DOMAIN seen[k].table],
              taken \in [Lookups -> DOMAIN seen[k].table] :
              Origins(seen[k].table, left, taken)
  BY <1>2 DEF TableInv
<1>4. k = CHOOSE d \in Numbers("ds64") : IsFirst(d, "ds64")
  <2>1. \A d \in Numbers("ds64") : d \in Nat
    BY <1>1 DEF Numbers
  <2>2. \A d \in Numbers("ds64") : IsFirst(d, "ds64") => d = k
    BY <1>3, <2>1 DEF IsFirst
  <2> QED BY <1>3, <2>2
<1>5. PICK left \in [DOMAIN table -> DOMAIN seen[k].table],
           taken \in [Lookups -> DOMAIN seen[k].table] :
           Origins(seen[k].table, left, taken)
  BY <1>3
<1> DEFINE E == seen[k].table
           tag == seen[i].tag
           p == taken[i]
           S == {j \in 1 .. i : seen[j].tag = tag /\ seen[j].size = SizeMax}
           T == {q \in 1 .. p : E[q].tag = tag}
           f == [j \in S |-> taken[j]]
<1>6. E \in Seq(Entries) /\ DOMAIN E = 1 .. Len(E) /\ Len(E) \in Nat
  <2>1. seen[k] \in Chunks
    BY <1>1, SeenFacts DEF Numbers
  <2>2. E \in Seq(Entries)
    BY <2>1 DEF Chunks
  <2> QED BY <2>2, LenProperties
<1>7. p \in DOMAIN E /\ E[p].tag = tag /\ E[p].size = seen[i].len
  BY <1>2, <1>5 DEF Origins
<1>8. S \subseteq Lookups /\ \A j \in S : j \in Nat /\ j <= i /\ seen[j].tag = tag
  BY <1>1 DEF Lookups, NeedsTable
<1>9. \A a, b \in Lookups : a < b /\ seen[a].tag = seen[b].tag => taken[a] < taken[b]
  BY <1>5 DEF Origins
<1>10. \A j \in Lookups : taken[j] \in DOMAIN E /\ E[taken[j]].tag = seen[j].tag
  BY <1>5 DEF Origins
<1>11. \A j \in S : taken[j] \in T
  <2> TAKE j \in S
  <2>1. taken[j] \in 1 .. Len(E) /\ E[taken[j]].tag = tag /\ j \in Lookups
    BY <1>6, <1>8, <1>10
  <2>2. taken[j] <= p
    <3>1. CASE j = i
      BY <3>1, <1>6, <1>7
    <3>2. CASE j < i
      <4>1. taken[j] < p
        BY <3>2, <2>1, <1>2, <1>8, <1>9
      <4> QED BY <4>1, <2>1, <1>6, <1>7
    <3> QED BY <3>1, <3>2, <1>2, <1>8
  <2> QED BY <2>1, <2>2, <1>6, <1>7
<1>12. \A a, b \in S : taken[a] = taken[b] => a = b
  <2> SUFFICES ASSUME NEW a \in S, NEW b \in S, taken[a] = taken[b], a # b PROVE FALSE
    OBVIOUS
  <2>1. a \in Lookups /\ b \in Lookups /\ seen[a].tag = seen[b].tag /\ (a < b \/ b < a)
    BY <1>8
  <2>2. taken[a] < taken[b] \/ taken[b] < taken[a]
    BY <2>1, <1>9
  <2>3. taken[a] \in Nat /\ taken[b] \in Nat
    BY <2>1, <1>6, <1>10
  <2> QED BY <2>2, <2>3
<1>13. \A q \in T : \E j \in S : taken[j] = q
  <2> TAKE q \in T
  <2>1. q \in DOMAIN E /\ q <= p /\ E[q].tag = tag /\ q \in Nat /\ p \in Nat
    BY <1>6, <1>7
  <2>2. CASE \E x \in DOMAIN table : left[x] = q
    <3>1. PICK x \in DOMAIN table : left[x] = q
      BY <2>2
    <3>2. table[x].tag = tag
      BY <2>1, <3>1, <1>5 DEF Origins
    <3>3. p < q
      BY <3>1, <3>2, <1>2, <1>5 DEF Origins
    <3> QED BY <2>1, <3>3
  <2>3. CASE \E j \in Lookups : taken[j] = q
    <3>1. PICK j \in Lookups : taken[j] = q
      BY <2>3
    <3>2. seen[j].tag = tag /\ j \in Nat /\ j >= 1 /\ seen[j].size = SizeMax
      BY <2>1, <3>1, <1>1, <1>10 DEF Lookups, NeedsTable
    <3>3. ~(i < j)
      <4>1. SUFFICES ASSUME i < j PROVE FALSE
        OBVIOUS
      <4>2. p < q
        BY <4>1, <3>1, <3>2, <1>2, <1>9
      <4> QED BY <4>2, <2>1
    <3>4. j \in S
      BY <3>2, <3>3, <1>2
    <3> QED BY <3>1, <3>4
  <2> QED BY <2>1, <2>2, <2>3, <1>5 DEF Origins
<1>14. f \in Bijection(S, T)
  <2> HIDE DEF S, T
  <2>1. f \in [S -> T] /\ \A j \in S : f[j] = taken[j]
    BY <1>11
  <2> HIDE DEF f
  <2>2. IsInjective(f)
    BY <2>1, <1>12 DEF IsInjective
  <2>3. \A q \in T : \E j \in S : f[j] = q
    BY <2>1, <1>13
  <2> QED BY <2>1, <2>2, <2>3 DEF Bijection, Injection, Surjection
<1>15. IsFiniteSet(S)
  <2>1. IsFiniteSet(1 .. i)
    BY <1>2, FS_Interval
  <2>2. S \subseteq 1 .. i
    OBVIOUS
  <2> QED BY <2>1, <2>2, FS_Subset
<1> HIDE DEF S, T, f
<1>16. Cardinality(T) = Cardinality(S)
  BY <1>14, <1>15, FS_Bijection DEF ExistsBijection
<1> QED BY <1>4, <1>7, <1>16 DEF S, T

(* LookupsInOrder: however the sentinel chunks of different tags are mixed,    *)
(* the k-th of a tag gets the k-th size the ds64 table lists for it.          *)
THEOREM LookupsInOrder == Spec => []TableSizesInOrder
<1>1. Init => TableInv
  BY TableInit
<1>2. WalkInv /\ TableInv => TableSizesInOrder
  BY TakenInOrder
<1> QED BY <1>1, <1>2, TableStep, WalkInductive, PTL DEF Spec
-----------------------------------------------------------------------------
(* The sample count: which chunk states it.                                  *)

LEMMA CountInit == Init => CountInv
BY EmptySeq DEF Init, CountInv, SampleCountIsItsOwn, FactsSay, Counts, Numbers

(* parse_header returns an error, and no count.                              *)
LEMMA CountFails ==
  ASSUME NEW e, Fail(e), e # "Ok"
  PROVE  CountInv'
BY DEF Fail, CountInv, SampleCountIsItsOwn

(* The fact chunks say the same after a step that learns nothing from one.    *)
LEMMA FactsStable ==
  ASSUME seen \in Seq(Chunks), Kept, Counts' = Counts, NEW n, FactsSay(n),
         \A i \in Counts : seen'[i].samples = seen[i].samples
  PROVE  FactsSay(n)'
<1>1. CASE Counts = {}
  BY <1>1 DEF FactsSay
<1>2. CASE Counts # {}
  <2>1. PICK i \in Counts : n = seen[i].samples /\ \A j \in Counts : j <= i
    BY <1>2 DEF FactsSay
  <2>2. i \in Counts' /\ n = seen'[i].samples /\ \A j \in Counts' : j <= i
    BY <2>1
  <2> QED BY <2>2, <1>2 DEF FactsSay
<1> QED BY <1>1, <1>2

(* No chunk is read from but those that were seen with what they state.       *)
LEMMA CountKept ==
  ASSUME seen \in Seq(Chunks), Kept, CountInv, pc # "done",
         UNCHANGED <<factSamples, dsSamples, sawDs64>>, result' # "Ok",
         Counts' = Counts, \A i \in Counts : seen'[i].samples = seen[i].samples,
         Behind \subseteq Behind', pc' = "body" => seen'[Len(seen')].samples = 0
  PROVE  CountInv'
<1>1. FactsSay(factSamples)'
  <2>1. FactsSay(factSamples)
    BY DEF CountInv
  <2>2. PICK n : n = factSamples
    OBVIOUS
  <2>3. FactsSay(n)'
    BY <2>1, <2>2, FactsStable
  <2> QED BY <2>2, <2>3 DEF FactsSay
<1>2. IF ~sawDs64' THEN dsSamples' = NoSize
      ELSE \E k \in Behind' :
             /\ IsFirst(k, "ds64")'
             /\ dsSamples' = IF seen'[k].samples > 0 THEN seen'[k].samples ELSE NoSize
  <2>1. CASE ~sawDs64
    BY <2>1 DEF CountInv
  <2>2. CASE sawDs64
    <3>1. PICK k \in Behind :
            /\ IsFirst(k, "ds64")
            /\ dsSamples = IF seen[k].samples > 0 THEN seen[k].samples ELSE NoSize
      BY <2>2 DEF CountInv
    <3>2. IsFirst(k, "ds64")' /\ k \in Behind' /\ seen'[k] = seen[k]
      BY <3>1, FirstStable DEF Kept
    <3> QED BY <3>1, <3>2, <2>2
  <2> QED BY <2>1, <2>2
<1> QED BY <1>1, <1>2 DEF CountInv, SampleCountIsItsOwn

(* The steps that read no sample count and see no new chunk.                  *)
LEMMA CountPasses ==
  ASSUME WalkInv, CountInv, pc # "done", seen' = seen,
         UNCHANGED <<factSamples, ds64Vars, result>>, pc' \in {"loop", "end"}
  PROVE  CountInv'
<1>1. Kept /\ seen \in Seq(Chunks)
  BY NothingLearnt DEF WalkInv, TypeInv
<1>2. Counts' = Counts
  BY DEF Counts, Numbers
<1>3. Behind \subseteq Behind'
  BY <1>1, SeenFacts DEF Behind
<1>4. result' # "Ok"
  BY DEF WalkInv, TypeInv
<1> QED BY <1>1, <1>2, <1>3, <1>4, CountKept DEF ds64Vars

LEMMA CountHeader == ASSUME WalkInv, CountInv, ReadHeader PROVE CountInv'
<1> DEFINE at == pos + Padding + ChunkHead
           head == consumed + Padding + ChunkHead
           Given(t, s) ==
               IF NeedsTable(t, s) /\ Listed(t) = {}
               THEN Fail("MalformedChunk") /\ UNCHANGED seen
               ELSE LET len == ChunkLen(t, s)
                        this == Chunk(t, s, len, at)
                    IN /\ seen' = Append(seen, this)
                       /\ IF s # SizeMax /\ Beyond(head + len)
                          THEN Fail("MalformedChunk")
                          ELSE /\ chunk' = this
                               /\ pos' = at
                               /\ consumed' = SatAdd(head, Counted(t, s))
                               /\ table' = (IF NeedsTable(t, s)
                                            THEN TableWithout(FirstListed(t)) ELSE table)
                               /\ pc' = "body"
                               /\ UNCHANGED <<source, container, limit, fmt, pending,
                                              factSamples, sawDs64, dsData, dsSamples,
                                              returned>>
<1>1. PICK tag \in Tags : \E size \in ChunkSizes[tag] : Given(tag, size)
  BY DEF ReadHeader
<1>2. PICK size \in ChunkSizes[tag] : Given(tag, size)
  BY <1>1
<1>3. CASE NeedsTable(tag, size) /\ Listed(tag) = {}
  <2>1. Fail("MalformedChunk")
    BY <1>2, <1>3
  <2> QED BY <2>1, CountFails
<1>4. CASE ~(NeedsTable(tag, size) /\ Listed(tag) = {}) /\ Fail("MalformedChunk")
  BY <1>4, CountFails
<1>5. CASE ~(NeedsTable(tag, size) /\ Listed(tag) = {}) /\ ~Fail("MalformedChunk")
  <2> DEFINE len == ChunkLen(tag, size)
             this == Chunk(tag, size, len, at)
  <2>1. /\ TypeOK /\ size \in Nat /\ pos \in Nat /\ consumed \in Nat
        /\ seen \in Seq(Chunks) /\ pc = "loop"
    BY WalkAssumption DEF WalkInv, TypeInv, TypeOK, SourceTypeOK, ReadHeader
  <2>2. len \in Nat
    BY <2>1, <1>5, TableFacts DEF ChunkLen
  <2>3. this \in Chunks /\ this.samples = 0
    <3>1. at \in Nat
      BY <2>1 DEF Padding, ChunkHead
    <3> HIDE DEF at, len
    <3>2. this \in Chunks
      BY <2>1, <2>2, <3>1, EmptySeq DEF Chunk, Chunks, NoSize
    <3>3. this.samples = 0
      BY DEF Chunk
    <3> QED BY <3>2, <3>3
  <2>4. /\ seen' = Append(seen, this) /\ pc' = "body"
        /\ UNCHANGED <<factSamples, dsSamples, sawDs64, result>>
    BY <1>2, <1>5 DEF returned
  <2> HIDE DEF this
  <2>5. /\ Kept /\ Len(seen') = Len(seen) + 1 /\ seen'[Len(seen) + 1] = this
        /\ \A i \in DOMAIN seen : seen'[i] = seen[i]
        /\ Len(seen) \in Nat /\ DOMAIN seen = 1 .. Len(seen)
    BY <2>1, <2>3, <2>4, AppendFacts, SeenFacts
  <2>6. DOMAIN seen' = 1 .. (Len(seen) + 1)
    BY <2>1, <2>5, KeptDomain
  <2>7. Counts' = Counts
    <3>1. DOMAIN seen' = DOMAIN seen \cup {Len(seen) + 1}
      BY <2>5, <2>6
    <3>2. ~(seen'[Len(seen) + 1].samples > 0)
      BY <2>3, <2>5
    <3> QED BY <3>1, <3>2, <2>5 DEF Counts, Numbers
  <2>8. \A i \in Counts : seen'[i].samples = seen[i].samples
    BY <2>5 DEF Counts, Numbers
  <2>9. Behind \subseteq Behind' /\ seen'[Len(seen')].samples = 0
    BY <2>1, <2>3, <2>4, <2>5, <2>6 DEF Behind
  <2>10. result' # "Ok"
    BY <2>1, <2>4 DEF WalkInv, TypeInv
  <2> QED BY <2>1, <2>4, <2>5, <2>7, <2>8, <2>9, <2>10, CountKept
<1> QED BY <1>3, <1>4, <1>5

(* What a body stated, in the history.                                        *)
LEMMA LearnCount ==
  ASSUME WalkInv, pc = "body",
         NEW s \in Nat, NEW d \in Nat \cup {NoSize}, NEW t \in Seq(Entries),
         Learn(s, d, t)
  PROVE  /\ Kept /\ DOMAIN seen' = DOMAIN seen /\ Len(seen') = Len(seen)
         /\ Len(seen) \in DOMAIN seen /\ Len(seen) \in Nat
         /\ DOMAIN seen = 1 .. Len(seen)
         /\ seen'[Len(seen)].samples = s /\ seen'[Len(seen)].tag = chunk.tag
         /\ \A i \in DOMAIN seen : i # Len(seen) => seen'[i] = seen[i]
<1>1. /\ seen \in Seq(Chunks) /\ seen # <<>> /\ chunk = seen[Len(seen)]
      /\ Len(seen) \in Nat /\ DOMAIN seen = 1 .. Len(seen) /\ Len(seen) \in DOMAIN seen
  BY BodyFacts, SeenFacts DEF WalkInv, TypeInv, PlaceInv
<1>2. Kept /\ Len(seen') = Len(seen)
  BY <1>1, LearnFacts
<1>3. seen' = [seen EXCEPT ![Len(seen)] =
                 [@ EXCEPT !.samples = s, !.data = d, !.table = t]]
  BY DEF Learn
<1>4. seen[Len(seen)] \in Chunks
  BY <1>1, SeenFacts
<1>5. seen'[Len(seen)] = [seen[Len(seen)] EXCEPT !.samples = s, !.data = d, !.table = t]
  BY <1>1, <1>3
<1>6. seen'[Len(seen)].samples = s /\ seen'[Len(seen)].tag = chunk.tag
  BY <1>1, <1>4, <1>5 DEF Chunks
<1>7. DOMAIN seen' = DOMAIN seen
  BY <1>1, <1>2, KeptDomain
<1>8. \A i \in DOMAIN seen : i # Len(seen) => seen'[i] = seen[i]
  BY <1>3
<1> QED BY <1>1, <1>2, <1>6, <1>7, <1>8

LEMMA CountDs64 == ASSUME WalkInv, CountInv, Ds64Body PROVE CountInv'
<1>1. /\ pc = "body" /\ chunk.tag = "ds64" /\ ~sawDs64 /\ pc' = "loop" /\ sawDs64'
      /\ factSamples' = factSamples /\ result' = result
  BY DEF Ds64Body, Ds64Accepted, Body, returned
<1>2. PICK b \in Ds64Bodies, t \in SizeTables :
        /\ dsSamples' = (IF b.samples > 0 THEN b.samples ELSE dsSamples)
        /\ Learn(b.samples, b.data, t)
  BY DEF Ds64Body
<1>3. b.samples \in Nat /\ b.data \in Nat /\ t \in Seq(Entries)
  BY WalkAssumption
<1>0. PICK n : n = Len(seen)
  OBVIOUS
<1>4. /\ Kept /\ DOMAIN seen' = DOMAIN seen /\ Len(seen') = n /\ n \in DOMAIN seen /\ n \in Nat
      /\ DOMAIN seen = 1 .. n
      /\ seen'[n].samples = b.samples /\ seen'[n].tag = "ds64"
      /\ \A i \in DOMAIN seen : i # n => seen'[i] = seen[i]
  BY <1>0, <1>1, <1>2, <1>3, LearnCount
<1>5. seen \in Seq(Chunks) /\ seen[n].tag = "ds64"
  BY <1>0, <1>1 DEF WalkInv, TypeInv, PlaceInv
<1>6. IsFirst(n, "ds64")'
  <2>1. \A i \in Behind : seen[i].tag # "ds64"
    BY <1>1 DEF WalkInv, Ds64Inv
  <2>2. IsFirst(n, "ds64")
    BY <2>1, <1>0, <1>1, ThisIsFirst
  <2> QED BY <2>2, <1>4, <1>5, FirstStable
<1>7. FactsSay(factSamples)'
  <2>1. Counts' = Counts /\ \A i \in Counts : seen'[i].samples = seen[i].samples
    BY <1>4, <1>5 DEF Counts, Numbers
  <2>2. FactsSay(factSamples)
    BY <1>1 DEF CountInv
  <2>3. PICK c : c = factSamples
    OBVIOUS
  <2>4. FactsSay(c)'
    BY <1>4, <1>5, <2>1, <2>2, <2>3, FactsStable
  <2> QED BY <1>1, <2>3, <2>4 DEF FactsSay
<1>8. n \in Behind'
  BY <1>1, <1>4 DEF Behind
<1>9. dsSamples' = IF seen'[n].samples > 0 THEN seen'[n].samples ELSE NoSize
  BY <1>1, <1>2, <1>4 DEF CountInv
<1>10. result' # "Ok"
  BY <1>1 DEF WalkInv, TypeInv
<1> QED BY <1>1, <1>6, <1>7, <1>8, <1>9, <1>10 DEF CountInv, SampleCountIsItsOwn

LEMMA CountFact == ASSUME WalkInv, CountInv, FactBody PROVE CountInv'
<1>1. /\ pc = "body" /\ chunk.tag = "fact" /\ pc' = "loop" /\ result' = result
      /\ dsSamples' = dsSamples /\ sawDs64' = sawDs64
  BY DEF FactBody, Body, returned, ds64Vars
<1>2. PICK c \in FactCounts : factSamples' = FactCount(c) /\ Learn(c, NoSize, <<>>)
  BY DEF FactBody
<1>3. c \in Nat /\ <<>> \in Seq(Entries) /\ NoSize \in Nat \cup {NoSize}
  BY WalkAssumption, EmptySeq
<1>4. PICK n : n = Len(seen)
  OBVIOUS
<1>5. /\ Kept /\ DOMAIN seen' = DOMAIN seen /\ Len(seen') = n /\ n \in DOMAIN seen
      /\ n \in Nat /\ DOMAIN seen = 1 .. n
      /\ seen'[n].samples = c /\ seen'[n].tag = "fact"
      /\ \A i \in DOMAIN seen : i # n => seen'[i] = seen[i]
  BY <1>1, <1>2, <1>3, <1>4, LearnCount
<1>6. seen \in Seq(Chunks) /\ seen[n].tag = "fact" /\ seen[n].samples = 0
  BY <1>1, <1>4 DEF WalkInv, TypeInv, PlaceInv, CountInv
<1>7. FactsSay(factSamples) /\ n \notin Counts /\ Counts \subseteq 1 .. n
  BY <1>1, <1>5, <1>6 DEF CountInv, Counts, Numbers
<1>8. FactsSay(factSamples)'
  <2>1. CASE c = 0
    <3>1. Counts' = Counts /\ \A i \in Counts : seen'[i].samples = seen[i].samples
      BY <2>1, <1>5, <1>6 DEF Counts, Numbers
    <3>2. PICK m : m = factSamples
      OBVIOUS
    <3>3. FactsSay(m)'
      BY <1>5, <1>6, <1>7, <3>1, <3>2, FactsStable
    <3>4. factSamples' = m
      BY <1>2, <2>1, <3>2 DEF FactCount
    <3> QED BY <3>3, <3>4 DEF FactsSay
  <2>2. CASE c # 0
    <3>1. n \in Counts' /\ factSamples' = seen'[n].samples
      BY <2>2, <1>2, <1>3, <1>5 DEF Counts, Numbers, FactCount
    <3>2. \A j \in Counts' : j <= n
      BY <1>5 DEF Counts, Numbers
    <3> QED BY <3>1, <3>2 DEF FactsSay
  <2> QED BY <2>1, <2>2
<1>9. IF ~sawDs64' THEN dsSamples' = NoSize
      ELSE \E k \in Behind' :
             /\ IsFirst(k, "ds64")'
             /\ dsSamples' = IF seen'[k].samples > 0 THEN seen'[k].samples ELSE NoSize
  <2>1. CASE ~sawDs64
    BY <2>1, <1>1 DEF CountInv
  <2>2. CASE sawDs64
    <3>1. PICK k \in Behind :
            /\ IsFirst(k, "ds64")
            /\ dsSamples = IF seen[k].samples > 0 THEN seen[k].samples ELSE NoSize
      BY <1>1, <2>2 DEF CountInv
    <3>2. IsFirst(k, "ds64")' /\ seen'[k] = seen[k]
      BY <1>5, <1>6, <3>1, FirstStable DEF Kept
    <3>3. k \in Behind'
      BY <1>1, <1>4, <1>5 DEF Behind
    <3> QED BY <1>1, <2>2, <3>1, <3>2, <3>3
  <2> QED BY <2>1, <2>2
<1>10. result' # "Ok"
  BY <1>1 DEF WalkInv, TypeInv
<1> QED BY <1>1, <1>8, <1>9, <1>10 DEF CountInv, SampleCountIsItsOwn

(* The header returned has the count in hand: of ds64 if it has one.          *)
LEMMA CountFinish ==
  ASSUME WalkInv, CountInv, pc # "done", NEW at, NEW declared, Finish(at, declared),
         \A i \in DOMAIN seen : i \in Behind \/ seen[i].tag # "ds64"
  PROVE  CountInv'
<1>1. /\ seen' = seen /\ pc' = "done" /\ header'.samples =
           IF dsSamples # NoSize THEN dsSamples ELSE factSamples
  BY DEF Finish
<1>2. seen \in Seq(Chunks) /\ \A i \in DOMAIN seen : seen[i].samples \in Nat /\ i \in Nat
  <2>1. seen \in Seq(Chunks)
    BY DEF WalkInv, TypeInv
  <2> QED BY <2>1, SeenFacts DEF Chunks
<1>3. FactsSay(factSamples)
  BY DEF CountInv
<1>4. CASE dsSamples # NoSize
  <2>1. PICK k \in Behind :
          /\ IsFirst(k, "ds64")
          /\ dsSamples = IF seen[k].samples > 0 THEN seen[k].samples ELSE NoSize
    BY <1>4 DEF CountInv
  <2>2. k \in Numbers("ds64") /\ seen[k].samples > 0 /\ header'.samples = seen[k].samples
    BY <1>1, <1>4, <2>1 DEF IsFirst
  <2> QED BY <1>1, <2>1, <2>2 DEF CountInv, SampleCountIsItsOwn, IsFirst, Numbers
<1>5. CASE dsSamples = NoSize
  <2>1. \A k \in Numbers("ds64") : IsFirst(k, "ds64") => seen[k].samples = 0
    <3>1. CASE ~sawDs64
      BY <3>1 DEF WalkInv, Ds64Inv, Numbers
    <3>2. CASE sawDs64
      <4>1. PICK k \in Behind :
              /\ IsFirst(k, "ds64")
              /\ NoSize = IF seen[k].samples > 0 THEN seen[k].samples ELSE NoSize
        BY <1>5, <3>2 DEF CountInv
      <4>2. seen[k].samples = 0
        BY <1>2, <4>1 DEF IsFirst, Numbers, NoSize
      <4>3. \A j \in Numbers("ds64") : IsFirst(j, "ds64") => j = k
        BY <1>2, <4>1 DEF IsFirst, Numbers
      <4> QED BY <4>2, <4>3
    <3> QED BY <3>1, <3>2
  <2>2. header'.samples = factSamples
    BY <1>1, <1>5
  <2> QED BY <1>1, <1>3, <2>1, <2>2
        DEF CountInv, SampleCountIsItsOwn, FactsSay, Counts, IsFirst, Numbers
<1> QED BY <1>4, <1>5

LEMMA CountStep == WalkInv /\ CountInv /\ [Next]_vars => CountInv'
<1> SUFFICES ASSUME WalkInv, CountInv, [Next]_vars PROVE CountInv'
  OBVIOUS
<1>1. CASE ReadHeader BY <1>1, CountHeader
<1>2. CASE Ds64Body   BY <1>2, CountDs64
<1>3. CASE FactBody   BY <1>3, CountFact
<1>4. CASE ReadForm \/ LeaveLoop
  BY <1>4, CountPasses DEF ReadForm, LeaveLoop, found, ds64Vars, returned
<1>5. CASE FmtBody \/ SkippedBody \/ DataSkipped
  BY <1>5, CountPasses DEF FmtBody, SkippedBody, DataSkipped, ToNext, Body, returned
<1>6. CASE DataBody
  <2>1. CASE LacksDs64
    BY <1>6, <2>1, CountFails DEF DataBody
  <2>2. CASE ~LacksDs64
    <3>1. pc = "body" /\ Finish(pos, Declared) /\ chunk.tag = "data"
      BY <1>6, <2>2 DEF DataBody, Body
    <3>2. \A i \in DOMAIN seen : i \in Behind \/ seen[i].tag # "ds64"
      BY <3>1, BodyFacts
    <3> QED BY <3>1, <3>2, CountFinish
  <2> QED BY <2>1, <2>2
<1>7. CASE WalkEnds
  <2>1. CASE fmt = 0 \/ pending = NoData \/ LacksDs64
    BY <1>7, <2>1, CountFails DEF WalkEnds
  <2>2. CASE ~(fmt = 0 \/ pending = NoData \/ LacksDs64)
    <3>1. pc = "end" /\ Finish(pending.at, pending.declared)
      BY <1>7, <2>2 DEF WalkEnds
    <3>2. Behind = DOMAIN seen
      BY <3>1 DEF Behind
    <3> QED BY <3>1, <3>2, CountFinish
  <2> QED BY <2>1, <2>2
<1>8. CASE BodyRefused
  BY <1>8, CountFails DEF BodyRefused, Ds64Refused, FmtRefused, FactRefused, SkippedRefused,
                          DataRefused
<1>9. CASE ReadFails \/ ShortForm \/ NotWave \/ CounterOverflows \/ ShortHeader
  BY <1>9, CountFails DEF ReadFails, ShortForm, NotWave, CounterOverflows, ShortHeader
<1>10. CASE UNCHANGED vars
  BY <1>10 DEF CountInv, SampleCountIsItsOwn, FactsSay, Counts, Behind, IsFirst, Numbers,
               vars, found, ds64Vars, returned
<1> QED BY <1>1, <1>2, <1>3, <1>4, <1>5, <1>6, <1>7, <1>8, <1>9, <1>10
      DEF Next, Walk, Open, Loop, BodyRead

(* NumbersRight: the payload length returned belongs to the data chunk        *)
(* returned, and the sample count to the chunk that has the last word on it.  *)
THEOREM NumbersRight == Spec => []SizeAndCountAreTheirOwn
<1>1. Init => CountInv
  BY CountInit
<1>2. WalkInv /\ CountInv => SizeAndCountAreTheirOwn
  BY DEF WalkInv, CountInv, SizeAndCountAreTheirOwn
<1> QED BY <1>1, <1>2, CountStep, WalkInductive, PTL DEF Spec
-----------------------------------------------------------------------------
(* The walk ends: a measure that every step lowers.                          *)

LEMMA AheadFacts ==
  ASSUME NEW f \in Nat, NEW p \in Nat, NEW q \in Nat, q >= p
  PROVE  /\ Larger(f - p, 0) \in Nat /\ Larger(f - q, 0) \in Nat
         /\ Larger(f - q, 0) <= Larger(f - p, 0)
         /\ q >= p + 8 /\ q <= f => Larger(f - q, 0) + 8 <= Larger(f - p, 0)
BY DEF Larger

LEMMA AheadFalls ==
  ASSUME fileLen \in Nat, pos \in Nat, fileLen' = fileLen, pos' \in Nat, pos' >= pos
  PROVE  /\ BytesAhead' \in Nat /\ BytesAhead' <= BytesAhead
         /\ pos' >= pos + 8 /\ pos' <= fileLen => BytesAhead' + 8 <= BytesAhead
<1>1. PICK f \in Nat, p \in Nat, q \in Nat : f = fileLen /\ p = pos /\ q = pos'
  OBVIOUS
<1>2. BytesAhead = Larger(f - p, 0) /\ BytesAhead' = Larger(f - q, 0)
  BY <1>1 DEF BytesAhead
<1>3. q >= p
  BY <1>1
<1>4. /\ BytesAhead' \in Nat /\ BytesAhead' <= BytesAhead
      /\ q >= p + 8 /\ q <= f => BytesAhead' + 8 <= BytesAhead
  BY <1>2, <1>3, AheadFacts
<1> QED BY <1>1, <1>4

LEMMA ToGoFacts ==
  ASSUME WalkInv, pc # "done"
  PROVE  /\ fileLen \in Nat /\ pos \in Nat /\ WordMax \in Nat /\ pos <= WordMax
         /\ StepsAt[pc] \in 1 .. 4 /\ BytesAhead \in Nat /\ ToGo = StepsAt[pc] + BytesAhead
<1>1. /\ fileLen \in Nat /\ pos \in Nat /\ WordMax \in Nat /\ pos <= WordMax
      /\ pc \in {"start", "loop", "body", "end", "done"}
  BY Numerals DEF WalkInv, TypeInv, TypeOK, SourceTypeOK
<1>2. StepsAt[pc] \in 1 .. 4
  BY <1>1 DEF StepsAt
<1>3. BytesAhead \in Nat
  BY <1>1, AheadFacts DEF BytesAhead
<1> QED BY <1>1, <1>2, <1>3 DEF ToGo

LEMMA ReturningEnds ==
  ASSUME WalkInv, pc # "done", pc' = "done"
  PROVE  ToGo' < ToGo /\ ToGo' \in Nat
<1>1. ToGo' = 0
  BY DEF ToGo
<1> QED BY <1>1, ToGoFacts

(* The position never falls, and the walk goes on to a later kind of step. *)
LEMMA PassingAdvances ==
  ASSUME WalkInv, pc # "done", pc' # "done", fileLen' = fileLen,
         pos' \in Nat, pos' >= pos, StepsAt[pc'] \in Nat, StepsAt[pc'] < StepsAt[pc]
  PROVE  ToGo' < ToGo /\ ToGo' \in Nat
<1>1. BytesAhead' \in Nat /\ BytesAhead' <= BytesAhead
  BY ToGoFacts, AheadFalls
<1>2. ToGo' = StepsAt[pc'] + BytesAhead'
  BY DEF ToGo
<1> QED BY <1>1, <1>2, ToGoFacts

LEMMA EightPaysForABody ==
  ASSUME NEW a \in Nat, NEW b \in Nat, b + 8 <= a
  PROVE  3 + b < 2 + a /\ 3 + b \in Nat
OBVIOUS

(* A header is at least eight bytes of the file. *)
LEMMA HeaderAdvances ==
  ASSUME WalkInv, ReadHeader
  PROVE  ToGo' < ToGo /\ ToGo' \in Nat
<1>1. pc = "loop" /\ Has(pos, Padding + ChunkHead)
  BY DEF ReadHeader
<1>2. \/ pc' = "done"
      \/ pc' = "body" /\ pos' = pos + Padding + ChunkHead /\ fileLen' = fileLen
  BY DEF ReadHeader, Fail, source
<1>3. CASE pc' = "done"
  BY <1>1, <1>3, ReturningEnds
<1>4. CASE pc' = "body" /\ pos' = pos + Padding + ChunkHead /\ fileLen' = fileLen
  <2>1. Padding \in {0, 1} /\ fileLen \in Nat /\ pos \in Nat
    BY <1>1, LoopFacts, ToGoFacts
  <2>2. pos' \in Nat /\ pos' <= fileLen /\ pos' >= pos + 8
    BY <1>1, <1>4, <2>1 DEF Has, ChunkHead
  <2>3. BytesAhead' \in Nat /\ BytesAhead' + 8 <= BytesAhead
    BY <1>4, <2>1, <2>2, AheadFalls
  <2>4. ToGo' = 3 + BytesAhead'
    BY <1>4 DEF ToGo, StepsAt
  <2>5. ToGo = 2 + BytesAhead /\ BytesAhead \in Nat
    BY <1>1, ToGoFacts DEF StepsAt
  <2>6. 3 + BytesAhead' < 2 + BytesAhead /\ 3 + BytesAhead' \in Nat
    BY <2>3, <2>5, EightPaysForABody
  <2> QED BY <2>4, <2>5, <2>6
<1> QED BY <1>2, <1>3, <1>4

LEMMA BodyAdvances ==
  ASSUME WalkInv, pc = "body", pc' = "loop", UNCHANGED source,
         pos' = SatAdd(pos, chunk.len)
  PROVE  ToGo' < ToGo /\ ToGo' \in Nat
<1>1. pos \in Nat /\ chunk.len \in Nat /\ WordMax \in Nat /\ pos <= WordMax
  BY BodyFacts, ToGoFacts
<1>2. pos' \in Nat /\ pos' >= pos
  BY <1>1 DEF SatAdd, Least
<1>3. StepsAt[pc'] \in Nat /\ StepsAt[pc'] < StepsAt[pc]
  BY DEF StepsAt
<1> QED BY <1>2, <1>3, PassingAdvances DEF source

LEMMA LoopLeft ==
  ASSUME WalkInv, LeaveLoop
  PROVE  ToGo' < ToGo /\ ToGo' \in Nat
<1>1. pc = "loop" /\ pc' = "end" /\ fileLen' = fileLen
  BY DEF LeaveLoop, source
<1>2. Padding \in {0, 1} /\ fileLen \in Nat /\ pos \in Nat
  BY <1>1, LoopFacts, ToGoFacts
<1>3. pos' = pos \/ pos' = pos + Padding \/ pos' = Larger(pos, fileLen)
  BY DEF LeaveLoop
<1>4. pos' \in Nat /\ pos' >= pos
  BY <1>2, <1>3 DEF Larger
<1>5. StepsAt[pc'] \in Nat /\ StepsAt[pc'] < StepsAt[pc]
  BY <1>1 DEF StepsAt
<1> QED BY <1>1, <1>4, <1>5, PassingAdvances

(* ReturnsInTime: parse_header takes at most as many steps as the file has    *)
(* bytes, and four, whatever chunks and sizes the file holds.                 *)
THEOREM ReturnsInTime == Spec => WalkAdvances
<1>1. ASSUME WalkInv, [Next]_vars
      PROVE  [ToGo' < ToGo /\ ToGo' \in Nat]_vars
  <2>1. SUFFICES ASSUME Next PROVE ToGo' < ToGo /\ ToGo' \in Nat
    BY <1>1
  <2>2. CASE ReadForm
    <3>1. pc = "start" /\ pc' = "loop" /\ pos' = FormHead /\ fileLen' = fileLen
      BY <2>2 DEF ReadForm, source
    <3>2. pos = 0
      BY <1>1, <3>1 DEF WalkInv, TypeInv
    <3>3. pos' \in Nat /\ pos' >= pos /\ StepsAt[pc'] \in Nat /\ StepsAt[pc'] < StepsAt[pc]
      BY <3>1, <3>2 DEF FormHead, StepsAt
    <3> QED BY <1>1, <3>1, <3>3, PassingAdvances
  <2>3. CASE LeaveLoop  BY <1>1, <2>3, LoopLeft
  <2>4. CASE ReadHeader BY <1>1, <2>4, HeaderAdvances
  <2>5. CASE BodyRead /\ ~DataBody
    <3>1. /\ pc = "body" /\ pc' = "loop" /\ UNCHANGED source
          /\ pos' = SatAdd(pos, chunk.len)
      BY <2>5 DEF BodyRead, Ds64Body, Ds64Accepted, FactBody, FmtBody, SkippedBody,
                  DataSkipped, ToNext, Body
    <3> QED BY <1>1, <3>1, BodyAdvances
  <2>6. CASE DataBody \/ WalkEnds
    <3>1. pc # "done" /\ pc' = "done"
      BY <2>6 DEF DataBody, WalkEnds, Finish, Fail, Body
    <3> QED BY <1>1, <3>1, ReturningEnds
  <2>7. CASE BodyRefused
    <3>1. pc # "done" /\ pc' = "done"
      BY <2>7 DEF BodyRefused, Ds64Refused, FmtRefused, FactRefused, SkippedRefused,
                  DataRefused, Fail, Body
    <3> QED BY <1>1, <3>1, ReturningEnds
  <2>8. CASE ReadFails \/ ShortForm \/ NotWave \/ CounterOverflows \/ ShortHeader
    <3>1. pc # "done" /\ pc' = "done"
      BY <2>8 DEF ReadFails, ShortForm, NotWave, CounterOverflows, ShortHeader, Fail
    <3> QED BY <1>1, <3>1, ReturningEnds
  <2> QED BY <2>1, <2>2, <2>3, <2>4, <2>5, <2>6, <2>7, <2>8
        DEF Next, Walk, Open, Loop, BodyRead
<1> QED BY <1>1, WalkInductive, PTL DEF Spec, WalkAdvances
=============================================================================
