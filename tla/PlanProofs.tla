---------------------------- MODULE PlanProofs -----------------------------
(***************************************************************************)
(* Theorems about the plan of a decode (FrameBudget) and about the walk over     *)
(* ADPCM blocks that carries one out (AdpcmWalk), for formats, blocks, payloads   *)
(* and budgets of every size.                                                *)
(***************************************************************************)
EXTENDS AdpcmWalk, FrameBudget, TLAPS

PerBlock == SamplesPerBlock(block, ch, ima)

TypeOK ==
  /\ ima \in BOOLEAN /\ ch \in {1, 2} /\ block \in Nat \ {0} /\ dataLen \in Nat
  /\ target \in Nat /\ max \in Nat /\ target <= max
  /\ pc \in {"begin", "loop", "header", "nibbles", "take", "done", "failed"}
  /\ pos \in Nat /\ remaining \in Nat /\ at \in Nat /\ made \in Nat /\ frames \in Nat

(* What the plan promises is no more than the whole blocks of the payload hold.  *)
Promise == target <= (dataLen \div block) * PerBlock

Inside == pc \in {"header", "nibbles", "take"}

(* Whole groups of nibbles since the header, each with its frames.           *)
Decoded ==
  /\ Inside \/ pc = "loop" => block >= HeaderLen
  /\ pc \in {"nibbles", "take"} =>
       /\ at >= HeaderLen /\ at <= block
       /\ IF ima /\ ch = 2
            THEN (at - 8) % 8 = 0 /\ made = at - 7
            ELSE made = (IF ima THEN 1 ELSE 2) + (at - HeaderLen) * (IF ch = 1 THEN 2 ELSE 1)
  /\ pc = "take" => at + Group > block

(* m blocks were read; before the last one is taken, m - 1 are delivered.     *)
Ledger(m) ==
  /\ pos = m * block /\ pos + remaining = dataLen
  /\ pc \in {"begin", "loop"} => frames = m * PerBlock
  /\ Inside => m >= 1 /\ frames = (m - 1) * PerBlock /\ frames < target
  /\ pc = "done" => frames = target /\ (m = 0 \/ frames > (m - 1) * PerBlock)

WalkInv ==
  /\ TypeOK /\ Promise /\ Decoded
  /\ frames <= target /\ error # "TooLong"
  /\ pc # "failed" => \E m \in Nat : Ledger(m)

-----------------------------------------------------------------------------
(* Arithmetic                                                                *)

LEMMA DivBounds ==
  ASSUME NEW a \in Nat, NEW d \in Nat \ {0}
  PROVE  a \div d \in Nat /\ d * (a \div d) <= a /\ a < d * (a \div d) + d
OBVIOUS

LEMMA Monotone ==
  ASSUME NEW n \in Nat, NEW m \in Nat, NEW d \in Nat, n <= m
  PROVE  n * d <= m * d /\ n * d \in Nat
OBVIOUS

LEMMA OneMore ==
  ASSUME NEW n \in Int, NEW d \in Nat
  PROVE  (n + 1) * d = n * d + d /\ (n - 1) * d = n * d - d
OBVIOUS

(* A payload of q whole blocks and less than another has q of them.          *)
LEMMA WholeBlocks ==
  ASSUME NEW q \in Nat, NEW d \in Nat \ {0}, NEW rest \in Nat, rest < d
  PROVE  (q * d + rest) \div d = q
<1> DEFINE a == q * d + rest
           k == a \div d
<1>1. q * d \in Nat /\ a \in Nat /\ a = q * d + rest
  BY Monotone
<1>2. k \in Nat /\ d * k <= a /\ a < d * k + d
  BY <1>1, DivBounds
<1> HIDE DEF a, k
<1>3. d * k = k * d
  BY <1>2
<1>4. ~(k < q)
  <2> SUFFICES ASSUME k < q
               PROVE  FALSE
    OBVIOUS
  <2>1. (k + 1) * d <= q * d
    BY <1>2, Monotone
  <2>2. (k + 1) * d = k * d + d
    BY <1>2, OneMore
  <2> QED BY <2>1, <2>2, <1>1, <1>2, <1>3
<1>5. ~(q < k)
  <2> SUFFICES ASSUME q < k
               PROVE  FALSE
    OBVIOUS
  <2>1. (q + 1) * d <= k * d
    BY <1>2, Monotone
  <2>2. (q + 1) * d = q * d + d
    BY OneMore
  <2> QED BY <2>1, <2>2, <1>1, <1>2, <1>3
<1>6. k = q
  BY <1>2, <1>4, <1>5
<1> QED BY <1>6 DEF k, a

LEMMA PerBlockPositive ==
  ASSUME TypeOK
  PROVE  PerBlock \in Nat \ {0}
<1>1. SatSub(block, 8) \in Nat /\ SatSub(block, 4) \in Nat /\ SatSub(block, 7 * ch) \in Nat
  BY DEF TypeOK, SatSub
<1>2. CASE ima /\ ch = 2
  BY <1>1, <1>2 DEF PerBlock, SamplesPerBlock
<1>3. CASE ima /\ ch = 1
  BY <1>1, <1>3 DEF PerBlock, SamplesPerBlock
<1>4. CASE ~ima /\ ch = 1
  BY <1>1, <1>4 DEF PerBlock, SamplesPerBlock
<1>5. CASE ~ima /\ ch = 2
  BY <1>1, <1>5 DEF PerBlock, SamplesPerBlock
<1> QED BY <1>2, <1>3, <1>4, <1>5 DEF TypeOK

(* A block decoded to its end holds what the estimate says.                  *)
LEMMA EndMatches ==
  ASSUME TypeOK, Decoded, pc = "take"
  PROVE  made = PerBlock
<1>1. block >= HeaderLen /\ at >= HeaderLen /\ at <= block /\ at + Group > block /\ at \in Nat /\ block \in Nat
  BY DEF TypeOK, Decoded, Inside
<1>2. CASE ima /\ ch = 2
  <2>1. (at - 8) % 8 = 0 /\ made = at - 7 /\ HeaderLen = 8 /\ Group = 8
    BY <1>2 DEF Decoded, HeaderLen, Group
  <2>2. SatSub(block, 8) = block - 8
    BY <1>1, <2>1 DEF SatSub
  <2>3. PerBlock = ((block - 8) \div 8) * 8 + 1
    BY <1>2, <2>2 DEF PerBlock, SamplesPerBlock
  <2>4. ((block - 8) \div 8) * 8 = at - 8
    BY <1>1, <2>1
  <2> QED BY <1>1, <2>1, <2>3, <2>4
<1>3. CASE ima /\ ch = 1
  <2>1. made = 1 + (at - 4) * 2 /\ HeaderLen = 4 /\ Group = 1
    BY <1>3 DEF Decoded, HeaderLen, Group
  <2>2. SatSub(block, 4) = block - 4
    BY <1>1, <2>1 DEF SatSub
  <2>3. PerBlock = (block - 4) * 2 + 1
    BY <1>3, <2>2 DEF PerBlock, SamplesPerBlock
  <2> QED BY <1>1, <2>1, <2>3
<1>4. CASE ~ima /\ ch = 1
  <2>1. made = 2 + (at - 7) * 2 /\ HeaderLen = 7 /\ Group = 1
    BY <1>4 DEF Decoded, HeaderLen, Group
  <2>2. SatSub(block, 7 * ch) = block - 7
    BY <1>1, <1>4, <2>1 DEF SatSub
  <2>3. PerBlock = ((block - 7) * 2) \div ch + 2
    BY <1>4, <2>2 DEF PerBlock, SamplesPerBlock
  <2> QED BY <1>1, <1>4, <2>1, <2>3
<1>5. CASE ~ima /\ ch = 2
  <2>1. made = 2 + (at - 14) * 1 /\ HeaderLen = 14 /\ Group = 1
    BY <1>5 DEF Decoded, HeaderLen, Group
  <2>2. SatSub(block, 7 * ch) = block - 14
    BY <1>1, <1>5, <2>1 DEF SatSub
  <2>3. PerBlock = ((block - 14) * 2) \div 2 + 2
    BY <1>5, <2>2 DEF PerBlock, SamplesPerBlock
  <2> QED BY <1>1, <2>1, <2>3
<1> QED BY <1>2, <1>3, <1>4, <1>5 DEF TypeOK

-----------------------------------------------------------------------------
(* The steps                                                                 *)

LEMMA PlanStays ==
  ASSUME UNCHANGED plan
  PROVE  /\ PerBlock' = PerBlock /\ HeaderLen' = HeaderLen /\ Group' = Group
         /\ Promise' = Promise
         /\ <<ima', ch', block', dataLen', target', max'>> = <<ima, ch, block, dataLen, target, max>>
<1>1. ima' = ima /\ ch' = ch /\ block' = block /\ dataLen' = dataLen /\ target' = target /\ max' = max
  BY DEF plan
<1>2. SamplesPerBlock(block, ch, ima)' = SamplesPerBlock(block, ch, ima)
  BY <1>1 DEF SamplesPerBlock, SatSub
<1> QED BY <1>1, <1>2 DEF PerBlock, HeaderLen, Group, Promise

LEMMA InitInv ==
  ASSUME Init
  PROVE  WalkInv
<1>1. PICK declared \in Declared : target = Capped(AdpcmFrames(dataLen, block, ch, ima), declared)
  BY DEF Init
<1>2. PICK more \in Slack : max = target + more
  BY DEF Init
<1>3. /\ ima \in BOOLEAN /\ ch \in {1, 2} /\ block \in Nat \ {0} /\ dataLen \in Nat
      /\ declared \in Nat \cup {None} /\ more \in Nat /\ WordMax \in Nat
  <2>1. block \in Aligns /\ dataLen \in Lengths /\ ima \in BOOLEAN /\ ch \in {1, 2}
    BY DEF Init
  <2>2. Aligns \subseteq Nat \ {0} /\ Lengths \subseteq 0 .. WordMax /\ WordMax \in Nat
    BY WalkAssumption, CountAssumption
  <2>3. Declared \subseteq Nat \cup {None} /\ Slack \subseteq Nat
    BY WalkAssumption
  <2>4. block \in Nat \ {0} /\ dataLen \in Nat
    BY <2>1, <2>2
  <2>5. declared \in Nat \cup {None} /\ more \in Nat
    BY <2>3
  <2> QED BY <2>1, <2>2, <2>4, <2>5
<1>4. PerBlock \in Nat \ {0}
  <2>1. SatSub(block, 8) \in Nat /\ SatSub(block, 4) \in Nat /\ SatSub(block, 7 * ch) \in Nat
    BY <1>3 DEF SatSub
  <2>2. CASE ch = 1
    BY <2>1, <2>2, <1>3 DEF PerBlock, SamplesPerBlock
  <2>3. CASE ch = 2
    BY <2>1, <2>3, <1>3 DEF PerBlock, SamplesPerBlock
  <2> QED BY <2>2, <2>3, <1>3
<1> DEFINE whole == (dataLen \div block) * PerBlock
<1>5. whole \in Nat
  BY <1>3, <1>4, DivBounds, Monotone
<1>6. AdpcmFrames(dataLen, block, ch, ima) \in Nat /\ AdpcmFrames(dataLen, block, ch, ima) <= whole
  BY <1>3, <1>5 DEF AdpcmFrames, PerBlock, Saturated, Least
<1>7. target \in Nat /\ target <= whole
  BY <1>1, <1>3, <1>5, <1>6 DEF Capped, Least, None
<1>8. TypeOK /\ Promise
  <2>1. max \in Nat /\ target <= max
    BY <1>2, <1>3, <1>7
  <2>2. /\ pc = "begin" /\ pos = 0 /\ remaining = dataLen /\ at = 0 /\ made = 0 /\ frames = 0
    BY DEF Init
  <2> QED BY <2>1, <2>2, <1>3, <1>7 DEF TypeOK, Promise
<1>9. Ledger(0)
  <2>1. 0 * block = 0 /\ 0 * PerBlock = 0
    BY <1>3, <1>4
  <2>2. /\ pc = "begin" /\ pos = 0 /\ remaining = dataLen /\ frames = 0
    BY DEF Init
  <2> QED BY <2>1, <2>2, <1>3 DEF Ledger, Inside
<1>10. Decoded /\ error # "TooLong"
  BY DEF Init, Decoded, Inside
<1>11. frames <= target
  <2>1. frames = 0
    BY DEF Init
  <2> QED BY <2>1, <1>7
<1> QED BY <1>8, <1>9, <1>10, <1>11 DEF WalkInv

LEMMA OpenStep ==
  ASSUME WalkInv, Begin \/ ReadFails \/ BadHeader \/ CallbackFails \/ UNCHANGED vars
  PROVE  WalkInv'
<1>1. /\ UNCHANGED <<plan, at, made, frames>> /\ UNCHANGED plan
      /\ pc' \in {"loop", "failed"} \/ UNCHANGED vars
  BY DEF Begin, ReadFails, BadHeader, CallbackFails, Stop, vars
<1>2. TypeOK'
  <2>1. pos' \in Nat /\ remaining' \in Nat
    BY DEF Begin, ReadFails, BadHeader, CallbackFails, Stop, vars, WalkInv, TypeOK
  <2> QED BY <1>1, <2>1, PlanStays DEF WalkInv, TypeOK, vars
<1>3. Promise' /\ frames' <= target'
  BY <1>1, PlanStays DEF WalkInv
<1>4. error' # "TooLong"
  BY DEF Begin, ReadFails, BadHeader, CallbackFails, Stop, vars, WalkInv
<1>5. Decoded'
  <2>1. CASE UNCHANGED vars
    BY <2>1, <1>1, PlanStays DEF WalkInv, Decoded, Inside, vars
  <2>2. CASE pc' \in {"loop", "failed"}
    <3>1. pc' = "loop" => block >= HeaderLen \/ UNCHANGED vars
      BY <2>2 DEF Begin, ReadFails, BadHeader, CallbackFails, Stop, HeaderLen, WalkInv, TypeOK
    <3>2. CASE pc' = "loop" /\ ~(UNCHANGED vars)
      BY <3>1, <3>2, <1>1, PlanStays DEF Decoded, Inside
    <3>3. CASE pc' = "failed"
      BY <3>3 DEF Decoded, Inside
    <3> QED BY <2>1, <2>2, <3>2, <3>3
  <2> QED BY <1>1, <2>1, <2>2
<1>6. pc' # "failed" => \E m \in Nat : Ledger(m)'
  <2>1. CASE pc' = "failed"
    BY <2>1
  <2>2. CASE UNCHANGED vars /\ pc' # "failed"
    <3>1. PICK m \in Nat : Ledger(m)
      BY <2>2 DEF WalkInv, vars
    <3>2. Ledger(m)'
      BY <2>2, <3>1, <1>1, PlanStays DEF Ledger, Inside, vars
    <3> QED BY <3>2
  <2>3. CASE pc' = "loop" /\ ~(UNCHANGED vars)
    <3>1. pc = "begin" /\ pos' = pos /\ remaining' = remaining
      BY <2>3 DEF Begin, ReadFails, BadHeader, CallbackFails, Stop
    <3>2. PICK m \in Nat : Ledger(m)
      BY <3>1 DEF WalkInv
    <3>3. Ledger(m)'
      BY <2>3, <3>1, <3>2, <1>1, PlanStays DEF Ledger, Inside
    <3> QED BY <3>3
  <2> QED BY <1>1, <2>1, <2>2, <2>3
<1> QED BY <1>2, <1>3, <1>4, <1>5, <1>6 DEF WalkInv

LEMMA BlockStep ==
  ASSUME WalkInv, ReadBlock
  PROVE  WalkInv'
<1>1. /\ pc = "loop" /\ pc' = "header" /\ frames < target /\ remaining >= block
      /\ pos' = pos + block /\ remaining' = remaining - block
      /\ UNCHANGED <<plan, at, made, frames, error>> /\ UNCHANGED plan
  BY DEF ReadBlock, MoreBlocks
<1>2. TypeOK /\ PerBlock \in Nat
  BY PerBlockPositive DEF WalkInv
<1>3. TypeOK'
  BY <1>1, PlanStays DEF WalkInv, TypeOK
<1>4. Promise' /\ frames' <= target' /\ error' # "TooLong"
  BY <1>1, PlanStays DEF WalkInv
<1>5. Decoded'
  BY <1>1, PlanStays DEF WalkInv, Decoded, Inside
<1>6. PICK m \in Nat : Ledger(m)
  BY <1>1 DEF WalkInv
<1>7. Ledger(m + 1)'
  <2>1. (m + 1) * block = m * block + block /\ m + 1 - 1 = m /\ m + 1 >= 1
    BY <1>2, OneMore DEF TypeOK
  <2>2. pos = m * block /\ pos + remaining = dataLen /\ frames = m * PerBlock
    BY <1>1, <1>6 DEF Ledger
  <2>3. pos' = (m + 1) * block' /\ pos' + remaining' = dataLen'
    BY <1>1, <1>2, <2>1, <2>2, PlanStays DEF TypeOK
  <2>4. frames' = ((m + 1) - 1) * PerBlock' /\ frames' < target'
    BY <1>1, <2>1, <2>2, PlanStays
  <2> QED BY <1>1, <2>1, <2>3, <2>4 DEF Ledger, Inside
<1> QED BY <1>3, <1>4, <1>5, <1>7 DEF WalkInv

LEMMA InsideStep ==
  ASSUME WalkInv, BlockHeader \/ Nibbles
  PROVE  WalkInv'
<1>1. /\ Inside /\ Inside' /\ UNCHANGED <<plan, pos, remaining, frames, error>> /\ UNCHANGED plan
  BY DEF BlockHeader, Nibbles, Inside
<1>2. TypeOK /\ block >= HeaderLen /\ HeaderLen \in Nat /\ Group \in Nat
  BY <1>1 DEF WalkInv, Decoded, TypeOK, HeaderLen, Group
<1>3. TypeOK'
  <2>1. at' \in Nat /\ made' \in Nat
    BY <1>2 DEF BlockHeader, Nibbles, TypeOK, GroupFrames
  <2>2. pc' \in {"nibbles", "take"}
    BY DEF BlockHeader, Nibbles
  <2> QED BY <1>1, <1>2, <2>1, <2>2, PlanStays DEF TypeOK
<1>4. Promise' /\ frames' <= target' /\ error' # "TooLong"
  BY <1>1, PlanStays DEF WalkInv
<1>5. Decoded'
  <2>1. block' >= HeaderLen'
    BY <1>1, <1>2, PlanStays
  <2>2. ASSUME BlockHeader
        PROVE  Decoded'
    <3>1. at' = HeaderLen /\ made' = (IF ima THEN 1 ELSE 2) /\ pc' = "nibbles"
      BY <2>2 DEF BlockHeader
    <3>2. CASE ima /\ ch = 2
      BY <3>1, <3>2, <2>1, <1>1, <1>2, PlanStays DEF Decoded, HeaderLen
    <3>3. CASE ~(ima /\ ch = 2)
      <4>1. made' = (IF ima THEN 1 ELSE 2) + (at' - HeaderLen) * (IF ch = 1 THEN 2 ELSE 1)
        BY <3>1, <1>2
      <4> QED BY <3>1, <3>3, <4>1, <2>1, <1>1, <1>2, PlanStays DEF Decoded
    <3> QED BY <3>2, <3>3
  <2>3. ASSUME Nibbles, at + Group <= block
        PROVE  Decoded'
    <3>1. at' = at + Group /\ made' = made + GroupFrames /\ pc' = "nibbles" /\ pc = "nibbles"
      BY <2>3 DEF Nibbles
    <3>2. at >= HeaderLen /\ at \in Nat /\ made \in Nat /\ block \in Nat /\ at' >= HeaderLen /\ at' <= block
      BY <2>3, <3>1, <1>2 DEF WalkInv, Decoded, TypeOK
    <3>3. CASE ima /\ ch = 2
      <4>1. (at - 8) % 8 = 0 /\ made = at - 7 /\ Group = 8 /\ GroupFrames = 8
        BY <3>1, <3>3 DEF WalkInv, Decoded, Group, GroupFrames
      <4>2. (at' - 8) % 8 = 0 /\ made' = at' - 7
        BY <3>1, <3>2, <4>1
      <4> QED BY <3>1, <3>2, <3>3, <4>2, <2>1, <1>1, PlanStays DEF Decoded
    <3>4. CASE ~(ima /\ ch = 2)
      <4>1. /\ made = (IF ima THEN 1 ELSE 2) + (at - HeaderLen) * (IF ch = 1 THEN 2 ELSE 1)
            /\ Group = 1 /\ GroupFrames = IF ch = 1 THEN 2 ELSE 1
        BY <3>1, <3>4 DEF WalkInv, Decoded, Group, GroupFrames
      <4>2. made' = (IF ima THEN 1 ELSE 2) + (at' - HeaderLen) * (IF ch = 1 THEN 2 ELSE 1)
        <5>1. CASE ch = 1
          BY <3>1, <3>2, <4>1, <5>1, <1>2
        <5>2. CASE ch # 1
          BY <3>1, <3>2, <4>1, <5>2, <1>2
        <5> QED BY <5>1, <5>2
      <4> QED BY <3>1, <3>2, <3>4, <4>2, <2>1, <1>1, PlanStays DEF Decoded
    <3> QED BY <3>3, <3>4
  <2>4. ASSUME Nibbles, ~(at + Group <= block)
        PROVE  Decoded'
    <3>1. at' = at /\ made' = made /\ pc' = "take" /\ pc = "nibbles"
      BY <2>4 DEF Nibbles
    <3>2. at + Group > block
      BY <2>4, <1>2 DEF TypeOK
    <3> QED BY <3>1, <3>2, <2>1, <1>1, PlanStays DEF WalkInv, Decoded
  <2> QED BY <2>2, <2>3, <2>4
<1>6. PICK m \in Nat : Ledger(m)
  BY <1>1 DEF WalkInv, Inside
<1>7. Ledger(m)'
  BY <1>1, <1>6, PlanStays DEF Ledger, Inside
<1> QED BY <1>3, <1>4, <1>5, <1>7 DEF WalkInv

LEMMA FinishStep ==
  ASSUME WalkInv, Finished
  PROVE  WalkInv'
<1>1. /\ pc = "loop" /\ ~MoreBlocks /\ pc' = "done" /\ error' = ""
      /\ UNCHANGED <<plan, at, made, pos, remaining, frames>> /\ UNCHANGED plan
  BY DEF Finished, Stop
<1>2. TypeOK /\ PerBlock \in Nat \ {0}
  BY PerBlockPositive DEF WalkInv
<1>3. TypeOK'
  BY <1>1, PlanStays DEF WalkInv, TypeOK
<1>4. Promise' /\ frames' <= target'
  BY <1>1, PlanStays DEF WalkInv
<1>5. Decoded'
  BY <1>1 DEF Decoded, Inside
<1>6. PICK m \in Nat : Ledger(m)
  BY <1>1 DEF WalkInv
<1>7. pos = m * block /\ pos + remaining = dataLen /\ frames = m * PerBlock
  BY <1>1, <1>6 DEF Ledger
<1>8. frames = target
  <2>1. CASE ~(frames < target)
    BY <2>1 DEF WalkInv, TypeOK
  <2>2. CASE remaining < block
    <3>1. (m * block + remaining) \div block = m
      BY <2>2, <1>2, WholeBlocks DEF TypeOK
    <3>2. target <= m * PerBlock
      BY <3>1, <1>7 DEF WalkInv, Promise
    <3> QED BY <3>2, <1>7 DEF WalkInv, TypeOK
  <2>3. ~(frames < target) \/ remaining < block
    <3>1. ~(frames < target /\ remaining >= block)
      BY <1>1 DEF MoreBlocks
    <3>2. remaining \in Nat /\ block \in Nat
      BY <1>2 DEF TypeOK
    <3> QED BY <3>1, <3>2
  <2> QED BY <2>1, <2>2, <2>3
<1>9. frames > (m - 1) * PerBlock
  <2>1. (m - 1) * PerBlock = m * PerBlock - PerBlock
    BY <1>2, OneMore
  <2> QED BY <2>1, <1>2, <1>7 DEF TypeOK
<1>10. Ledger(m)'
  BY <1>1, <1>7, <1>8, <1>9, PlanStays DEF Ledger, Inside
<1> QED BY <1>1, <1>3, <1>4, <1>5, <1>10 DEF WalkInv

LEMMA TakeStep ==
  ASSUME WalkInv, TakeBlock
  PROVE  WalkInv'
<1>1. pc = "take" /\ UNCHANGED <<plan, pos, remaining, at, made>> /\ UNCHANGED plan
  BY DEF TakeBlock, Stop
<1>2. TypeOK /\ PerBlock \in Nat \ {0} /\ made = PerBlock
  BY <1>1, PerBlockPositive, EndMatches DEF WalkInv
<1>3. PICK m \in Nat : Ledger(m)
  BY <1>1 DEF WalkInv
<1>4. /\ pos = m * block /\ pos + remaining = dataLen /\ m >= 1
      /\ frames = (m - 1) * PerBlock /\ frames < target
  BY <1>1, <1>3 DEF Ledger, Inside
<1>5. Take \in Nat /\ Take >= 1 /\ Take <= target - frames /\ (Take < made => Take = target - frames) /\ Take <= made
  BY <1>2, <1>4 DEF Take, Least, SatSub, TypeOK
<1>6. ~(Take > SatSub(max, frames))
  BY <1>2, <1>4, <1>5 DEF SatSub, TypeOK
<1>7. /\ frames' = frames + Take
      /\ (Take < made => pc' = "done" /\ error' = "")
      /\ (~(Take < made) => pc' = "loop" /\ error' = error)
  BY <1>6 DEF TakeBlock, Stop
<1>8. frames' \in Nat /\ frames' <= target /\ pc' \in {"done", "loop"}
  <2>1. frames \in Nat /\ target \in Nat /\ made \in Nat
    BY <1>2 DEF TypeOK
  <2>2. frames + Take \in Nat /\ frames + Take <= target
    BY <2>1, <1>5
  <2> QED BY <2>2, <1>7
<1>9. TypeOK'
  BY <1>1, <1>2, <1>8, PlanStays DEF TypeOK
<1>10. Promise' /\ frames' <= target' /\ error' # "TooLong"
  BY <1>1, <1>7, <1>8, PlanStays DEF WalkInv
<1>11. Decoded'
  <2>1. block >= HeaderLen
    BY <1>1 DEF WalkInv, Decoded, Inside
  <2> QED BY <2>1, <1>1, <1>8, PlanStays DEF Decoded, Inside
<1>12. (m - 1) * PerBlock = m * PerBlock - PerBlock /\ m * PerBlock \in Nat
  BY <1>2, OneMore, Monotone
<1>13. Ledger(m)'
  <2>1. CASE Take < made
    <3>1. frames' = target /\ frames' > (m - 1) * PerBlock /\ pc' = "done"
      <4>1. Take = target - frames /\ frames \in Nat /\ target \in Nat /\ frames' = frames + Take
        BY <2>1, <1>2, <1>5, <1>7 DEF TypeOK
      <4>2. frames' = target
        BY <4>1
      <4> QED BY <2>1, <4>2, <1>4, <1>7
    <3> QED BY <3>1, <1>1, <1>4, PlanStays DEF Ledger, Inside
  <2>2. CASE ~(Take < made)
    <3>1. Take = PerBlock
      BY <2>2, <1>2, <1>5
    <3>2. frames' = m * PerBlock /\ pc' = "loop"
      BY <2>2, <3>1, <1>2, <1>4, <1>7, <1>12
    <3> QED BY <3>2, <1>1, <1>4, PlanStays DEF Ledger, Inside
  <2> QED BY <2>1, <2>2
<1> QED BY <1>9, <1>10, <1>11, <1>13 DEF WalkInv

-----------------------------------------------------------------------------
(* The theorems                                                              *)

(* The bytes read, the frames delivered and the estimate keep the books of      *)
(* for_each_ms_adpcm_block and for_each_ima_adpcm_block: the inductive invariant.  *)
THEOREM WalkInvariant == Spec => []WalkInv
<1>1. Init => WalkInv
  BY InitInv
<1>2. WalkInv /\ [Next]_vars => WalkInv'
  <2> SUFFICES ASSUME WalkInv, [Next]_vars
               PROVE  WalkInv'
    OBVIOUS
  <2>1. ASSUME Begin \/ ReadFails \/ BadHeader \/ CallbackFails \/ UNCHANGED vars
        PROVE  WalkInv'
    BY <2>1, OpenStep
  <2>2. ASSUME ReadBlock
        PROVE  WalkInv'
    BY <2>2, BlockStep
  <2>3. ASSUME BlockHeader \/ Nibbles
        PROVE  WalkInv'
    BY <2>3, InsideStep
  <2>4. ASSUME Finished
        PROVE  WalkInv'
    BY <2>4, FinishStep
  <2>5. ASSUME TakeBlock
        PROVE  WalkInv'
    BY <2>5, TakeStep
  <2> QED BY <2>1, <2>2, <2>3, <2>4, <2>5 DEF Next
<1> QED BY <1>1, <1>2, PTL DEF Spec

(* adpcm_est_frames counts what a block of any length decodes to.            *)
THEOREM EstimateIsExact == Spec => []BlockMatchesEstimate
<1>1. WalkInv => BlockMatchesEstimate
  BY EndMatches DEF WalkInv, BlockMatchesEstimate, PerBlock
<1> QED BY <1>1, WalkInvariant, PTL

(* A walk without an error delivers the total of its plan, never more, and reads   *)
(* no block that the total has no use for.                                   *)
THEOREM WalkIsComplete == Spec => []WalkDeliversTheTotal
<1>1. WalkInv => WalkDeliversTheTotal
  <2> SUFFICES ASSUME WalkInv
               PROVE  WalkDeliversTheTotal
    OBVIOUS
  <2>1. ASSUME pc = "done"
        PROVE  frames = target /\ (pos > 0 => frames > (pos \div block - 1) * PerBlock)
    <3>1. PICK m \in Nat : Ledger(m)
      BY <2>1 DEF WalkInv
    <3>2. pos = m * block /\ frames = target /\ (m = 0 \/ frames > (m - 1) * PerBlock)
      BY <2>1, <3>1 DEF Ledger
    <3>3. block \in Nat \ {0} /\ m * block \in Nat
      BY Monotone DEF WalkInv, TypeOK
    <3>4. pos \div block = m
      <4>1. (m * block + 0) \div block = m
        BY <3>3, WholeBlocks
      <4> QED BY <4>1, <3>2, <3>3
    <3>5. m = 0 => pos = 0
      BY <3>2, <3>3
    <3> QED BY <3>2, <3>4, <3>5
  <2> QED BY <2>1 DEF WalkInv, WalkDeliversTheTotal, PerBlock
<1> QED BY <1>1, WalkInvariant, PTL

-----------------------------------------------------------------------------
(* The plan.                                                                  *)

PlanTypeOK ==
  /\ fmt \in Formats /\ available \in 0 .. WordMax /\ lengthKnown \in BOOLEAN
  /\ declaredLen \in Nat \cup {None} /\ declaredCount \in Nat \cup {None}
  /\ mode \in {"Mono", "Split"} /\ secs \in Nat /\ decodeRate \in Nat /\ outputCap \in 0 .. WordMax
  /\ used \in Nat /\ delivered \in Nat

(* What is known of the payload, since the probe and since the plan. *)
Estimated ==
  /\ stage # "probe" => probed = Frames(Payload)
  /\ stage \in {"duration", "output", "decode"} =>
       lengthKnown /\ planned = Payload /\ count = Frames(Payload)

(* The budgets passed so far. *)
Admitted ==
  /\ stage \in {"output", "decode"} => count <= MaxFrames
  /\ stage = "decode" => OutputBytes <= outputCap

TooShort == fmt.codec \in {"Ms", "Ima"} /\ fmt.unit < BlockHead

(* A decoder has taken m units, all in the payload, and delivered their frames. *)
Taken(m) ==
  /\ used = m * Unit /\ used <= planned /\ delivered = Least(count, Made(used))
  /\ TooShort => m = 0

Decoding ==
  /\ stage # "decode" => used = 0 /\ delivered = 0
  /\ stage = "decode" => \E m \in Nat : Taken(m)

BudgetInv == PlanTypeOK /\ Estimated /\ Admitted /\ Decoding

-----------------------------------------------------------------------------
(* Formats, payloads and their frames                                        *)

LEMMA FormatIs ==
  ASSUME fmt \in Formats
  PROVE  /\ fmt.codec \in Codecs /\ fmt.channels \in Nat \ {0} /\ fmt.unit \in Nat \ {0}
         /\ fmt.rate \in Nat \ {0}
         /\ fmt.codec = "G726" => fmt.unit \in 2 .. 5 /\ fmt.channels = 1
         /\ fmt.codec \in {"Ms", "Ima"} => fmt.channels \in {1, 2}
<1>1. fmt \in Format
  BY BudgetAssumption
<1>2. fmt.codec \in Codecs /\ fmt.channels \in Nat \ {0} /\ fmt.unit \in Nat \ {0} /\ fmt.rate \in Nat \ {0}
  BY <1>1 DEF Format
<1>3. fmt.codec = "G726" => fmt.unit \in 2 .. 5 /\ fmt.channels = 1
  BY BudgetAssumption
<1>4. fmt.codec \in {"Ms", "Ima"} => fmt.channels <= 2
  BY BudgetAssumption
<1> QED BY <1>2, <1>3, <1>4

LEMMA PayloadIs ==
  ASSUME PlanTypeOK, lengthKnown
  PROVE  /\ Payload \in Nat /\ Payload <= available /\ Payload <= WordMax /\ Payload # None
         /\ declaredLen # None => Payload <= declaredLen
<1>1. available \in Nat /\ available <= WordMax /\ WordMax \in Nat /\ declaredLen \in Nat \cup {None}
  BY CountAssumption DEF PlanTypeOK
<1> QED BY <1>1 DEF Payload, Least, None

LEMMA UnitPositive ==
  ASSUME fmt \in Formats
  PROVE  Unit \in Nat \ {0}
<1>1. fmt.unit * fmt.channels \in Nat \ {0}
  <2>1. 1 * fmt.channels <= fmt.unit * fmt.channels /\ fmt.unit * fmt.channels \in Nat
    BY FormatIs, Monotone
  <2> QED BY <2>1, FormatIs
<1> QED BY <1>1, FormatIs, CountAssumption DEF Unit

(* Frames of a whole unit of every codec but G.726. *)
PerUnit ==
  CASE fmt.codec = "Pcm" -> 1
    [] fmt.codec = "G722" -> 2
    [] fmt.codec = "Gsm" -> MsSamples
    [] OTHER -> SamplesPerBlock(fmt.unit, fmt.channels, fmt.codec = "Ima")

LEMMA SamplesBounded ==
  ASSUME NEW ba \in Nat \ {0}, NEW channels \in {1, 2}, NEW i \in BOOLEAN
  PROVE  SamplesPerBlock(ba, channels, i) \in Nat \ {0} /\ SamplesPerBlock(ba, channels, i) <= 8 * ba
<1>1. /\ SatSub(ba, 8) \in 0 .. ba /\ SatSub(ba, 4) \in 0 .. ba /\ SatSub(ba, 7) \in 0 .. ba
      /\ SatSub(ba, 14) \in 0 .. ba
  BY DEF SatSub
<1>2. CASE i /\ channels = 2
  BY <1>1, <1>2 DEF SamplesPerBlock
<1>3. CASE i /\ channels = 1
  BY <1>1, <1>3 DEF SamplesPerBlock
<1>4. CASE ~i /\ channels = 1
  BY <1>1, <1>4 DEF SamplesPerBlock
<1>5. CASE ~i /\ channels = 2
  BY <1>1, <1>5 DEF SamplesPerBlock
<1> QED BY <1>2, <1>3, <1>4, <1>5

LEMMA PerUnitBounded ==
  ASSUME fmt \in Formats, fmt.codec # "G726"
  PROVE  PerUnit \in Nat \ {0} /\ PerUnit <= 8 * Unit
<1>1. CASE fmt.codec \in {"Pcm", "G722"}
  <2>1. PerUnit \in {1, 2}
    BY <1>1 DEF PerUnit
  <2> QED BY <2>1, UnitPositive
<1>2. CASE fmt.codec = "Gsm"
  BY <1>2, CountAssumption DEF PerUnit, Unit
<1>3. CASE fmt.codec \in {"Ms", "Ima"}
  <2>1. Unit = fmt.unit /\ PerUnit = SamplesPerBlock(fmt.unit, fmt.channels, fmt.codec = "Ima")
    BY <1>3 DEF Unit, PerUnit
  <2> QED BY <1>3, <2>1, FormatIs, SamplesBounded
<1> QED BY <1>1, <1>2, <1>3, FormatIs DEF Codecs

(* What the payload is worth, by whole units. *)
LEMMA FramesAre ==
  ASSUME fmt \in Formats, fmt.codec # "G726", NEW len \in 0 .. WordMax
  PROVE  Frames(len) = Capped(Saturated((len \div Unit) * PerUnit), declaredCount)
<1>1. len # None /\ WordMax \in Nat
  BY CountAssumption DEF None
<1>2. CASE fmt.codec = "Pcm"
  <2>1. Frames(len) = Capped(len \div Unit, declaredCount) /\ PerUnit = 1
    BY <1>1, <1>2 DEF Frames, PcmFrames, Unit, PerUnit
  <2>2. len \div Unit \in Nat /\ len \div Unit <= WordMax
    <3>1. len \div Unit \in Nat /\ Unit * (len \div Unit) <= len
      BY UnitPositive, DivBounds
    <3>2. 1 * (len \div Unit) <= Unit * (len \div Unit) /\ Unit * (len \div Unit) \in Nat
      BY <3>1, UnitPositive, Monotone
    <3> QED BY <3>1, <3>2, <1>1
  <2>3. Saturated((len \div Unit) * 1) = len \div Unit
    BY <2>2, <1>1 DEF Saturated, Least
  <2> QED BY <2>1, <2>3
<1>3. CASE fmt.codec = "G722"
  BY <1>1, <1>3 DEF Frames, G722Frames, Unit, PerUnit
<1>4. CASE fmt.codec = "Gsm"
  BY <1>1, <1>4 DEF Frames, GsmFrames, Unit, PerUnit
<1>5. CASE fmt.codec \in {"Ms", "Ima"}
  BY <1>1, <1>5 DEF Frames, AdpcmFrames, Unit, PerUnit
<1> QED BY <1>2, <1>3, <1>4, <1>5, FormatIs DEF Codecs

(* A block walked to its end, from its header on, is what the estimate says.    *)
LEMMA BlockFramesAre ==
  ASSUME fmt \in Formats, fmt.codec \in {"Ms", "Ima"}, ~TooShort
  PROVE  BlockFrames = PerUnit
<1>1. fmt.channels \in {1, 2} /\ fmt.unit \in Nat \ {0} /\ fmt.unit >= BlockHead /\ Unit = fmt.unit
  BY FormatIs DEF TooShort, BlockHead, Unit
<1>2. CASE fmt.codec = "Ms" /\ fmt.channels = 1
  <2>1. BlockHead = 7 /\ SatSub(fmt.unit, 7 * fmt.channels) = fmt.unit - 7
    BY <1>1, <1>2 DEF BlockHead, SatSub
  <2> QED BY <1>1, <1>2, <2>1 DEF BlockFrames, PerUnit, SamplesPerBlock
<1>3. CASE fmt.codec = "Ms" /\ fmt.channels = 2
  <2>1. BlockHead = 14 /\ SatSub(fmt.unit, 7 * fmt.channels) = fmt.unit - 14
    BY <1>1, <1>3 DEF BlockHead, SatSub
  <2> QED BY <1>1, <1>3, <2>1 DEF BlockFrames, PerUnit, SamplesPerBlock
<1>4. CASE fmt.codec = "Ima" /\ fmt.channels = 1
  <2>1. BlockHead = 4 /\ SatSub(fmt.unit, 4) = fmt.unit - 4
    BY <1>1, <1>4 DEF BlockHead, SatSub
  <2> QED BY <1>1, <1>4, <2>1 DEF BlockFrames, PerUnit, SamplesPerBlock
<1>5. CASE fmt.codec = "Ima" /\ fmt.channels = 2
  <2>1. BlockHead = 8 /\ SatSub(fmt.unit, 8) = fmt.unit - 8
    BY <1>1, <1>5 DEF BlockHead, SatSub
  <2> QED BY <1>1, <1>5, <2>1 DEF BlockFrames, PerUnit, SamplesPerBlock
<1> QED BY <1>1, <1>2, <1>3, <1>4, <1>5

LEMMA MadeIs ==
  ASSUME fmt \in Formats, fmt.codec # "G726", NEW m \in Nat, TooShort => m = 0
  PROVE  Made(m * Unit) = m * PerUnit /\ m * PerUnit \in Nat
<1>1. PerUnit \in Nat \ {0} /\ Unit \in Nat \ {0}
  BY PerUnitBounded, UnitPositive
<1>2. (m * Unit) \div Unit = m
  <2>1. (m * Unit + 0) \div Unit = m /\ m * Unit \in Nat
    BY <1>1, WholeBlocks, Monotone
  <2> QED BY <2>1
<1>3. m * PerUnit \in Nat
  BY <1>1, Monotone
<1>4. CASE fmt.codec = "Pcm"
  BY <1>2, <1>4 DEF Made, PerUnit
<1>5. CASE fmt.codec = "G722"
  BY <1>2, <1>5 DEF Made, PerUnit
<1>6. CASE fmt.codec = "Gsm"
  BY <1>2, <1>6, CountAssumption DEF Made, PerUnit
<1>7. CASE fmt.codec \in {"Ms", "Ima"}
  <2>1. Made(m * Unit) = BlockFrames * m
    BY <1>2, <1>7 DEF Made
  <2>2. CASE ~TooShort
    BY <1>1, <1>7, <2>1, <2>2, BlockFramesAre
  <2>3. CASE TooShort
    <3>1. m = 0 /\ BlockFrames \in Int
      <4>1. fmt.channels \in {1, 2} /\ fmt.unit \in Nat /\ Unit = fmt.unit /\ BlockHead \in Int
        BY <1>7, FormatIs DEF Unit, BlockHead
      <4>2. BlockFrames \in Int
        <5>1. CASE fmt.channels = 1
          BY <4>1, <5>1 DEF BlockFrames
        <5>2. CASE fmt.channels = 2
          BY <4>1, <5>2 DEF BlockFrames
        <5> QED BY <4>1, <5>1, <5>2
      <4> QED BY <2>3, <4>2
    <3>2. BlockFrames * 0 = 0 /\ 0 * PerUnit = 0
      BY <1>1, <3>1
    <3> QED BY <2>1, <3>1, <3>2
  <2> QED BY <2>2, <2>3
<1> QED BY <1>3, <1>4, <1>5, <1>6, <1>7, FormatIs DEF Codecs

LEMMA CodewordsAre ==
  ASSUME fmt \in Formats, fmt.codec = "G726", NEW len \in 0 .. WordMax, NEW n \in Nat
  PROVE  /\ Unit = 1 /\ fmt.unit \in 2 .. 5
         /\ Frames(len) = Capped(Saturated(len * 8) \div fmt.unit, declaredCount)
         /\ Made(n) = (8 * n) \div fmt.unit
<1>1. len # None
  BY CountAssumption DEF None
<1> QED BY <1>1, FormatIs DEF Frames, G726Frames, Made, Unit

LEMMA CapIs ==
  ASSUME NEW n \in Nat, NEW d \in Nat \cup {None}
  PROVE  Capped(n, d) \in Nat /\ Capped(n, d) <= n /\ (Capped(n, d) = n \/ (d > 0 /\ Capped(n, d) = d))
BY DEF Capped, Least, None

LEMMA SaturatedIs ==
  ASSUME NEW n \in Nat
  PROVE  Saturated(n) \in Nat /\ Saturated(n) <= n /\ (n <= WordMax => Saturated(n) = n)
BY CountAssumption DEF Saturated, Least

(* Frames a plan counts, and what that says of the units in the payload.       *)
LEMMA CountIs ==
  ASSUME PlanTypeOK, NEW len \in 0 .. WordMax
  PROVE  Frames(len) \in Nat
<1>1. fmt \in Formats /\ declaredCount \in Nat \cup {None} /\ len \in Nat
  BY CountAssumption DEF PlanTypeOK
<1>2. CASE fmt.codec = "G726"
  <2>1. Saturated(len * 8) \in Nat
    BY <1>1, SaturatedIs
  <2>2. Saturated(len * 8) \div fmt.unit \in Nat
    <3>1. fmt.unit \in 2 .. 5
      BY <1>1, <1>2, FormatIs
    <3> QED BY <2>1, <3>1, DivBounds
  <2> QED BY <2>2, <1>1, <1>2, CodewordsAre, CapIs
<1>3. CASE fmt.codec # "G726"
  <2>1. (len \div Unit) * PerUnit \in Nat
    BY <1>1, <1>3, UnitPositive, PerUnitBounded, DivBounds, Monotone
  <2>2. Saturated((len \div Unit) * PerUnit) \in Nat
    BY <2>1, SaturatedIs
  <2> QED BY <2>2, <1>1, <1>3, FramesAre, CapIs
<1> QED BY <1>2, <1>3

LEMMA FewerUnits ==
  ASSUME NEW m \in Nat, NEW q \in Nat, NEW d \in Nat, m * d < q * d
  PROVE  m < q
<1> SUFFICES ASSUME q <= m
             PROVE  q * d <= m * d
  <2>1. m * d \in Nat /\ q * d \in Nat
    BY Monotone
  <2> QED BY <2>1
<1> QED BY Monotone

(* A decoder whose frames are not made yet finds a unit more in the payload.    *)
LEMMA UnitIsThere ==
  ASSUME PlanTypeOK, NEW len \in 0 .. WordMax, NEW m \in Nat, TooShort => m = 0,
         Made(m * Unit) < Frames(len)
  PROVE  m * Unit + Unit <= len
<1>1. /\ fmt \in Formats /\ declaredCount \in Nat \cup {None} /\ len \in Nat
      /\ Unit \in Nat \ {0} /\ Frames(len) \in Nat
  BY CountAssumption, UnitPositive, CountIs DEF PlanTypeOK
<1>2. CASE fmt.codec = "G726"
  <2> DEFINE s == Saturated(len * 8)
  <2>1. s \in Nat /\ s <= len * 8 /\ m * Unit = m
    BY <1>1, <1>2, SaturatedIs, CodewordsAre
  <2>2. (8 * m) \div fmt.unit < Frames(len) /\ fmt.unit \in 2 .. 5
    BY <1>1, <1>2, <2>1, CodewordsAre
  <2>3. Frames(len) <= s \div fmt.unit
    <3>1. s \div fmt.unit \in Nat
      BY <2>1, <2>2, DivBounds
    <3>2. Frames(len) = Capped(s \div fmt.unit, declaredCount)
      BY <1>1, <1>2, CodewordsAre
    <3> HIDE DEF s
    <3> QED BY <1>1, <3>1, <3>2, CapIs
  <2> DEFINE c == Frames(len)
  <2>4. (8 * m) \div fmt.unit < c /\ c <= s \div fmt.unit /\ c \in Nat
    BY <1>1, <2>2, <2>3
  <2> HIDE DEF s, c
  <2>5. m < len
    <3>1. CASE fmt.unit = 2
      BY <2>1, <2>4, <1>1, <3>1
    <3>2. CASE fmt.unit = 3
      BY <2>1, <2>4, <1>1, <3>2
    <3>3. CASE fmt.unit = 4
      BY <2>1, <2>4, <1>1, <3>3
    <3>4. CASE fmt.unit = 5
      BY <2>1, <2>4, <1>1, <3>4
    <3> QED BY <2>2, <3>1, <3>2, <3>3, <3>4
  <2> QED BY <2>1, <2>5, <1>1, <1>2, CodewordsAre
<1>3. CASE fmt.codec # "G726"
  <2> DEFINE q == len \div Unit
             whole == q * PerUnit
  <2>1. q \in Nat /\ Unit * q <= len /\ PerUnit \in Nat /\ whole \in Nat
    BY <1>1, <1>3, DivBounds, PerUnitBounded, Monotone
  <2>2. Frames(len) <= whole
    <3>1. Saturated(whole) \in Nat /\ Saturated(whole) <= whole
      BY <2>1, SaturatedIs
    <3>2. Frames(len) = Capped(Saturated(whole), declaredCount)
      BY <1>1, <1>3, FramesAre
    <3> HIDE DEF whole
    <3>3. Frames(len) <= Saturated(whole)
      BY <1>1, <3>1, <3>2, CapIs
    <3> QED BY <1>1, <2>1, <3>1, <3>3
  <2>3. Made(m * Unit) = m * PerUnit /\ m * PerUnit \in Nat
    BY <1>1, <1>3, MadeIs
  <2>4. m * PerUnit < q * PerUnit
    BY <1>1, <2>1, <2>2, <2>3
  <2> HIDE DEF q
  <2>5. m < q
    BY <2>1, <2>4, FewerUnits
  <2>6. (m + 1) * Unit <= q * Unit /\ (m + 1) * Unit = m * Unit + Unit /\ q * Unit = Unit * q
        /\ m * Unit \in Nat /\ q * Unit \in Nat
    <3>1. (m + 1) * Unit <= q * Unit
      <4>1. m + 1 \in Nat /\ m + 1 <= q
        BY <2>1, <2>5
      <4> QED BY <1>1, <2>1, <4>1, Monotone
    <3>2. (m + 1) * Unit = m * Unit + Unit
      BY <1>1, OneMore
    <3>3. q * Unit = Unit * q /\ m * Unit \in Nat /\ q * Unit \in Nat
      BY <1>1, <2>1, Monotone
    <3> QED BY <3>1, <3>2, <3>3
  <2> QED BY <1>1, <2>1, <2>6
<1> QED BY <1>2, <1>3

(* A decoder that has made the frames of the estimate has left no unit behind.   *)
LEMMA NoUnitIsLeft ==
  ASSUME PlanTypeOK, NEW len \in 0 .. WordMax, NEW m \in Nat, TooShort => m = 0,
         Frames(len) <= Made(m * Unit), ~(declaredCount > 0 /\ Frames(len) = declaredCount),
         len * 8 <= WordMax
  PROVE  len < m * Unit + Unit
<1>1. /\ fmt \in Formats /\ declaredCount \in Nat \cup {None} /\ len \in Nat
      /\ Unit \in Nat \ {0} /\ Frames(len) \in Nat
  BY CountAssumption, UnitPositive, CountIs DEF PlanTypeOK
<1>2. CASE fmt.codec = "G726"
  <2>1. Saturated(len * 8) = len * 8 /\ fmt.unit \in 2 .. 5 /\ m * Unit = m /\ Unit = 1
    BY <1>1, <1>2, SaturatedIs, CodewordsAre
  <2>2. Frames(len) = (len * 8) \div fmt.unit
    <3>1. (len * 8) \div fmt.unit \in Nat
      BY <1>1, <2>1, DivBounds
    <3>2. Frames(len) = Capped((len * 8) \div fmt.unit, declaredCount)
      BY <1>1, <1>2, <2>1, CodewordsAre
    <3> QED BY <1>1, <3>1, <3>2, CapIs
  <2>3. (len * 8) \div fmt.unit <= (8 * m) \div fmt.unit
    BY <1>1, <1>2, <2>1, <2>2, CodewordsAre
  <2>4. len < m + 1
    <3>1. CASE fmt.unit = 2
      BY <1>1, <2>3, <3>1
    <3>2. CASE fmt.unit = 3
      BY <1>1, <2>3, <3>2
    <3>3. CASE fmt.unit = 4
      BY <1>1, <2>3, <3>3
    <3>4. CASE fmt.unit = 5
      BY <1>1, <2>3, <3>4
    <3> QED BY <2>1, <3>1, <3>2, <3>3, <3>4
  <2> QED BY <2>1, <2>4
<1>3. CASE fmt.codec # "G726"
  <2> DEFINE q == len \div Unit
             whole == q * PerUnit
  <2>1. /\ q \in Nat /\ Unit * q <= len /\ len < Unit * q + Unit
        /\ PerUnit \in Nat \ {0} /\ PerUnit <= 8 * Unit /\ whole \in Nat
    <3>1. q \in Nat /\ Unit * q <= len /\ len < Unit * q + Unit
      BY <1>1, DivBounds
    <3>2. PerUnit \in Nat \ {0} /\ PerUnit <= 8 * Unit
      BY <1>1, <1>3, PerUnitBounded
    <3> HIDE DEF q
    <3>3. q * PerUnit \in Nat
      BY <3>1, <3>2, Monotone
    <3> QED BY <3>1, <3>2, <3>3
  <2>2. whole <= WordMax
    <3>1. PerUnit * q <= (8 * Unit) * q /\ (8 * Unit) * q = 8 * (Unit * q) /\ PerUnit * q = whole
          /\ Unit * q \in Nat
      <4> HIDE DEF q
      <4>1. PerUnit * q <= (8 * Unit) * q
        BY <1>1, <2>1, Monotone
      <4>2. (8 * Unit) * q = 8 * (Unit * q) /\ PerUnit * q = q * PerUnit /\ Unit * q \in Nat
        BY <1>1, <2>1
      <4> QED BY <4>1, <4>2
    <3> DEFINE uq == Unit * q
    <3>2. whole <= 8 * uq /\ uq <= len /\ uq \in Nat
      BY <2>1, <3>1
    <3> HIDE DEF uq, whole
    <3> QED BY <1>1, <2>1, <3>2, CountAssumption
  <2>3. Frames(len) = whole
    <3>1. Frames(len) = Capped(Saturated(whole), declaredCount)
      BY <1>1, <1>3, FramesAre
    <3> HIDE DEF whole
    <3>2. Saturated(whole) = whole
      BY <2>1, <2>2, SaturatedIs
    <3> QED BY <1>1, <2>1, <3>1, <3>2, CapIs
  <2>4. Made(m * Unit) = m * PerUnit /\ m * PerUnit \in Nat
    BY <1>1, <1>3, MadeIs
  <2>5. q * PerUnit <= m * PerUnit
    BY <2>3, <2>4
  <2> HIDE DEF q
  <2>6. q <= m
    <3> SUFFICES ASSUME m < q
                 PROVE  FALSE
      BY <2>1
    <3>1. (m + 1) * PerUnit <= q * PerUnit /\ (m + 1) * PerUnit = m * PerUnit + PerUnit
      <4>1. m + 1 \in Nat /\ m + 1 <= q
        BY <2>1
      <4> QED BY <2>1, <4>1, Monotone, OneMore
    <3> DEFINE mp == m * PerUnit
               qp == q * PerUnit
    <3>2. mp \in Nat /\ qp \in Nat /\ mp + PerUnit <= qp /\ qp <= mp
      BY <2>1, <2>4, <2>5, <3>1
    <3> HIDE DEF mp, qp
    <3> QED BY <2>1, <3>2
  <2>7. q * Unit <= m * Unit /\ q * Unit = Unit * q /\ q * Unit \in Nat /\ m * Unit \in Nat
    BY <1>1, <2>1, <2>6, Monotone
  <2> QED BY <1>1, <2>1, <2>7
<1> QED BY <1>2, <1>3

-----------------------------------------------------------------------------
(* The steps of the plan.                                                     *)

LEMMA HeaderStays ==
  ASSUME UNCHANGED <<header, options>>
  PROVE  /\ fmt' = fmt /\ available' = available /\ declaredLen' = declaredLen
         /\ declaredCount' = declaredCount /\ lengthKnown' = lengthKnown
         /\ mode' = mode /\ secs' = secs /\ decodeRate' = decodeRate /\ outputCap' = outputCap
         /\ Payload' = Payload /\ Frames(Payload)' = Frames(Payload)
         /\ MaxFrames' = MaxFrames /\ Planes' = Planes /\ Unit' = Unit /\ TooShort' = TooShort
<1>1. /\ fmt' = fmt /\ available' = available /\ declaredLen' = declaredLen
      /\ declaredCount' = declaredCount /\ lengthKnown' = lengthKnown
      /\ mode' = mode /\ secs' = secs /\ decodeRate' = decodeRate /\ outputCap' = outputCap
  BY DEF header, options
<1>2. Payload' = Payload
  BY <1>1 DEF Payload
<1>3. Frames(Payload)' = Frames(Payload)
  BY <1>1, <1>2 DEF Frames
<1>4. MaxFrames' = MaxFrames /\ Planes' = Planes
  BY <1>1 DEF MaxFrames, Planes
<1>5. Unit' = Unit
  BY <1>1 DEF Unit
<1>6. TooShort' = TooShort
  BY <1>1 DEF TooShort, BlockHead
<1> QED BY <1>1, <1>2, <1>3, <1>4, <1>5, <1>6

LEMMA MadeStays ==
  ASSUME UNCHANGED fmt, NEW n
  PROVE  Made(n)' = Made(n)
<1>1. Unit' = Unit
  BY DEF Unit
<1>2. BlockFrames' = BlockFrames
  BY <1>1 DEF BlockFrames, BlockHead
<1> QED BY <1>1, <1>2 DEF Made

LEMMA BudgetInitInv ==
  ASSUME BudgetInit
  PROVE  BudgetInv
<1>1. PlanTypeOK
  BY BudgetAssumption, CountAssumption DEF BudgetInit, PlanTypeOK
<1> QED BY <1>1 DEF BudgetInit, BudgetInv, Estimated, Admitted, Decoding

(* A step of the plan: nothing is decoded yet. *)
LEMMA PlanStep ==
  ASSUME BudgetInv, Probe \/ Open \/ CheckDuration \/ CheckOutput
  PROVE  BudgetInv'
<1>1. /\ UNCHANGED <<header, options>> /\ used' = used /\ delivered' = delivered /\ stage # "decode"
  BY DEF Probe, Open, CheckDuration, CheckOutput
<1>2. PlanTypeOK'
  BY <1>1, HeaderStays DEF BudgetInv, PlanTypeOK
<1>3. used = 0 /\ delivered = 0
  BY <1>1 DEF BudgetInv, Decoding
<1>4. Estimated'
  <2>1. CASE Probe
    BY <2>1, <1>1, HeaderStays DEF Probe, Estimated
  <2>2. CASE Open
    BY <2>2, <1>1, HeaderStays DEF Open, BudgetInv, Estimated
  <2>3. CASE CheckDuration
    BY <2>3, <1>1, HeaderStays DEF CheckDuration, BudgetInv, Estimated
  <2>4. CASE CheckOutput
    BY <2>4, <1>1, HeaderStays DEF CheckOutput, BudgetInv, Estimated
  <2> QED BY <2>1, <2>2, <2>3, <2>4
<1>5. stage' \in {"duration", "output", "decode"} =>
        lengthKnown /\ count' = Frames(Payload) /\ planned' = Payload /\ count' \in Nat /\ planned' \in Nat
  <2> SUFFICES ASSUME stage' \in {"duration", "output", "decode"}
               PROVE  /\ lengthKnown /\ count' = Frames(Payload) /\ planned' = Payload
                      /\ count' \in Nat /\ planned' \in Nat
    OBVIOUS
  <2>1. lengthKnown /\ planned' = Payload /\ count' = Frames(Payload)
    BY <1>1, <1>4, HeaderStays DEF Estimated
  <2>2. Payload \in 0 .. WordMax
    BY <2>1, PayloadIs, CountAssumption DEF BudgetInv
  <2> QED BY <2>1, <2>2, CountIs, CountAssumption DEF BudgetInv
<1>6. Admitted'
  <2>1. CASE Probe \/ Open
    BY <2>1 DEF Probe, Open, Admitted
  <2>2. CASE CheckDuration
    <3>1. stage' = "output" => ~(count > MaxFrames) /\ count' = count /\ count' \in Nat
      BY <2>2, <1>5 DEF CheckDuration
    <3>2. MaxFrames \in Nat
      <4>1. secs \in Nat /\ decodeRate \in Nat /\ fmt.rate \in Nat
        BY FormatIs DEF BudgetInv, PlanTypeOK
      <4>2. AtLeast1(Least(fmt.rate, decodeRate)) \in Nat
        BY <4>1 DEF AtLeast1, Least
      <4> QED BY <4>1, <4>2, Monotone DEF MaxFrames
    <3>3. stage' \in {"output", "TooLong"}
      BY <2>2 DEF CheckDuration
    <3> QED BY <3>1, <3>2, <3>3, <1>1, HeaderStays DEF Admitted
  <2>3. CASE CheckOutput
    <3>1. count' = count /\ count <= MaxFrames /\ stage' \in {"decode", "OutputTooLarge"}
      BY <2>3 DEF CheckOutput, BudgetInv, Admitted
    <3>2. stage' = "decode" => OutputBytes <= outputCap
      <4> SUFFICES ASSUME stage' = "decode"
                   PROVE  OutputBytes <= outputCap
        OBVIOUS
      <4>1. ~(OutputBytes > outputCap)
        BY <2>3 DEF CheckOutput
      <4>2. OutputBytes \in Nat
        <5>1. count \in Nat /\ Planes \in Nat
          BY <1>5, <3>1, FormatIs DEF Planes, BudgetInv, PlanTypeOK
        <5>2. Planes * count \in Nat
          BY <5>1, Monotone
        <5>3. Saturated(Planes * count) \in Nat
          BY <5>2, SaturatedIs
        <5>4. Saturated(Planes * count) * 4 \in Nat
          BY <5>3
        <5> QED BY <5>4, SaturatedIs DEF OutputBytes
      <4>3. outputCap \in Nat
        BY CountAssumption DEF BudgetInv, PlanTypeOK
      <4> QED BY <4>1, <4>2, <4>3
    <3>3. OutputBytes' = OutputBytes
      BY <3>1, <1>1, HeaderStays DEF OutputBytes
    <3> QED BY <3>1, <3>2, <3>3, <1>1, HeaderStays DEF Admitted
  <2> QED BY <2>1, <2>2, <2>3
<1>7. Decoding'
  <2>1. stage' = "decode" => Taken(0)'
    <3> SUFFICES ASSUME stage' = "decode"
                 PROVE  Taken(0)'
      OBVIOUS
    <3>1. planned' \in Nat /\ count' \in Nat /\ fmt \in Formats /\ fmt' = fmt
      BY <1>1, <1>5, HeaderStays DEF BudgetInv, PlanTypeOK
    <3>2. Unit \in Nat \ {0} /\ Unit' = Unit
      BY <1>1, <3>1, UnitPositive, HeaderStays
    <3>3. Made(0)' = 0
      <4>1. Made(0)' = Made(0)
        BY <3>1, MadeStays
      <4>2. CASE fmt.codec = "G726"
        <5>1. Made(0) = (8 * 0) \div fmt.unit /\ fmt.unit \in 2 .. 5
          <6>1. 0 \in 0 .. WordMax
            BY CountAssumption
          <6> QED BY <3>1, <4>2, <6>1, CodewordsAre
        <5> QED BY <4>1, <5>1
      <4>3. CASE fmt.codec # "G726"
        <5>1. Made(0 * Unit) = 0 * PerUnit /\ PerUnit \in Nat
          BY <3>1, <4>3, MadeIs, PerUnitBounded
        <5> QED BY <3>2, <4>1, <5>1
      <4> QED BY <4>2, <4>3
    <3>4. used' = 0 /\ delivered' = 0 /\ 0 * Unit = 0
      BY <1>1, <1>3, <3>2
    <3> QED BY <3>1, <3>2, <3>3, <3>4 DEF Taken, Least
  <2> QED BY <2>1, <1>1, <1>3 DEF Decoding
<1> QED BY <1>2, <1>4, <1>6, <1>7 DEF BudgetInv

LEMMA MadeIsNat ==
  ASSUME PlanTypeOK, NEW m \in Nat, TooShort => m = 0
  PROVE  Made(m * Unit) \in Nat
<1>1. fmt \in Formats /\ 0 \in 0 .. WordMax
  BY CountAssumption DEF PlanTypeOK
<1>2. m * Unit \in Nat
  BY <1>1, UnitPositive, Monotone
<1>3. CASE fmt.codec = "G726"
  <2>1. Made(m * Unit) = (8 * (m * Unit)) \div fmt.unit /\ fmt.unit \in 2 .. 5
    BY <1>1, <1>2, <1>3, CodewordsAre
  <2>2. 8 * (m * Unit) \in Nat
    BY <1>2
  <2> QED BY <2>1, <2>2, DivBounds
<1>4. CASE fmt.codec # "G726"
  BY <1>1, <1>4, MadeIs
<1> QED BY <1>3, <1>4

LEMMA DecodeStep ==
  ASSUME BudgetInv, Decode
  PROVE  BudgetInv'
<1>1. /\ UNCHANGED <<header, options>> /\ stage' = stage /\ planned' = planned /\ count' = count
      /\ probed' = probed /\ stage = "decode" /\ delivered < count
      /\ fmt.codec \in {"Ms", "Ima"} => fmt.unit >= BlockHead
      /\ used' = used + Unit /\ delivered' = Least(count, Made(used + Unit))
  BY DEF Decode
<1>2. PICK m \in Nat : Taken(m)
  BY <1>1 DEF BudgetInv, Decoding
<1>3. PlanTypeOK /\ fmt \in Formats /\ Unit \in Nat \ {0}
  BY UnitPositive DEF BudgetInv, PlanTypeOK
<1>4. ~TooShort
  <2>1. fmt.unit \in Nat /\ BlockHead \in Nat
    BY <1>3, FormatIs DEF BlockHead
  <2> QED BY <1>1, <2>1 DEF TooShort
<1>5. planned \in 0 .. WordMax /\ planned \in Nat /\ count = Frames(planned) /\ count \in Nat
  <2>1. lengthKnown /\ planned = Payload /\ count = Frames(Payload)
    BY <1>1 DEF BudgetInv, Estimated
  <2>2. planned \in 0 .. WordMax /\ planned \in Nat
    BY <1>3, <2>1, PayloadIs, CountAssumption
  <2> QED BY <1>3, <2>1, <2>2, CountIs
<1>6. used = m * Unit /\ delivered = Least(count, Made(m * Unit)) /\ used \in Nat
  BY <1>2 DEF Taken, BudgetInv, PlanTypeOK
<1>7. used' = (m + 1) * Unit /\ used' <= planned /\ used' \in Nat
  <2>1. Made(m * Unit) \in Nat
    BY <1>3, <1>4, MadeIsNat
  <2>2. Made(m * Unit) < Frames(planned)
    BY <1>1, <1>5, <1>6, <2>1 DEF Least
  <2>3. m * Unit + Unit <= planned
    BY <1>3, <1>4, <1>5, <2>2, UnitIsThere
  <2> QED BY <1>1, <1>3, <1>6, <2>3, OneMore
<1>8. PICK n \in Nat : n = (m + 1) * Unit
  BY <1>7
<1>9. used' = n /\ delivered' = Least(count, Made(n)) /\ Made(n) \in Nat
  <2>1. m + 1 \in Nat
    OBVIOUS
  <2>2. Made(n) \in Nat
    BY <1>3, <1>4, <1>8, <2>1, MadeIsNat
  <2>3. used + Unit = n
    BY <1>1, <1>7, <1>8
  <2> QED BY <1>1, <2>2, <2>3
<1>10. Taken(m + 1)'
  <2>1. Made(n)' = Made(n) /\ Unit' = Unit /\ TooShort' = TooShort
    BY <1>1, HeaderStays, MadeStays
  <2>2. delivered' = Least(count, Made(used))'
    BY <1>1, <1>9, <2>1 DEF Least
  <2> QED BY <1>1, <1>4, <1>7, <2>1, <2>2 DEF Taken
<1>11. PlanTypeOK'
  <2>1. delivered' \in Nat
    BY <1>5, <1>9 DEF Least
  <2> QED BY <1>1, <1>3, <1>7, <2>1, HeaderStays DEF PlanTypeOK
<1>12. Estimated' /\ Admitted'
  <2>1. OutputBytes' = OutputBytes
    BY <1>1, HeaderStays DEF OutputBytes
  <2> QED BY <1>1, <2>1, HeaderStays DEF BudgetInv, Estimated, Admitted
<1>13. Decoding'
  <2>1. m + 1 \in Nat /\ stage' = "decode"
    BY <1>1
  <2> QED BY <1>10, <2>1 DEF Decoding
<1> QED BY <1>11, <1>12, <1>13 DEF BudgetInv

LEMMA PlanStutters ==
  ASSUME BudgetInv, UNCHANGED budgetVars
  PROVE  BudgetInv'
<1>1. /\ UNCHANGED <<header, options>> /\ stage' = stage /\ planned' = planned /\ count' = count
      /\ probed' = probed /\ used' = used /\ delivered' = delivered
  BY DEF budgetVars
<1>2. PlanTypeOK'
  BY <1>1, HeaderStays DEF BudgetInv, PlanTypeOK
<1>3. OutputBytes' = OutputBytes
  BY <1>1, HeaderStays DEF OutputBytes
<1>4. Estimated' /\ Admitted'
  BY <1>1, <1>3, HeaderStays DEF BudgetInv, Estimated, Admitted
<1>5. Decoding'
  <2>1. CASE stage # "decode"
    BY <1>1, <2>1 DEF BudgetInv, Decoding
  <2>2. CASE stage = "decode"
    <3>1. PICK m \in Nat : Taken(m)
      BY <2>2 DEF BudgetInv, Decoding
    <3>2. PICK n : n = used
      OBVIOUS
    <3>3. Made(n)' = Made(n)
      BY <1>1, HeaderStays, MadeStays
    <3>4. Taken(m)'
      BY <1>1, <3>1, <3>2, <3>3, HeaderStays DEF Taken, Least
    <3> QED BY <1>1, <2>2, <3>4 DEF Decoding
  <2> QED BY <2>1, <2>2
<1> QED BY <1>2, <1>4, <1>5 DEF BudgetInv

(* open_decode (pull/mod.rs, pull/gate.rs): the plan and what is decoded behind it   *)
(* keep to the payload and to the budgets, in every step.                     *)
THEOREM BudgetInvariant == BudgetSpec => []BudgetInv
<1>1. BudgetInit => BudgetInv
  BY BudgetInitInv
<1>2. BudgetInv /\ [BudgetNext]_budgetVars => BudgetInv'
  BY PlanStep, DecodeStep, PlanStutters, Zenon DEF BudgetNext
<1> QED BY <1>1, <1>2, PTL DEF BudgetSpec

(* What decoding delivers was admitted by both budgets.                      *)
LEMMA BudgetIsKept ==
  ASSUME BudgetInv
  PROVE  DeliveryInBudget
<1>1. SUFFICES ASSUME stage = "decode"
               PROVE  /\ delivered <= count /\ count <= secs * AtLeast1(Least(fmt.rate, decodeRate))
                      /\ outputCap < WordMax => Planes * count * 4 <= outputCap
  BY DEF DeliveryInBudget
<1>2. PICK m \in Nat : Taken(m)
  BY <1>1 DEF BudgetInv, Decoding
<1>3. lengthKnown /\ count = Frames(Payload) /\ count <= MaxFrames /\ OutputBytes <= outputCap
  BY <1>1 DEF BudgetInv, Estimated, Admitted
<1>4. count \in Nat
  <2>1. Payload \in 0 .. WordMax
    BY <1>3, PayloadIs, CountAssumption DEF BudgetInv
  <2> QED BY <1>3, <2>1, CountIs DEF BudgetInv
<1>5. delivered <= count
  <2>1. Made(m * Unit) \in Nat /\ used = m * Unit /\ delivered = Least(count, Made(used))
    BY <1>2, MadeIsNat DEF Taken, BudgetInv
  <2>2. delivered = Least(count, Made(m * Unit))
    BY <2>1
  <2> QED BY <1>4, <2>1, <2>2 DEF Least
<1>6. ASSUME outputCap < WordMax
      PROVE  Planes * count * 4 <= outputCap
  <2>1. Planes \in Nat
    BY FormatIs DEF Planes, BudgetInv, PlanTypeOK
  <2>2. Planes * count \in Nat
    BY <1>4, <2>1, Monotone
  <2> DEFINE pc1 == Planes * count
  <2>3. /\ OutputBytes = Saturated(Saturated(pc1) * 4) /\ pc1 \in Nat
        /\ WordMax \in Nat \ {0} /\ outputCap \in Nat
    BY <2>2, CountAssumption DEF OutputBytes, BudgetInv, PlanTypeOK
  <2> HIDE DEF pc1
  <2>4. pc1 * 4 <= outputCap
    BY <1>3, <1>6, <2>3 DEF Saturated, Least
  <2> QED BY <2>4 DEF pc1
<1> QED BY <1>3, <1>5, <1>6 DEF MaxFrames

(* pull/mod.rs, "Hard upper bound on decoded audio length", "Hard cap on decoded    *)
(* planar f32 bytes": what is delivered was admitted in the output rate and with   *)
(* every plane, for every format, payload, declaration and option.           *)
THEOREM BudgetsHold == BudgetSpec => []DeliveryInBudget
<1> QED BY BudgetInvariant, BudgetIsKept, PTL

(* frame_layout (pull/gate.rs): every frame of the plan is in the payload, so no      *)
(* decoder reads past it nor past what the header declares, whatever that is.  *)
THEOREM PlanIsInTheData == BudgetSpec => []EstimateIsInTheData
<1>1. BudgetInv => EstimateIsInTheData
  <2> SUFFICES ASSUME BudgetInv
               PROVE  EstimateIsInTheData
    OBVIOUS
  <2>1. CASE stage = "decode"
    <3>1. PICK m \in Nat : Taken(m)
      BY <2>1 DEF BudgetInv, Decoding
    <3>2. used <= planned /\ planned = Payload /\ lengthKnown /\ used \in Nat
      BY <2>1, <3>1 DEF Taken, BudgetInv, Estimated, PlanTypeOK
    <3>3. /\ Payload \in Nat /\ Payload <= available /\ available \in Nat
          /\ declaredLen # None => Payload <= declaredLen /\ declaredLen \in Nat
      BY <3>2, PayloadIs, CountAssumption DEF BudgetInv, PlanTypeOK
    <3> QED BY <3>2, <3>3 DEF EstimateIsInTheData
  <2>2. CASE stage # "decode"
    <3>1. used = 0 /\ available \in Nat /\ (declaredLen # None => declaredLen \in Nat)
      BY <2>2, CountAssumption DEF BudgetInv, Decoding, PlanTypeOK
    <3> QED BY <3>1 DEF EstimateIsInTheData
  <2> QED BY <2>1, <2>2
<1> QED BY <1>1, BudgetInvariant, PTL

(* probe_with and open_decode: the frames announced are the frames planned, and      *)
(* behind them no whole unit of the payload is left, unless a smaller count was       *)
(* declared or the estimate saturates.                                       *)
THEOREM NoFrameIsLost == BudgetSpec => []NothingIsLost
<1>1. BudgetInv => NothingIsLost
  <2> SUFFICES ASSUME BudgetInv, stage = "decode"
               PROVE  /\ probed = count
                      /\ \/ declaredCount > 0 /\ count = declaredCount
                         \/ delivered < count
                         \/ planned - used < Unit
                         \/ planned * 8 > WordMax
    BY DEF NothingIsLost
  <2>1. lengthKnown /\ planned = Payload /\ count = Frames(Payload) /\ probed = Frames(Payload)
    BY DEF BudgetInv, Estimated
  <2>2. PICK m \in Nat : Taken(m)
    BY DEF BudgetInv, Decoding
  <2>3. /\ PlanTypeOK /\ planned \in 0 .. WordMax /\ planned \in Nat /\ count = Frames(planned)
        /\ WordMax \in Nat
    BY <2>1, PayloadIs, CountAssumption DEF BudgetInv
  <2>4. /\ used = m * Unit /\ used \in Nat /\ delivered = Least(count, Made(m * Unit))
        /\ TooShort => m = 0
    BY <2>2 DEF Taken, BudgetInv, PlanTypeOK
  <2>5. Made(m * Unit) \in Nat /\ count \in Nat /\ Unit \in Nat
    BY <2>3, <2>4, MadeIsNat, CountIs, UnitPositive DEF PlanTypeOK
  <2>6. ASSUME ~(declaredCount > 0 /\ count = declaredCount), ~(delivered < count),
               ~(planned * 8 > WordMax)
        PROVE  planned - used < Unit
    <3>1. Frames(planned) <= Made(m * Unit)
      BY <2>3, <2>4, <2>5, <2>6 DEF Least
    <3>2. planned * 8 <= WordMax
      BY <2>3, <2>6
    <3>3. planned < m * Unit + Unit
      BY <2>3, <2>4, <2>6, <3>1, <3>2, NoUnitIsLeft
    <3> QED BY <2>3, <2>4, <2>5, <3>3
  <2> QED BY <2>1, <2>6
<1> QED BY <1>1, BudgetInvariant, PTL
=============================================================================
