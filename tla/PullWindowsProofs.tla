------------------------- MODULE PullWindowsProofs -------------------------
(***************************************************************************)
(* Theorems about PullWindows, for windows, blocks and totals of every size.  *)
(***************************************************************************)
EXTENDS PullWindows, Sequences, TLAPS

-----------------------------------------------------------------------------
(* The inductive invariant                                                   *)

TypeOK ==
  /\ fmt \in Format /\ mode \in {"Mono", "Split"} /\ entry \in {"collect", "stream"}
  /\ total \in Totals /\ max \in Nat
  /\ pc \in {"begin", "window", "visit", "done", "failed"}
  /\ pos \in Nat /\ offset \in Nat /\ size \in Nat /\ fed \in Nat /\ decoded \in Nat
  /\ out \in [1 .. total -> Nat]

(* What a caller holds are the plan's first frames in order. *)
InOrder == \A i \in 1 .. total : out[i] = IF i <= decoded THEN i ELSE 0

(* Between two windows source, loop and decoder stand at the same input frame. *)
BetweenWindows ==
  pc \in {"begin", "window", "done"} =>
    pos = offset /\ offset <= Inputs /\ decoded = Held(offset) /\ (Framed => fed = offset)

(* A window was read and lies in the plan; a GSM window may be decoded in part. *)
InWindow ==
  pc = "visit" =>
    /\ size \in 1 .. Block /\ pos = offset + size /\ pos <= Inputs
    /\ fmt.codec # "Gsm" => decoded = Held(offset) /\ (Framed => fed = offset)
    /\ fmt.codec = "Gsm" => fed \in offset .. pos - 1 /\ decoded = Held(fed)

AllDelivered == pc = "done" => decoded = total

PullInv == TypeOK /\ InOrder /\ BetweenWindows /\ InWindow /\ AllDelivered /\ CursorIsAhead

-----------------------------------------------------------------------------
(* Arithmetic                                                                *)

LEMMA DivBounds ==
  ASSUME NEW a \in Nat, NEW d \in Nat \ {0}
  PROVE  a \div d \in Nat /\ d * (a \div d) <= a /\ a < d * (a \div d) + d
OBVIOUS

LEMMA Monotone ==
  ASSUME NEW n \in Nat, NEW m \in Nat, NEW d \in Nat, n <= m
  PROVE  n * d <= m * d /\ n * d \in Nat
OBVIOUS

LEMMA OneMore ==
  ASSUME NEW n \in Int, NEW d \in Nat
  PROVE  (n + 1) * d = n * d + d
OBVIOUS

LEMMA PlanNumbers ==
  ASSUME TypeOK
  PROVE  /\ total \in Nat /\ PerInput \in Nat \ {0} /\ FrameBytes \in Nat \ {0}
         /\ (fmt.codec = "G722" => PerInput = 2) /\ (fmt.codec = "Gsm" => PerInput = MsSamples)
         /\ (~Framed => PerInput = 1)
<1>1. total \in Nat /\ MsSamples \in Nat \ {0} /\ MsBlock \in Nat \ {0}
  BY PullAssumption DEF TypeOK
<1>2. fmt.channels \in Nat \ {0} /\ fmt.width \in Nat \ {0} /\ fmt.width * fmt.channels \in Nat \ {0}
  BY DEF TypeOK, Format
<1> QED BY <1>1, <1>2 DEF PerInput, FrameBytes, Framed

(* As many input frames as the plan's frames need, and not one more.         *)
LEMMA InputsFit ==
  ASSUME TypeOK
  PROVE  /\ Inputs \in Nat /\ total <= Inputs * PerInput
         /\ \A n \in Nat : n < Inputs => n * PerInput < total
<1> DEFINE d == PerInput
           a == total + d - 1
<1>1. d \in Nat \ {0} /\ a \in Nat /\ total \in Nat
  BY PlanNumbers
<1>2. Inputs = a \div d
  BY DEF Inputs
<1> HIDE DEF d, a
<1>3. a \div d \in Nat /\ d * (a \div d) <= a /\ a < d * (a \div d) + d
  BY <1>1, DivBounds
<1>4. a = total + d - 1
  BY DEF a
<1>5. ASSUME NEW n \in Nat, n < Inputs
      PROVE  n * d < total
  <2>1. (n + 1) * d <= Inputs * d
    BY <1>1, <1>2, <1>3, <1>5, Monotone
  <2>2. (n + 1) * d = n * d + d
    BY <1>1, OneMore
  <2> QED BY <2>1, <2>2, <1>1, <1>2, <1>3, <1>4
<1> QED BY <1>1, <1>2, <1>3, <1>4, <1>5 DEF d

LEMMA BlockFits ==
  ASSUME TypeOK
  PROVE  Block \in Nat \ {0}
<1>1. FrameBytes \in Nat \ {0} /\ Inputs \in Nat /\ BlockBytes \in Nat
  BY PlanNumbers, InputsFit, PullAssumption
<1>2. BlockBytes \div FrameBytes \in Nat
  BY <1>1, DivBounds
<1> QED BY <1>1, <1>2 DEF Block, Least, AtLeast1

LEMMA HeldFacts ==
  ASSUME TypeOK
  PROVE  /\ \A n \in Nat : Held(n) \in 0 .. total /\ (Inputs <= n => Held(n) = total)
         /\ \A n \in Nat : n < Inputs => Held(n) = n * PerInput /\ Held(n) < total
         /\ \A n, m \in Nat : n <= m => Held(n) <= Held(m)
         /\ Held(0) = 0
<1>1. PerInput \in Nat \ {0} /\ total \in Nat /\ Inputs \in Nat /\ total <= Inputs * PerInput
  BY PlanNumbers, InputsFit
<1>2. ASSUME NEW n \in Nat
      PROVE  n * PerInput \in Nat /\ (Inputs <= n => total <= n * PerInput)
  BY <1>1, Monotone
<1>3. \A n, m \in Nat : n <= m => n * PerInput <= m * PerInput
  BY <1>1, Monotone
<1>4. \A n \in Nat : n < Inputs => n * PerInput < total
  BY InputsFit
<1>5. 0 * PerInput = 0
  BY <1>1
<1>6. \A n \in Nat : n * PerInput \in Nat
  BY <1>2
<1>7. \A n \in Nat : Inputs <= n => total <= n * PerInput
  BY <1>2
<1> HIDE DEF PerInput, Inputs
<1> QED BY <1>1, <1>3, <1>4, <1>5, <1>6, <1>7 DEF Held, Least

-----------------------------------------------------------------------------
(* One lemma per action                                                      *)

LEMMA PlanStays ==
  ASSUME UNCHANGED plan
  PROVE  /\ FrameBytes' = FrameBytes /\ PerInput' = PerInput /\ Inputs' = Inputs /\ Block' = Block
         /\ Framed' = Framed /\ \A n \in Nat : Held(n)' = Held(n)
BY DEF plan, FrameBytes, PerInput, Inputs, Block, Framed, Held, Least, AtLeast1

(* CursorIsAhead from where the decoder and the source stand.                *)
LEMMA AheadFrom ==
  ASSUME TypeOK,
         NEW o \in Nat, NEW f \in Nat, NEW p \in Nat,
         o <= f, f <= p, p <= o + Block, p <= Inputs
  PROVE  Held(f) \in Held(o) .. Held(p) /\ p \in o .. Least(o + Block, Inputs)
<1>1. Held(o) <= Held(f) /\ Held(f) <= Held(p) /\ Held(f) \in Nat /\ Held(o) \in Nat /\ Held(p) \in Nat
  BY HeldFacts, PlanNumbers
<1>2. Block \in Nat /\ Inputs \in Nat
  BY BlockFits, InputsFit
<1> QED BY <1>1, <1>2 DEF Least

LEMMA InitInv ==
  ASSUME Init
  PROVE  PullInv
<1>1. TypeOK
  BY PullAssumption DEF Init, TypeOK
<1>2. Held(0) = 0 /\ Inputs \in Nat /\ Block \in Nat
  BY <1>1, HeldFacts, InputsFit, BlockFits
<1>3. InOrder
  BY PullAssumption DEF Init, InOrder
<1>4. CursorIsAhead
  BY <1>1, <1>2, AheadFrom DEF Init, CursorIsAhead
<1> QED BY <1>1, <1>2, <1>3, <1>4 DEF Init, PullInv, BetweenWindows, InWindow, AllDelivered

(* Steps that neither deliver nor read.                                      *)
LEMMA QuietStep ==
  ASSUME PullInv, Begin \/ Finish \/ CallbackFails \/ UNCHANGED vars
  PROVE  PullInv'
<1>1. UNCHANGED <<plan, pos, offset, size, fed, decoded, out>>
  BY DEF Begin, Finish, CallbackFails, vars
<1>2. TypeOK' /\ InOrder'
  BY <1>1 DEF PullInv, TypeOK, InOrder, Begin, Finish, CallbackFails, vars, plan
<1>3. Held(offset)' = Held(offset) /\ Held(pos)' = Held(pos) /\ Held(fed)' = Held(fed)
      /\ Inputs' = Inputs /\ Block' = Block /\ Framed' = Framed
  BY <1>1 DEF plan, FrameBytes, PerInput, Inputs, Block, Framed, Held, Least, AtLeast1
<1>4. CursorIsAhead'
  BY <1>1, <1>3 DEF PullInv, CursorIsAhead, Least
<1>5. InWindow'
  BY <1>1, <1>3 DEF PullInv, InWindow, Begin, Finish, CallbackFails, vars, plan
<1>6. BetweenWindows'
  BY <1>1, <1>3 DEF PullInv, BetweenWindows, Begin, Finish, CallbackFails, vars, plan
<1>7. AllDelivered'
  <2>1. CASE Finish
    <3>1. offset >= Inputs /\ decoded = Held(offset)
      BY <2>1 DEF Finish, PullInv, BetweenWindows
    <3>2. decoded = total
      BY <3>1, HeldFacts DEF PullInv, TypeOK
    <3> QED BY <3>2, <1>1 DEF AllDelivered, plan
  <2>2. CASE UNCHANGED vars
    BY <2>2 DEF PullInv, AllDelivered, vars, plan
  <2>3. CASE Begin \/ CallbackFails
    BY <2>3 DEF AllDelivered, Begin, CallbackFails
  <2> QED BY <2>1, <2>2, <2>3
<1> QED BY <1>2, <1>4, <1>5, <1>6, <1>7 DEF PullInv

LEMMA ReadStep ==
  ASSUME PullInv, ReadWindow \/ ReadFails
  PROVE  PullInv'
<1>1. /\ UNCHANGED <<plan, offset, fed, decoded, out>> /\ pc = "window" /\ offset < Inputs
      /\ offset \in Nat /\ pos = offset /\ size \in Nat /\ Inputs \in Nat /\ Block \in Nat \ {0}
      /\ decoded = Held(offset) /\ (Framed => fed = offset) /\ fed \in Nat
  BY InputsFit, BlockFits DEF ReadWindow, ReadFails, PullInv, TypeOK, BetweenWindows
<1>2. Least(Inputs - offset, Block) \in 1 .. Block /\ Least(Inputs - offset, Block) <= Inputs - offset
  BY <1>1 DEF Least
<1>3. /\ pos' \in Nat /\ size' \in Nat /\ pos' \in offset .. Inputs /\ pos' <= offset + Block
      /\ pc' \in {"visit", "failed"}
  BY <1>1, <1>2 DEF ReadWindow, ReadFails
<1>9. pc' = "visit" => size' \in 1 .. Block /\ pos' = offset + size' /\ pos' <= Inputs
  BY <1>1, <1>2 DEF ReadWindow, ReadFails
<1>4. TypeOK' /\ InOrder'
  BY <1>1, <1>3 DEF PullInv, TypeOK, InOrder, plan
<1>5. /\ Inputs' = Inputs /\ Block' = Block /\ Framed' = Framed
      /\ \A n \in Nat : Held(n)' = Held(n)
  BY <1>1, PlanStays
<1>6. Held(offset)' = Held(offset) /\ Held(pos)' = Held(pos') /\ Held(fed)' = Held(fed)
  BY <1>1 DEF plan, PerInput, Held, Least
<1>7. CursorIsAhead'
  <2>1. Held(offset) \in Held(offset) .. Held(pos') /\ pos' \in offset .. Least(offset + Block, Inputs)
    BY <1>1, <1>3, AheadFrom DEF PullInv
  <2>2. Least(offset + Block, Inputs)' = Least(offset + Block, Inputs)
    BY <1>1, <1>5 DEF Least
  <2>3. decoded' = Held(offset)
    BY <1>1
  <2>4. Held(offset)' = Held(offset) /\ Held(pos)' = Held(pos') /\ offset' = offset
    BY <1>1, <1>6
  <2> QED BY <2>1, <2>2, <2>3, <2>4 DEF CursorIsAhead
<1>8. InWindow'
  <2>1. fmt' = fmt
    BY <1>1 DEF plan
  <2>2. fmt.codec = "Gsm" => fed = offset
    BY <1>1 DEF Framed
  <2>6. offset' = offset /\ fed' = fed /\ offset \in Nat
    BY <1>1
  <2>7. Block' = Block /\ Inputs' = Inputs /\ Inputs \in Nat /\ Block \in Nat
    BY <1>1, <1>5
  <2>3. pc' = "visit" => size' \in 1 .. Block' /\ pos' = offset' + size' /\ pos' <= Inputs'
    BY <1>9, <2>6, <2>7
  <2>9. pc' = "visit" /\ fmt'.codec = "Gsm" => fed' \in offset' .. pos' - 1
    BY <1>9, <2>1, <2>2, <2>6, <2>7
  <2>4. decoded' = Held(offset)' /\ (Framed => fed = offset)'
    BY <1>1, <1>5, <1>6
  <2>5. fmt'.codec = "Gsm" => decoded' = Held(fed)'
    BY <1>1, <1>6, <2>1, <2>2
  <2> QED BY <2>3, <2>4, <2>5, <2>9 DEF InWindow
<1> QED BY <1>3, <1>4, <1>7, <1>8 DEF PullInv, BetweenWindows, AllDelivered

(* Frames put behind those delivered, numbered on from them.                 *)
LEMMA PutInOrder ==
  ASSUME PullInv, UNCHANGED plan,
         NEW n \in Nat, decoded + n <= total, Put(decoded, n, decoded)
  PROVE  InOrder' /\ out' \in [1 .. total -> Nat] /\ decoded' = decoded + n /\ decoded' \in Nat
<1>1. /\ total \in Nat /\ decoded \in Nat /\ total' = total /\ decoded' = decoded + n
      /\ out \in [1 .. total -> Nat] /\ \A i \in 1 .. total : out[i] = IF i <= decoded THEN i ELSE 0
  BY PlanNumbers DEF PullInv, TypeOK, InOrder, Put, plan
<1>2. ASSUME NEW i \in 1 .. total
      PROVE  (IF i \in decoded + 1 .. decoded + n THEN decoded + i - decoded ELSE out[i])
               = IF i <= decoded + n THEN i ELSE 0
  BY <1>1
<1>3. out' = [i \in 1 .. total |-> IF i <= decoded + n THEN i ELSE 0]
  BY <1>2 DEF Put
<1> QED BY <1>1, <1>3 DEF InOrder

(* The end of a window, whatever the codec.                                  *)
LEMMA VisitEnds ==
  ASSUME PullInv, pc = "visit", pc' = "window", UNCHANGED <<plan, pos, size>>,
         offset' = pos, decoded' = Held(pos), fed' \in Nat, Framed => fed' = pos,
         InOrder', out' \in [1 .. total -> Nat]
  PROVE  PullInv'
<1>1. pos \in Nat /\ size \in Nat /\ pos <= Inputs /\ Inputs \in Nat /\ Block \in Nat /\ Held(pos) \in Nat
  <2>1. TypeOK /\ pos \in Nat /\ size \in Nat /\ pos <= Inputs
    BY DEF PullInv, TypeOK, InWindow
  <2>2. Held(pos) \in 0 .. total /\ total \in Nat
    BY <2>1, HeldFacts, PlanNumbers
  <2> QED BY <2>1, <2>2, InputsFit, BlockFits
<1>2. TypeOK'
  BY <1>1 DEF PullInv, TypeOK, plan
<1>3. Inputs' = Inputs /\ Block' = Block /\ Framed' = Framed
  BY PlanStays
<1>4. Held(offset)' = Held(pos) /\ Held(pos)' = Held(pos)
  BY DEF plan, PerInput, Held, Least
<1>5. BetweenWindows'
  BY <1>1, <1>3, <1>4 DEF BetweenWindows
<1>6. CursorIsAhead'
  <2>1. Held(pos) \in Held(pos) .. Held(pos) /\ pos \in pos .. Least(pos + Block, Inputs)
    BY <1>1, AheadFrom DEF PullInv
  <2>2. Least(offset + Block, Inputs)' = Least(pos + Block, Inputs)
    BY <1>3 DEF Least
  <2> QED BY <2>1, <2>2, <1>4 DEF CursorIsAhead
<1> QED BY <1>2, <1>5, <1>6 DEF PullInv, InWindow, AllDelivered

LEMMA VisitPcmStep ==
  ASSUME PullInv, VisitPcm
  PROVE  PullInv'
<1>1. /\ pc = "visit" /\ ~Framed /\ Put(PlacedAt, size, pos - size) /\ offset' = offset + size
      /\ pc' = "window" /\ UNCHANGED <<plan, pos, size, fed>> /\ UNCHANGED plan
  BY DEF VisitPcm, EndVisit
<1>2. /\ size \in Nat /\ size >= 1 /\ pos = offset + size /\ pos <= Inputs /\ decoded = Held(offset)
      /\ offset \in Nat /\ pos \in Nat /\ Inputs \in Nat /\ total \in Nat /\ PerInput = 1 /\ fed \in Nat
  BY <1>1, InputsFit, BlockFits, PlanNumbers DEF PullInv, TypeOK, InWindow, Framed
<1>3. Held(offset) = offset /\ pos <= total
  <2>1. offset < Inputs /\ offset * PerInput = offset
    BY <1>2
  <2>2. pos - 1 \in Nat /\ pos - 1 < Inputs /\ (pos - 1) * PerInput = pos - 1
    BY <1>2
  <2>3. (pos - 1) * PerInput < total
    BY <2>2, InputsFit DEF PullInv
  <2>4. Held(offset) = offset * PerInput
    BY <1>2, <2>1, HeldFacts DEF PullInv
  <2> QED BY <1>2, <2>1, <2>2, <2>3, <2>4
<1>4. Held(pos) = pos
  BY <1>2, <1>3 DEF Held, Least
<1>5. PlacedAt = decoded /\ pos - size = decoded /\ decoded + size = pos
  BY <1>2, <1>3 DEF PlacedAt
<1>6. Put(decoded, size, decoded)
  BY <1>1, <1>5 DEF Put
<1>7. InOrder' /\ out' \in [1 .. total -> Nat] /\ decoded' = pos
  BY <1>1, <1>2, <1>3, <1>5, <1>6, PutInOrder
<1> QED BY <1>1, <1>2, <1>4, <1>7, VisitEnds

LEMMA VisitG722Step ==
  ASSUME PullInv, VisitG722
  PROVE  PullInv'
<1>1. /\ pc = "visit" /\ fmt.codec = "G722" /\ Put(G722At, G722Count, fed * 2) /\ fed' = fed + size
      /\ offset' = offset + size /\ pc' = "window" /\ UNCHANGED <<plan, pos, size>> /\ UNCHANGED plan
  BY DEF VisitG722, EndVisit
<1>2. /\ size \in Nat /\ size >= 1 /\ pos = offset + size /\ pos <= Inputs /\ decoded = Held(offset)
      /\ fed = offset /\ offset \in Nat /\ pos \in Nat /\ Inputs \in Nat /\ total \in Nat /\ PerInput = 2
  BY <1>1, InputsFit, BlockFits, PlanNumbers DEF PullInv, TypeOK, InWindow, Framed
<1>3. Held(offset) = offset * 2
  BY <1>2, HeldFacts DEF PullInv
<1>4. Held(pos) = Least(pos * 2, total) /\ Held(offset) <= Held(pos) /\ Held(pos) \in Nat /\ Held(pos) <= total
  <2>1. Held(pos) = Least(pos * 2, total)
    BY <1>2 DEF Held
  <2> QED BY <2>1, <1>2, HeldFacts DEF PullInv
<1>5. G722Count = Held(pos) - decoded
  BY <1>2, <1>3, <1>4 DEF G722Count, Least
<1>6. G722At = decoded /\ fed * 2 = decoded
  BY <1>2, <1>3 DEF G722At
<1>7. G722Count \in Nat /\ decoded + G722Count = Held(pos) /\ decoded \in Nat
  BY <1>2, <1>3, <1>4, <1>5
<1>8. Put(decoded, G722Count, decoded)
  BY <1>1, <1>6 DEF Put
<1>9. InOrder' /\ out' \in [1 .. total -> Nat] /\ decoded' = Held(pos)
  BY <1>1, <1>4, <1>7, <1>8, PutInOrder
<1> QED BY <1>1, <1>2, <1>9, VisitEnds

LEMMA VisitGsmStep ==
  ASSUME PullInv, VisitGsm
  PROVE  PullInv'
<1> DEFINE n == Least(MsSamples, total - decoded)
<1>1. /\ pc = "visit" /\ fmt.codec = "Gsm" /\ Put(decoded, n, GsmFrom) /\ fed' = fed + 1
      /\ UNCHANGED <<plan, pos, size>> /\ UNCHANGED plan
      /\ \/ (fed' = offset + size \/ decoded' >= total) /\ offset' = offset + size /\ pc' = "window"
         \/ fed' # offset + size /\ offset' = offset /\ pc' = pc
  BY DEF VisitGsm, EndVisit
<1>2. /\ size \in Nat /\ pos = offset + size /\ pos <= Inputs /\ decoded = Held(fed)
      /\ fed \in offset .. pos - 1 /\ fed \in Nat /\ offset \in Nat /\ pos \in Nat /\ pos <= offset + Block
      /\ Inputs \in Nat /\ Block \in Nat /\ total \in Nat /\ MsSamples \in Nat /\ PerInput = MsSamples
      /\ Framed
  <2>1. TypeOK /\ InWindow
    BY DEF PullInv
  <2>2. size \in Nat /\ fed \in Nat /\ offset \in Nat /\ pos \in Nat
    BY <2>1 DEF TypeOK
  <2>3. Inputs \in Nat /\ Block \in Nat /\ total \in Nat
    BY <2>1, InputsFit, BlockFits, PlanNumbers
  <2>4. MsSamples \in Nat /\ Framed /\ PerInput = MsSamples
    BY <1>1, PullAssumption DEF PerInput, Framed
  <2>5. pos = offset + size /\ decoded = Held(fed) /\ fed \in offset .. pos - 1
    BY <1>1, <2>1, <2>4 DEF InWindow
  <2>6. pos <= Inputs /\ pos <= offset + Block
    <3>1. size \in 1 .. Block /\ pos <= Inputs
      BY <1>1, <2>1 DEF InWindow
    <3> QED BY <3>1, <2>2, <2>3, <2>5
  <2> QED BY <2>2, <2>3, <2>4, <2>5, <2>6
<1>3. decoded = fed * MsSamples /\ decoded < total /\ decoded \in Nat
  <2>1. fed < Inputs
    BY <1>2
  <2> QED BY <2>1, <1>2, HeldFacts, Monotone DEF PullInv
<1>4. n \in Nat /\ decoded + n <= total
  BY <1>2, <1>3 DEF Least
<1>5. decoded + n = Held(fed + 1)
  <2>1. (fed + 1) * MsSamples = decoded + MsSamples
    BY <1>2, <1>3, OneMore
  <2>2. Held(fed + 1) = Least((fed + 1) * MsSamples, total)
    BY <1>2 DEF Held
  <2> QED BY <2>1, <2>2, <1>2, <1>3 DEF Least
<1>6. GsmFrom = decoded
  BY <1>3 DEF GsmFrom
<1>7. Put(decoded, n, decoded)
  BY <1>1, <1>6 DEF Put
<1> HIDE DEF n
<1>8. InOrder' /\ out' \in [1 .. total -> Nat] /\ decoded' = Held(fed + 1) /\ decoded' \in Nat
  BY <1>1, <1>4, <1>5, <1>7, PutInOrder
<1>9. CASE (fed' = offset + size \/ decoded' >= total) /\ offset' = offset + size /\ pc' = "window"
  <2>1. fed + 1 = pos
    <3>1. CASE fed' = offset + size
      BY <3>1, <1>1, <1>2
    <3>2. CASE decoded' >= total
      <4>1. ~(fed + 1 < Inputs)
        BY <3>2, <1>2, <1>8, HeldFacts DEF PullInv
      <4> QED BY <4>1, <1>2
    <3> QED BY <3>1, <3>2, <1>9
  <2>2. offset' = pos /\ fed' = pos /\ decoded' = Held(pos)
    BY <2>1, <1>1, <1>2, <1>8, <1>9
  <2> QED BY <2>2, <1>1, <1>2, <1>8, <1>9, VisitEnds
<1>10. CASE fed' # offset + size /\ offset' = offset /\ pc' = pc
  <2>1. fed + 1 <= pos - 1 /\ offset <= fed + 1 /\ fed + 1 <= pos
    BY <1>1, <1>2, <1>10
  <2>2. TypeOK'
    BY <1>1, <1>2, <1>8, <1>10 DEF PullInv, TypeOK, plan
  <2>3. Inputs' = Inputs /\ Block' = Block /\ fmt' = fmt
    BY <1>1, PlanStays DEF plan
  <2>4. Held(offset)' = Held(offset) /\ Held(pos)' = Held(pos) /\ Held(fed)' = Held(fed + 1)
    BY <1>1, <1>10 DEF plan, PerInput, Held, Least
  <2>5. InWindow'
    <3>1. size \in 1 .. Block
      BY <1>1 DEF PullInv, InWindow
    <3>2. fed' \in offset' .. pos' - 1
      BY <2>1, <1>1, <1>2, <1>10
    <3> QED BY <3>1, <3>2, <2>3, <2>4, <1>1, <1>2, <1>8, <1>10 DEF InWindow
  <2>6. CursorIsAhead'
    <3>1. Held(fed + 1) \in Held(offset) .. Held(pos) /\ pos \in offset .. Least(offset + Block, Inputs)
      BY <2>1, <1>2, AheadFrom DEF PullInv
    <3>2. Least(offset + Block, Inputs)' = Least(offset + Block, Inputs)
      BY <2>3, <1>10 DEF Least
    <3>3. decoded' = Held(fed + 1) /\ pos' = pos /\ offset' = offset
      BY <1>1, <1>8, <1>10
    <3> QED BY <3>1, <3>2, <3>3, <2>4 DEF CursorIsAhead
  <2> QED BY <2>2, <2>5, <2>6, <1>1, <1>8, <1>10 DEF PullInv, BetweenWindows, AllDelivered
<1> QED BY <1>1, <1>9, <1>10

-----------------------------------------------------------------------------
(* The theorems                                                              *)

(* A plan, its windows and what was delivered agree at every step: the        *)
(* inductive invariant of for_each_input and the loops over it.              *)
THEOREM PullInvariant == Spec => []PullInv
<1>1. Init => PullInv
  BY InitInv
<1>2. PullInv /\ [Next]_vars => PullInv'
  <2> SUFFICES ASSUME PullInv, [Next]_vars
               PROVE  PullInv'
    OBVIOUS
  <2>1. ASSUME Begin \/ Finish \/ CallbackFails \/ UNCHANGED vars
        PROVE  PullInv'
    BY <2>1, QuietStep
  <2>2. ASSUME ReadWindow \/ ReadFails
        PROVE  PullInv'
    BY <2>2, ReadStep
  <2>3. ASSUME VisitPcm
        PROVE  PullInv'
    BY <2>3, VisitPcmStep
  <2>4. ASSUME VisitG722
        PROVE  PullInv'
    BY <2>4, VisitG722Step
  <2>5. ASSUME VisitGsm
        PROVE  PullInv'
    BY <2>5, VisitGsmStep
  <2> QED BY <2>1, <2>2, <2>3, <2>4, <2>5 DEF Next
<1> QED BY <1>1, <1>2, PTL DEF Spec

(* A stream's cursor is never behind what the caller has, at most one window  *)
(* ahead of it and never past the plan's data: pull/input.rs for_each_input.  *)
THEOREM CursorStaysAhead == Spec => []CursorIsAhead
<1>1. PullInv => CursorIsAhead
  BY DEF PullInv
<1> QED BY <1>1, PullInvariant, PTL

(* Whatever the plan, pull_decode and decode_collect choose a routine that     *)
(* reads its samples as they are stored.                                     *)
THEOREM RouteIsRight == Spec => []RouteReadsFormat
<1>1. PullInv => RouteReadsFormat
  <2> SUFFICES ASSUME fmt \in Format, mode \in {"Mono", "Split"}
               PROVE  RouteReadsFormat
    BY DEF PullInv, TypeOK
  <2>1. /\ fmt.codec \in Codecs /\ fmt.be \in BOOLEAN
    BY DEF Format
  <2>2. OwnChannels \in {"split", "only", "mix"} /\ (OwnChannels = "mix" => mode = "Mono")
        /\ (mode = "Split" => OwnChannels = "split")
        /\ (mode = "Mono" /\ fmt.channels = 1 => OwnChannels = "only")
        /\ (mode = "Mono" /\ fmt.channels # 1 => OwnChannels = "mix")
    BY DEF OwnChannels
  <2> DEFINE Fits(r) == /\ r.codec = fmt.codec /\ r.width = fmt.width /\ r.be = fmt.be
                        /\ r.channels = OwnChannels \/ (r.channels = "mix" /\ mode = "Mono")
  <2>3. Fits(PullGeneric)
    BY DEF PullGeneric, Reads
  <2>4. Fits(PullRoutine)
    BY <2>1, <2>2, <2>3 DEF PullRoutine, PullGeneric, Reads, Is, Framed
  <2>5. CollectsMono => Fits(CollectMono)
    BY <2>1, <2>2 DEF CollectsMono, CollectMono, Reads, Is, IsG711
  <2>6. FillsSplit => Fits(FillSplit)
    BY <2>1, <2>2 DEF FillsSplit, FillSplit, Reads, Is, IsG711
  <2>7. Fits(Routine)
    BY <2>4, <2>5, <2>6 DEF Routine
  <2> QED BY <2>7 DEF RouteReadsFormat
<1> QED BY <1>1, PullInvariant, PTL

(* What the contract sees of a state.                                        *)
Heard == [i \in 1 .. decoded |-> out[i]]
Count == IF pc = "done" THEN Returned ELSE 0
contractVars == <<total, Heard, Outcome, Count>>

HeardIsPrefix ==
  /\ decoded \in Nat /\ total \in Nat /\ decoded <= total
  /\ Heard = Contract!FirstFrames(decoded) /\ Len(Heard) = decoded

LEMMA PrefixHeard ==
  ASSUME PullInv
  PROVE  HeardIsPrefix
<1>1. decoded \in Nat /\ total \in Nat /\ decoded <= total
  <2>1. offset \in Nat /\ pos \in Nat /\ decoded \in Nat /\ decoded \in Held(offset) .. Held(pos) /\ TypeOK
    BY DEF PullInv, TypeOK, CursorIsAhead
  <2>2. Held(pos) \in 0 .. total /\ Held(offset) \in 0 .. total /\ total \in Nat
    BY <2>1, HeldFacts, PlanNumbers
  <2> QED BY <2>1, <2>2
<1>2. Heard = [i \in 1 .. decoded |-> i]
  BY <1>1 DEF PullInv, InOrder, Heard
<1>3. Len([i \in 1 .. decoded |-> i]) = decoded
  BY <1>1
<1> QED BY <1>1, <1>2, <1>3 DEF HeardIsPrefix, Contract!FirstFrames

(* A step that leaves the outcome running delivers the next frames or none.    *)
LEMMA DeliversOn ==
  ASSUME HeardIsPrefix, HeardIsPrefix', total' = total, decoded <= decoded',
         Outcome = "running", Outcome' = "running", Count' = Count
  PROVE  Contract!Deliver \/ UNCHANGED contractVars
<1>1. CASE decoded' = decoded
  BY <1>1 DEF HeardIsPrefix, contractVars, Heard, Count, Contract!FirstFrames
<1>2. CASE decoded' # decoded
  <2>1. decoded' \in decoded + 1 .. total
    BY <1>2 DEF HeardIsPrefix
  <2>2. Heard' = Contract!FirstFrames(decoded') /\ Len(Heard) = decoded
    BY DEF HeardIsPrefix, Contract!FirstFrames
  <2> QED BY <2>1, <2>2 DEF Contract!Deliver, Heard, Count
<1> QED BY <1>1, <1>2

LEMMA NeverTakenBack ==
  ASSUME PullInv, PullInv', VisitPcm \/ VisitG722 \/ VisitGsm
  PROVE  decoded <= decoded'
<1>1. TypeOK /\ decoded \in Nat /\ size \in Nat /\ offset \in Nat
  BY DEF PullInv, TypeOK
<1>2. ASSUME VisitPcm
      PROVE  decoded <= decoded'
  BY <1>1, <1>2 DEF VisitPcm, Put
<1>3. ASSUME VisitG722
      PROVE  decoded <= decoded'
  <2>1. /\ offset' = offset + size /\ pc' = "window" /\ UNCHANGED plan
        /\ pc = "visit" /\ fmt.codec = "G722"
    BY <1>3 DEF VisitG722, EndVisit
  <2>2. decoded = Held(offset) /\ decoded' = Held(offset)'
    BY <2>1 DEF PullInv, InWindow, BetweenWindows
  <2>3. Held(offset)' = Held(offset + size)
    BY <2>1 DEF plan, PerInput, Held, Least
  <2>4. offset <= offset + size /\ offset + size \in Nat
    BY <1>1
  <2>5. Held(offset) <= Held(offset + size)
    BY <1>1, <2>4, HeldFacts
  <2> QED BY <2>2, <2>3, <2>5
<1>4. ASSUME VisitGsm
      PROVE  decoded <= decoded'
  BY <1>1, <1>4, PrefixHeard, PullAssumption DEF VisitGsm, Put, Least, HeardIsPrefix
<1> QED BY <1>2, <1>3, <1>4

(* The twelve loops deliver what decode_streaming promises.                  *)
THEOREM DeliversThePlan == Spec => ImplementsDelivery
<1>1. PullInv => HeardIsPrefix
  BY PrefixHeard
<1>2. Init => Contract!Init
  <2> SUFFICES ASSUME Init
               PROVE  Contract!Init
    OBVIOUS
  <2>1. Heard = <<>>
    BY DEF Init, Heard
  <2> QED BY <2>1 DEF Init, Contract!Init, Outcome, Heard
<1>3. PullInv /\ PullInv' /\ HeardIsPrefix /\ HeardIsPrefix' /\ [Next]_vars => [Contract!Next]_(Contract!vars)
  <2> SUFFICES ASSUME PullInv, PullInv', HeardIsPrefix, HeardIsPrefix', [Next]_vars
               PROVE  Contract!Next \/ UNCHANGED contractVars
    BY DEF contractVars, Contract!vars, Heard, Count
  <2>1. ASSUME VisitPcm \/ VisitG722 \/ VisitGsm
        PROVE  Contract!Deliver \/ UNCHANGED contractVars
    <3>1. total' = total /\ pc = "visit" /\ pc' \in {"visit", "window"}
      BY <2>1 DEF VisitPcm, VisitG722, VisitGsm, EndVisit, plan
    <3>2. Outcome = "running" /\ Outcome' = "running" /\ Count' = Count
      BY <3>1 DEF Outcome, Count
    <3> QED BY <2>1, <3>1, <3>2, DeliversOn, NeverTakenBack
  <2>2. ASSUME ReadWindow \/ (Begin /\ pc' = "window")
        PROVE  UNCHANGED contractVars
    BY <2>2 DEF ReadWindow, Begin, Outcome, Count, Heard, contractVars, plan
  <2>3. ASSUME ReadFails \/ CallbackFails \/ (Begin /\ pc' = "failed")
        PROVE  Contract!GiveUp
    BY <2>3 DEF ReadFails, CallbackFails, Begin, Outcome, Contract!GiveUp, plan
  <2>4. ASSUME Finish
        PROVE  Contract!Finish
    <3>1. decoded' = total' /\ UNCHANGED <<plan, decoded, out>> /\ pc = "window" /\ pc' = "done"
      BY <2>4 DEF Finish, PullInv, AllDelivered
    <3>2. total' = total /\ decoded = total /\ Heard' = Heard /\ Len(Heard) = total
      BY <3>1 DEF plan, Heard, HeardIsPrefix
    <3>3. Returned' = total
      BY <3>1, <3>2 DEF Returned
    <3> QED BY <3>1, <3>2, <3>3 DEF Contract!Finish, Outcome, Heard
  <2>5. ASSUME UNCHANGED vars
        PROVE  UNCHANGED contractVars
    BY <2>5 DEF vars, plan, contractVars, Outcome, Count, Heard, Returned, Framed
  <2>6. Begin => pc' \in {"window", "failed"}
    BY DEF Begin
  <2> QED BY <2>1, <2>2, <2>3, <2>4, <2>5, <2>6 DEF Next, Contract!Next
<1> QED BY <1>1, <1>2, <1>3, PullInvariant, PTL DEF Spec, ImplementsDelivery, Contract!Spec
=============================================================================
