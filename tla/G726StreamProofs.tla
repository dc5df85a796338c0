------------------------- MODULE G726StreamProofs -------------------------
(***************************************************************************)
(* Theorems about G726Stream, for payloads, windows and buffers of every       *)
(* length.                                                                   *)
(***************************************************************************)
EXTENDS G726Stream, TLAPS

TypeOK ==
  /\ driver \in {"windows", "slice", "caller"} /\ bits \in 2 .. 5
  /\ Len(data) \in Nat /\ total \in Nat \cup {None}
  /\ pc \in {"idle", "begin", "loop", "push", "returned", "done", "failed"}
  /\ pos \in Nat /\ nbits \in Nat /\ base \in Nat /\ last \in Nat
  /\ cap \in Nat /\ made \in Nat /\ produced \in Nat
  /\ \E S : codes \in Seq(S)

(* Every bit of the bytes consumed is in a codeword made or is pending, and        *)
(* "State is at most 7 unused bits" (g726/decode.rs) whenever push is not running.  *)
BitsAccounted ==
  /\ 8 * (pos - base) = Len(codes) * bits + nbits
  /\ driver # "caller" => base = 0
  /\ pc # "push" => nbits <= 7
  /\ pc = "push" => nbits <= bits + 7 /\ (nbits <= 7 \/ made < cap)

Control ==
  /\ pc = "idle" => driver = "caller"
  /\ pc \in {"begin", "loop", "returned"} => driver # "caller"

(* The loops: the bits of the plan's frames are in the data, what was pushed     *)
(* holds a codeword more than was delivered and, in a window, no whole byte more    *)
(* than the samples asked for.                                               *)
Looping ==
  /\ driver = "windows" \/ pc = "loop" => total \in Nat /\ total * bits <= 8 * Len(data)
  /\ pc = "begin" => produced = 0 /\ Len(codes) = 0
  /\ pc = "loop" => produced = Len(codes) /\ produced <= total
  /\ driver # "caller" /\ pc \in {"push", "returned"} =>
       /\ total \in Nat /\ total * bits <= 8 * Len(data)
       /\ produced + made = Len(codes) /\ made <= cap /\ cap >= 1 /\ produced + cap <= total
       /\ pos <= last /\ (produced + 1) * bits <= 8 * last
       /\ driver = "windows" => 8 * last < (produced + cap) * bits + 8 \/ pos = last
  /\ pc = "returned" => ~Refused

WindowsEnd ==
  driver = "windows" =>
    error # "Eof" /\ (pc = "done" => pos = CeilDiv(total * bits, 8))

StreamInv == TypeOK /\ BitsAccounted /\ Control /\ Looping /\ WindowsEnd

-----------------------------------------------------------------------------
(* Arithmetic                                                                *)

LEMMA Grows ==
  ASSUME NEW S, NEW s \in Seq(S), NEW e
  PROVE  Append(s, e) \in Seq(S \cup {e}) /\ Len(Append(s, e)) = Len(s) + 1 /\ Len(s) \in Nat
<1>1. s \in Seq(S \cup {e})
  OBVIOUS
<1> QED BY <1>1

LEMMA Monotone ==
  ASSUME NEW n \in Nat, NEW m \in Nat, NEW d \in Nat, n <= m
  PROVE  n * d <= m * d /\ n * d \in Nat
OBVIOUS

LEMMA Sums ==
  ASSUME NEW n \in Nat, NEW m \in Nat, NEW d \in Nat
  PROVE  (n + m) * d = n * d + m * d /\ (n + 1) * d = n * d + d
OBVIOUS

(* Fewer bits, fewer codewords.                                              *)
LEMMA FewerBits ==
  ASSUME NEW n \in Nat, NEW m \in Nat, NEW d \in Nat, n * d < m * d
  PROVE  n < m
<1> SUFFICES ASSUME m <= n
             PROVE  m * d <= n * d
  <2>1. n * d \in Nat /\ m * d \in Nat
    BY Monotone
  <2> QED BY <2>1
<1> QED BY Monotone

LEMMA WholeCodewords ==
  ASSUME bits \in 2 .. 5, Len(data) \in Nat
  PROVE  Complete \in Nat /\ Complete * bits <= 8 * Len(data)
<1>1. CASE bits = 2
  BY <1>1 DEF Complete
<1>2. CASE bits = 3
  BY <1>2 DEF Complete
<1>3. CASE bits = 4
  BY <1>3 DEF Complete
<1>4. CASE bits = 5
  BY <1>4 DEF Complete
<1> QED BY <1>1, <1>2, <1>3, <1>4

(* A window of at least one sample: `bits` of scratch hold three or more.      *)
LEMMA WindowPositive ==
  ASSUME bits \in 2 .. 5, total \in Nat, produced \in Nat, produced < total
  PROVE  Window \in Nat \ {0} /\ produced + Window <= total
<1>1. Scratch \in Nat \ {0}
  BY G726Assumption
<1>2. SamplesCap \in Nat \ {0}
  <2>1. CASE bits = 2
    BY <1>1, <2>1 DEF SamplesCap
  <2>2. CASE bits = 3
    BY <1>1, <2>2 DEF SamplesCap
  <2>3. CASE bits = 4
    BY <1>1, <2>3 DEF SamplesCap
  <2>4. CASE bits = 5
    BY <1>1, <2>4 DEF SamplesCap
  <2> QED BY <2>1, <2>2, <2>3, <2>4
<1> QED BY <1>2 DEF Window, Least

(* The bytes of a window: they are in the data, hold a codeword, and no whole byte  *)
(* more than the samples asked for.                                          *)
LEMMA BytesSuffice ==
  ASSUME bits \in 2 .. 5, produced \in Nat, NEW w \in Nat \ {0}, total \in Nat, produced + w <= total,
         nbits \in 0 .. 7, pos \in Nat, 8 * pos = produced * bits + nbits,
         Len(data) \in Nat, total * bits <= 8 * Len(data)
  PROVE  /\ BytesNeeded(w) \in Nat /\ pos + BytesNeeded(w) <= Len(data)
         /\ (produced + 1) * bits <= 8 * (pos + BytesNeeded(w))
         /\ 8 * (pos + BytesNeeded(w)) < (produced + w) * bits + 8 \/ BytesNeeded(w) = 0
<1> DEFINE pb == produced * bits
           wb == w * bits
           tb == total * bits
           missing == IF wb > nbits THEN wb - nbits ELSE 0
           need == BytesNeeded(w)
<1>0. Scratch \in Nat \ {0} /\ need = Least(CeilDiv(missing, 8), Scratch)
  BY G726Assumption DEF BytesNeeded
<1>1. pb \in Nat /\ wb \in Nat /\ tb \in Nat /\ wb >= bits
  <2>1. 1 * bits <= w * bits /\ w * bits \in Nat
    BY Monotone
  <2> QED BY <2>1, Monotone
<1>2. (produced + w) * bits = pb + wb /\ (produced + 1) * bits = pb + bits /\ pb + wb <= tb
  <2>1. (produced + w) * bits = pb + wb /\ (produced + 1) * bits = pb + bits
    BY Sums
  <2>2. (produced + w) * bits <= tb
    BY Monotone
  <2> QED BY <2>1, <2>2
<1>3. 8 * pos = pb + nbits /\ tb <= 8 * Len(data)
  OBVIOUS
<1> HIDE DEF pb, wb, tb
<1>4. missing \in Nat /\ missing + nbits >= wb /\ (missing > 0 => missing + nbits = wb)
  BY <1>1
<1> HIDE DEF missing
<1>5. need \in Nat /\ 8 * need <= missing + 7 /\ (8 * need >= missing \/ need >= 1)
  BY <1>0, <1>4 DEF Least, CeilDiv
<1> HIDE DEF need
<1>6. 8 * (pos + need) < pb + wb + 8 \/ need = 0
  <2>1. CASE missing > 0
    BY <2>1, <1>1, <1>3, <1>4, <1>5
  <2>2. CASE missing = 0
    BY <2>2, <1>5
  <2> QED BY <2>1, <2>2, <1>4
<1>7. pb + bits <= 8 * (pos + need)
  BY <1>1, <1>3, <1>4, <1>5
<1>8. pos + need <= Len(data)
  BY <1>1, <1>2, <1>3, <1>5, <1>6
<1> QED BY <1>2, <1>5, <1>6, <1>7, <1>8 DEF need

-----------------------------------------------------------------------------
(* The steps                                                                 *)

LEMMA InitInv ==
  ASSUME Init
  PROVE  StreamInv
<1>1. data \in Seq(0 .. 255) /\ bits \in 2 .. 5 /\ driver \in {"windows", "slice", "caller"}
  BY G726Assumption DEF Init
<1>2. Len(data) \in Nat
  BY <1>1
<1>3. Complete \in Nat /\ Complete * bits <= 8 * Len(data)
  BY <1>1, <1>2, WholeCodewords
<1>4. total \in Nat \cup {None} /\ (driver = "windows" => total \in 0 .. Complete)
  <2>1. \/ driver = "windows" /\ total \in 0 .. Complete
        \/ driver = "slice" /\ total \in 0 .. Complete + 1 \cup {None}
        \/ driver = "caller" /\ total = 0
    BY DEF Init
  <2>2. total \in 0 .. Complete => total \in Nat
    BY <1>3
  <2>3. total \in 0 .. Complete + 1 \cup {None} => total \in Nat \cup {None}
    BY <1>3
  <2> QED BY <2>1, <2>2, <2>3
<1>5. /\ pos = 0 /\ nbits = 0 /\ base = 0 /\ last = 0 /\ cap = 0 /\ made = 0
      /\ produced = 0 /\ error # "Eof" /\ pc = IF driver = "caller" THEN "idle" ELSE "begin"
  BY Zenon DEF Init
<1>0. Len(codes) = 0 /\ codes \in Seq(Int)
  <2>1. codes = <<>>
    BY DEF Init
  <2>2. Len(<<>>) = 0 /\ <<>> \in Seq(Int)
    OBVIOUS
  <2> QED BY <2>1, <2>2
<1>6. TypeOK
  <2>1. pc \in {"idle", "begin"}
    BY <1>5
  <2>2. \E S : codes \in Seq(S)
    BY <1>0, Zenon
  <2> QED BY <1>1, <1>2, <1>4, <1>5, <2>1, <2>2 DEF TypeOK
<1>7. BitsAccounted
  <2>1. 0 * bits = 0
    BY <1>1
  <2>2. 8 * (pos - base) = Len(codes) * bits + nbits
    BY <1>0, <2>1, <1>5
  <2> QED BY <2>2, <1>5 DEF BitsAccounted
<1>8. Control /\ WindowsEnd
  BY <1>5 DEF Control, WindowsEnd
<1>9. driver = "windows" => total \in Nat /\ total * bits <= 8 * Len(data)
  <2>1. ASSUME driver = "windows"
        PROVE  total \in Nat /\ total * bits <= 8 * Len(data)
    <3>1. total \in Nat /\ total <= Complete
      BY <2>1, <1>3, <1>4
    <3>2. total * bits <= Complete * bits /\ total * bits \in Nat /\ Complete * bits \in Nat
      BY <3>1, <1>1, <1>3, Monotone
    <3> QED BY <3>1, <3>2, <1>2, <1>3
  <2> QED BY <2>1
<1>10. Looping
  BY <1>0, <1>5, <1>9 DEF Looping
<1> QED BY <1>6, <1>7, <1>8, <1>10 DEF StreamInv

(* A driver that stops leaves the unpacker between two pushes.                *)
LEMMA StopKeeps ==
  ASSUME StreamInv, pc # "push", pc' \in {"done", "failed"}, UNCHANGED <<input, unpacker, base, call>>,
         total' \in Nat \cup {None}, driver = "windows" => total' = total,
         produced' \in Nat,
         driver = "windows" => error' # "Eof" /\ (pc' = "done" => pos = CeilDiv(total * bits, 8))
  PROVE  StreamInv'
<1>1. /\ driver' = driver /\ bits' = bits /\ data' = data /\ pos' = pos /\ nbits' = nbits
      /\ codes' = codes /\ base' = base /\ last' = last /\ cap' = cap /\ made' = made
  BY DEF input, unpacker, call
<1>2. TypeOK'
  BY <1>1 DEF StreamInv, TypeOK
<1>3. BitsAccounted'
  BY <1>1 DEF StreamInv, BitsAccounted
<1>4. Control'
  BY <1>1 DEF StreamInv, Control
<1>5. Looping'
  BY <1>1 DEF StreamInv, Looping
<1>6. WindowsEnd'
  BY <1>1 DEF WindowsEnd, CeilDiv
<1> QED BY <1>2, <1>3, <1>4, <1>5, <1>6 DEF StreamInv

(* The loop begins, with a total whose codewords are in the data.             *)
LEMMA LoopBegins ==
  ASSUME StreamInv, pc = "begin", pc' = "loop",
         UNCHANGED <<input, unpacker, base, call, error, produced>>,
         total' \in Nat, total' * bits <= 8 * Len(data)
  PROVE  StreamInv'
<1>1. /\ driver' = driver /\ bits' = bits /\ data' = data /\ pos' = pos /\ nbits' = nbits
      /\ codes' = codes /\ base' = base /\ last' = last /\ cap' = cap /\ made' = made
  BY DEF input, unpacker, call
<1>2. produced = 0 /\ Len(codes) = 0 /\ driver # "caller"
  BY DEF StreamInv, Looping, Control
<1>3. TypeOK'
  BY <1>1 DEF StreamInv, TypeOK
<1>4. BitsAccounted'
  BY <1>1 DEF StreamInv, BitsAccounted
<1>5. Control'
  BY <1>1, <1>2 DEF Control
<1>6. Looping'
  BY <1>1, <1>2 DEF Looping
<1>7. WindowsEnd'
  BY <1>1 DEF StreamInv, WindowsEnd
<1> QED BY <1>3, <1>4, <1>5, <1>6, <1>7 DEF StreamInv

LEMMA Stops ==
  ASSUME NEW why, Stop(why), why # "Eof"
  PROVE  /\ pc' \in {"done", "failed"} /\ UNCHANGED <<input, unpacker, base, call>>
         /\ error' # "Eof" /\ (why # "" => pc' = "failed") /\ pc' # "push"
BY Zenon DEF Stop

LEMMA BeginStep ==
  ASSUME StreamInv, BeginWindows \/ BeginSlice
  PROVE  StreamInv'
<1>1. pc = "begin" /\ produced' = produced /\ TypeOK
  BY DEF BeginWindows, BeginSlice, StreamInv
<1>2. produced \in Nat /\ bits \in 2 .. 5 /\ Len(data) \in Nat /\ total \in Nat \cup {None}
  BY <1>1 DEF TypeOK
<1>3. Complete \in Nat /\ Complete * bits <= 8 * Len(data)
  BY <1>2, WholeCodewords
<1>4. ASSUME BeginWindows
      PROVE  StreamInv'
  <2>1. driver = "windows" /\ total' = total /\ total \in Nat /\ total * bits <= 8 * Len(data)
    BY <1>4 DEF BeginWindows, StreamInv, Looping
  <2>2. ASSUME total > max, Stop("TooLong")
        PROVE  StreamInv'
    <3>1. /\ pc' = "failed" /\ error' # "Eof" /\ UNCHANGED <<input, unpacker, base, call>>
      BY <2>2 DEF Stop
    <3> QED BY <3>1, <2>1, <1>1, <1>2, StopKeeps
  <2>3. ASSUME total = 0, Stop("")
        PROVE  StreamInv'
    <3>0. total = 0
      BY <2>3
    <3>1. pos = CeilDiv(total * bits, 8)
      <4>1. 8 * (pos - base) = Len(codes) * bits + nbits /\ nbits <= 7 /\ base = 0 /\ Len(codes) = 0
        BY <2>1, <1>1 DEF StreamInv, BitsAccounted, Looping
      <4>2. pos \in Nat /\ nbits \in Nat /\ 0 * bits = 0
        BY <1>1, <1>2 DEF TypeOK
      <4>3. pos = 0
        BY <4>1, <4>2
      <4>4. total * bits = 0
        BY <3>0, <4>2
      <4> QED BY <4>3, <4>4 DEF CeilDiv
    <3>2. "" # "Eof"
      BY Zenon
    <3>3. pc' \in {"done", "failed"} /\ UNCHANGED <<input, unpacker, base, call>> /\ error' # "Eof"
      BY <2>3, <3>2, Stops, Zenon
    <3> HIDE <2>3
    <3> QED BY <3>1, <3>3, <2>1, <1>1, <1>2, StopKeeps
  <2>4. ASSUME pc' = "loop", UNCHANGED <<input, unpacker, base, call, error>>
        PROVE  StreamInv'
    BY <2>1, <2>4, <1>1, LoopBegins
  <2> QED BY <1>4, <2>2, <2>3, <2>4 DEF BeginWindows
<1>5. ASSUME BeginSlice
      PROVE  StreamInv'
  <2>1. driver = "slice" /\ total' = IF total = None THEN Complete ELSE total
    BY <1>5 DEF BeginSlice
  <2>2. total' \in Nat
    BY <2>1, <1>2, <1>3
  <2>3. ASSUME Stop("Empty") \/ Stop("InvalidSize") \/ Stop("TooLong")
        PROVE  StreamInv'
    <3>1. pc' \in {"done", "failed"} /\ UNCHANGED <<input, unpacker, base, call>>
      BY <2>3 DEF Stop
    <3> QED BY <2>1, <2>2, <3>1, <1>1, <1>2, StopKeeps
  <2>4. ASSUME ~CountRefused, pc' = "loop", UNCHANGED <<input, unpacker, base, call, error>>
        PROVE  StreamInv'
    <3>1. total' <= Complete
      <4>1. CASE total = None
        BY <4>1, <2>1, <1>3
      <4>2. CASE total # None
        <5>1. ~(total > Complete) /\ total \in Nat /\ total' = total
          BY <4>2, <2>1, <2>4, <1>2 DEF CountRefused
        <5> QED BY <5>1, <1>3
      <4> QED BY <4>1, <4>2
    <3>2. \A n \in 0 .. Complete : n * bits <= 8 * Len(data)
      <4> TAKE n \in 0 .. Complete
      <4>1. n * bits <= Complete * bits /\ n * bits \in Nat /\ Complete * bits \in Nat
        BY <1>2, <1>3, Monotone
      <4> QED BY <4>1, <1>2, <1>3
    <3>3. total' * bits <= 8 * Len(data)
      <4>1. total' \in 0 .. Complete
        BY <3>1, <2>2, <1>3
      <4> QED BY <4>1, <3>2
    <3> QED BY <2>2, <2>4, <3>3, <1>1, LoopBegins
  <2> QED BY <1>5, <2>3, <2>4 DEF BeginSlice
<1> QED BY <1>4, <1>5

(* What the state of a loop says, by itself.                                 *)
LEMMA InLoop ==
  ASSUME StreamInv, pc = "loop"
  PROVE  /\ total \in Nat /\ produced \in Nat /\ produced <= total /\ pos \in Nat /\ nbits \in 0 .. 7
         /\ bits \in 2 .. 5 /\ Len(data) \in Nat /\ base = 0 /\ driver # "caller"
         /\ produced = Len(codes) /\ 8 * pos = produced * bits + nbits
         /\ total * bits <= 8 * Len(data)
<1>1. /\ produced \in Nat /\ pos \in Nat /\ nbits \in Nat /\ bits \in 2 .. 5 /\ Len(data) \in Nat
  BY DEF StreamInv, TypeOK
<1>2. total \in Nat /\ total * bits <= 8 * Len(data) /\ produced = Len(codes) /\ produced <= total
  BY DEF StreamInv, Looping
<1>3. driver # "caller"
  BY DEF StreamInv, Control
<1>4. base = 0 /\ nbits <= 7 /\ 8 * (pos - base) = Len(codes) * bits + nbits
  BY <1>3 DEF StreamInv, BitsAccounted
<1>5. 8 * pos = produced * bits + nbits
  BY <1>1, <1>2, <1>4
<1> QED BY <1>1, <1>2, <1>3, <1>4, <1>5

(* A driver calls push on a slice that holds a codeword and no whole byte too many.  *)
LEMMA CallKeeps ==
  ASSUME StreamInv, pc = "loop", NEW n \in Nat \ {0}, NEW to \in Nat, Call(n, to),
         produced + n <= total, pos <= to, (produced + 1) * bits <= 8 * to,
         driver = "windows" => 8 * to < (produced + n) * bits + 8 \/ pos = to
  PROVE  StreamInv'
<1>0. /\ base = 0 /\ nbits \in 0 .. 7 /\ bits \in 2 .. 5 /\ produced = Len(codes) /\ pos \in Nat
      /\ 8 * pos = produced * bits + nbits
  BY InLoop
<1>1. /\ driver' = driver /\ bits' = bits /\ data' = data /\ pos' = pos /\ nbits' = nbits
      /\ codes' = codes /\ base' = base /\ last' = to /\ cap' = n /\ made' = 0 /\ total' = total
      /\ produced' = produced /\ error' = error /\ pc' = "push"
  BY DEF Call, input, unpacker
<1>2. TypeOK'
  BY <1>1 DEF StreamInv, TypeOK
<1>3. BitsAccounted'
  BY <1>0, <1>1 DEF BitsAccounted
<1>4. Control'
  BY <1>1 DEF Control
<1>5. Looping'
  BY <1>1, InLoop DEF Looping
<1>6. WindowsEnd'
  BY <1>1 DEF StreamInv, WindowsEnd
<1> QED BY <1>2, <1>3, <1>4, <1>5, <1>6 DEF StreamInv

LEMMA ReadWindowStep ==
  ASSUME StreamInv, ReadWindow
  PROVE  StreamInv'
<1> DEFINE need == BytesNeeded(Window)
<1>1. pc = "loop" /\ produced < total
  BY DEF ReadWindow
<1>2. Window \in Nat \ {0} /\ produced + Window <= total
  BY <1>1, InLoop, WindowPositive
<1>3. /\ bits \in 2 .. 5 /\ produced \in Nat /\ total \in Nat /\ nbits \in 0 .. 7 /\ pos \in Nat
      /\ 8 * pos = produced * bits + nbits /\ Len(data) \in Nat /\ total * bits <= 8 * Len(data)
  BY <1>1, InLoop
<1>4. /\ need \in Nat /\ pos + need <= Len(data) /\ (produced + 1) * bits <= 8 * (pos + need)
      /\ 8 * (pos + need) < (produced + Window) * bits + 8 \/ need = 0
  BY <1>2, <1>3, BytesSuffice
<1>5. Call(Window, pos + need)
  BY <1>4 DEF ReadWindow
<1> HIDE DEF need
<1>6. pos + need \in Nat /\ pos <= pos + need /\ (need = 0 => pos = pos + need)
  BY <1>1, <1>4, InLoop
<1> QED BY <1>1, <1>2, <1>4, <1>5, <1>6, CallKeeps

LEMMA NextSliceStep ==
  ASSUME StreamInv, NextSlice
  PROVE  StreamInv'
<1> DEFINE n == Least(total - produced, SliceSamples)
<1>1. pc = "loop" /\ driver = "slice" /\ produced < total /\ Call(n, Len(data))
  BY DEF NextSlice
<1>2. n \in Nat \ {0} /\ produced + n <= total
  BY <1>1, InLoop, G726Assumption DEF Least
<1>3. (produced + 1) * bits <= total * bits /\ total * bits \in Nat /\ (produced + 1) * bits \in Nat
  <2>1. produced + 1 \in Nat /\ total \in Nat /\ bits \in Nat /\ produced + 1 <= total
    BY <1>1, InLoop
  <2> QED BY <2>1, Monotone
<1>4. (produced + 1) * bits = produced * bits + bits /\ produced * bits \in Nat
  BY <1>1, InLoop, Sums, Monotone
<1>5. (produced + 1) * bits <= 8 * Len(data)
  BY <1>1, <1>3, InLoop
<1>6. pos <= Len(data)
  <2> DEFINE pb == produced * bits
  <2>1. /\ pb \in Nat /\ pos \in Nat /\ nbits \in 0 .. 7 /\ bits \in 2 .. 5 /\ Len(data) \in Nat
        /\ 8 * pos = pb + nbits /\ pb + bits <= 8 * Len(data)
    BY <1>1, <1>4, <1>5, InLoop
  <2> HIDE DEF pb
  <2> QED BY <2>1
<1>7. Len(data) \in Nat /\ driver # "windows" /\ pc = "loop" /\ Call(n, Len(data))
  BY <1>1, InLoop
<1> HIDE DEF n
<1> QED BY <1>2, <1>5, <1>6, <1>7, CallKeeps

LEMMA FinishedStep ==
  ASSUME StreamInv, Finished
  PROVE  StreamInv'
<1>0. Stop("")
  BY DEF Finished
<1>1. pc = "loop" /\ produced >= total /\ total' = total /\ produced' = produced
  BY DEF Finished
<1>2. produced = total
  BY <1>1, InLoop
<1>3. pos = CeilDiv(total * bits, 8)
  <2>1. 8 * pos = total * bits + nbits /\ total * bits \in Nat /\ nbits \in 0 .. 7 /\ pos \in Nat
    BY <1>1, <1>2, InLoop, Monotone
  <2> QED BY <2>1 DEF CeilDiv
<1>4. "" # "Eof"
  BY Zenon
<1>5. pc' \in {"done", "failed"} /\ UNCHANGED <<input, unpacker, base, call>> /\ error' # "Eof"
  BY <1>0, <1>4, Stops, Zenon
<1>6. pc # "push" /\ total' = total /\ produced' = produced /\ total \in Nat /\ produced \in Nat
  BY <1>1, InLoop
<1> QED BY <1>3, <1>5, <1>6, StopKeeps

(* A callback or a read that fails stops the loop where it is.                *)
LEMMA FailureStep ==
  ASSUME StreamInv, ReadFails \/ CallbackFails
  PROVE  StreamInv'
<1>1. pc \in {"loop", "returned"} /\ total' = total /\ produced' = produced /\ (Stop("Io") \/ Stop("Callback"))
  BY DEF ReadFails, CallbackFails
<1>2. pc' = "failed" /\ error' # "Eof" /\ UNCHANGED <<input, unpacker, base, call>>
  BY <1>1 DEF Stop
<1>3. produced \in Nat /\ total \in Nat \cup {None}
  BY DEF StreamInv, TypeOK
<1> QED BY <1>1, <1>2, <1>3, StopKeeps

LEMMA CallerPushesStep ==
  ASSUME StreamInv, CallerPushes
  PROVE  StreamInv'
<1>1. PICK n \in Caps, to \in pos .. Len(data) : Call(n, to)
  BY DEF CallerPushes
<1>2. /\ driver' = driver /\ bits' = bits /\ data' = data /\ pos' = pos /\ nbits' = nbits
      /\ codes' = codes /\ base' = base /\ last' = to /\ cap' = n /\ made' = 0 /\ total' = total
      /\ produced' = produced /\ error' = error /\ pc' = "push"
  BY <1>1 DEF Call, input, unpacker
<1>3. pc = "idle" /\ driver = "caller"
  BY DEF CallerPushes, StreamInv, Control
<1>4. /\ bits \in 2 .. 5 /\ pos \in Nat /\ Len(data) \in Nat /\ nbits \in Nat /\ nbits <= 7
      /\ n \in Nat /\ to \in Nat
  BY <1>3, G726Assumption DEF StreamInv, TypeOK, BitsAccounted
<1>5. TypeOK'
  BY <1>2, <1>4 DEF StreamInv, TypeOK
<1>6. BitsAccounted'
  <2>1. 8 * (pos - base) = Len(codes) * bits + nbits
    BY DEF StreamInv, BitsAccounted
  <2>2. nbits <= bits + 7
    BY <1>4
  <2> QED BY <2>1, <2>2, <1>2, <1>3, <1>4 DEF BitsAccounted
<1>7. Control' /\ Looping' /\ WindowsEnd'
  BY <1>2, <1>3 DEF Control, Looping, WindowsEnd
<1> QED BY <1>5, <1>6, <1>7 DEF StreamInv

LEMMA TakeCodeStep ==
  ASSUME StreamInv, TakeCode
  PROVE  StreamInv'
<1>1. /\ driver' = driver /\ bits' = bits /\ data' = data /\ pos' = pos /\ nbits' = nbits - bits
      /\ base' = base /\ last' = last /\ cap' = cap /\ made' = made + 1 /\ total' = total
      /\ produced' = produced /\ error' = error /\ pc' = "push" /\ pc = "push"
      /\ codes' = Append(codes, Taken)
  BY DEF TakeCode, input
<1>2. /\ bits \in 2 .. 5 /\ pos \in Nat /\ nbits \in Nat /\ made \in Nat /\ cap \in Nat /\ base \in Nat
      /\ made < cap /\ nbits >= bits /\ nbits <= bits + 7
  BY <1>1 DEF TakeCode, StreamInv, TypeOK, BitsAccounted
<1>3. PICK S : codes \in Seq(S)
  BY DEF StreamInv, TypeOK
<1>4. codes' \in Seq(S \cup {Taken}) /\ Len(codes') = Len(codes) + 1 /\ Len(codes) \in Nat
  BY <1>1, <1>3, Grows
<1>5. TypeOK'
  <2>1. nbits' \in Nat /\ made' \in Nat
    BY <1>1, <1>2
  <2>2. \E T : codes' \in Seq(T)
    BY <1>4, Zenon
  <2> QED BY <2>1, <2>2, <1>1 DEF StreamInv, TypeOK
<1>6. BitsAccounted'
  <2>1. 8 * (pos - base) = Len(codes) * bits + nbits /\ (driver # "caller" => base = 0)
    BY DEF StreamInv, BitsAccounted
  <2>2. (Len(codes) + 1) * bits = Len(codes) * bits + bits /\ Len(codes) * bits \in Nat
    BY <1>2, <1>4, Sums, Monotone
  <2>3. 8 * (pos - base) = Len(codes') * bits + (nbits - bits)
    <3> DEFINE lb == Len(codes) * bits
    <3>1. Len(codes') * bits = lb + bits /\ lb \in Nat /\ 8 * (pos - base) = lb + nbits
      BY <2>1, <2>2, <1>4
    <3> HIDE DEF lb
    <3> QED BY <3>1, <1>2
  <2>4. nbits - bits <= 7
    BY <1>2
  <2> QED BY <2>1, <2>3, <2>4, <1>1, <1>2 DEF BitsAccounted
<1>7. Control' /\ WindowsEnd'
  BY <1>1 DEF StreamInv, Control, WindowsEnd
<1>8. Looping'
  <2>1. driver # "caller" => produced \in Nat /\ produced + made = Len(codes)
    BY <1>1 DEF StreamInv, TypeOK, Looping
  <2>2. driver # "caller" => produced + (made + 1) = Len(codes')
    BY <2>1, <1>2, <1>4
  <2>3. made + 1 <= cap
    BY <1>2
  <2> QED BY <2>2, <2>3, <1>1 DEF StreamInv, Looping
<1> QED BY <1>5, <1>6, <1>7, <1>8 DEF StreamInv

LEMMA PushByteStep ==
  ASSUME StreamInv, PushByte
  PROVE  StreamInv'
<1>1. /\ driver' = driver /\ bits' = bits /\ data' = data /\ pos' = pos + 1 /\ nbits' = nbits + 8
      /\ base' = base /\ last' = last /\ cap' = cap /\ made' = made /\ total' = total
      /\ produced' = produced /\ error' = error /\ pc' = "push" /\ pc = "push" /\ codes' = codes
  BY DEF PushByte, input, call
<1>2. /\ bits \in 2 .. 5 /\ pos \in Nat /\ nbits \in Nat /\ made \in Nat /\ cap \in Nat /\ base \in Nat
      /\ last \in Nat /\ made < cap /\ nbits < bits /\ pos < last
  BY DEF PushByte, StreamInv, TypeOK
<1>3. TypeOK'
  <2>1. nbits' \in Nat /\ pos' \in Nat
    BY <1>1, <1>2
  <2> QED BY <2>1, <1>1 DEF StreamInv, TypeOK
<1>4. BitsAccounted'
  <2>1. 8 * (pos - base) = Len(codes) * bits + nbits /\ (driver # "caller" => base = 0)
    BY DEF StreamInv, BitsAccounted
  <2>2. Len(codes) * bits \in Nat
    <3>1. Len(codes) \in Nat
      BY Grows DEF StreamInv, TypeOK
    <3> QED BY <3>1, <1>2, Monotone
  <2>3. 8 * (pos + 1 - base) = Len(codes) * bits + (nbits + 8)
    <3> DEFINE lb == Len(codes) * bits
    <3>1. lb \in Nat /\ 8 * (pos - base) = lb + nbits
      BY <2>1, <2>2
    <3> HIDE DEF lb
    <3>2. 8 * (pos + 1 - base) = lb + (nbits + 8)
      BY <3>1, <1>2
    <3> QED BY <3>2 DEF lb
  <2> QED BY <2>1, <2>3, <1>1, <1>2 DEF BitsAccounted
<1>5. Control' /\ WindowsEnd'
  BY <1>1 DEF StreamInv, Control, WindowsEnd
<1>6. Looping'
  BY <1>1, <1>2 DEF StreamInv, Looping
<1> QED BY <1>3, <1>4, <1>5, <1>6 DEF StreamInv

(* push returns: a loop gets a codeword at least, and a window is read up.      *)
LEMMA ReturnsStep ==
  ASSUME StreamInv, Returns
  PROVE  StreamInv'
<1>1. /\ driver' = driver /\ bits' = bits /\ data' = data /\ pos' = pos /\ nbits' = nbits
      /\ base' = base /\ last' = last /\ cap' = cap /\ made' = made /\ total' = total
      /\ produced' = produced /\ error' = error /\ codes' = codes /\ pc = "push"
      /\ pc' = IF driver = "caller" THEN "idle" ELSE "returned"
  BY DEF Returns, input, unpacker, call
<1>2. /\ bits \in 2 .. 5 /\ pos \in Nat /\ nbits \in Nat /\ made \in Nat /\ cap \in Nat
      /\ last \in Nat /\ produced \in Nat /\ Len(codes) \in Nat
  BY Grows DEF StreamInv, TypeOK
<1>3. nbits <= 7 /\ (made >= cap \/ (nbits < bits /\ pos >= last))
  BY <1>1, <1>2 DEF Returns, PushEnds, StreamInv, BitsAccounted
<1>4. TypeOK'
  BY <1>1 DEF StreamInv, TypeOK
<1>5. BitsAccounted'
  BY <1>1, <1>3 DEF StreamInv, BitsAccounted
<1>6. Control' /\ WindowsEnd'
  BY <1>1 DEF StreamInv, Control, WindowsEnd
<1>7. CASE driver = "caller"
  <2>1. Looping'
    BY <1>1, <1>7 DEF Looping
  <2> QED BY <2>1, <1>4, <1>5, <1>6 DEF StreamInv
<1>8. CASE driver # "caller"
  <2>1. /\ total \in Nat /\ total * bits <= 8 * Len(data)
        /\ produced + made = Len(codes) /\ made <= cap /\ cap >= 1 /\ produced + cap <= total
        /\ pos <= last /\ (produced + 1) * bits <= 8 * last
        /\ driver = "windows" => 8 * last < (produced + cap) * bits + 8 \/ pos = last
    BY <1>1, <1>8 DEF StreamInv, Looping
  <2>2. 8 * pos = Len(codes) * bits + nbits /\ Len(codes) * bits \in Nat
    <3>1. Len(codes) * bits \in Nat
      BY <1>2, Monotone
    <3> QED BY <3>1, <1>2, <1>8 DEF StreamInv, BitsAccounted
  <2>3. made # 0
    <3>1. SUFFICES ASSUME made = 0
                   PROVE  FALSE
      OBVIOUS
    <3>2. nbits < bits /\ pos = last /\ produced = Len(codes)
      BY <3>1, <2>1, <1>2, <1>3
    <3>3. (produced + 1) * bits = produced * bits + bits
      BY <1>2, Sums
    <3> DEFINE pb == produced * bits
    <3>4. pb \in Nat /\ pb + bits <= 8 * pos /\ 8 * pos = pb + nbits
      BY <3>2, <3>3, <2>1, <2>2
    <3> HIDE DEF pb
    <3> QED BY <3>2, <3>4, <1>2
  <2>4. driver = "windows" => pos = last
    <3>1. SUFFICES ASSUME driver = "windows", pos # last
                   PROVE  FALSE
      OBVIOUS
    <3>2. made = cap /\ 8 * last < (produced + cap) * bits + 8
      BY <3>1, <2>1, <1>2, <1>3
    <3>3. Len(codes) = produced + cap
      BY <3>2, <2>1
    <3> DEFINE lb == Len(codes) * bits
    <3>4. lb \in Nat /\ 8 * last < lb + 8 /\ 8 * pos = lb + nbits /\ pos < last
      BY <3>1, <3>2, <3>3, <2>1, <2>2, <1>2
    <3> HIDE DEF lb
    <3> QED BY <3>4, <1>2
  <2>5. ~Refused'
    BY <2>3, <2>4, <1>1 DEF Refused
  <2>6. Looping'
    BY <2>1, <2>5, <1>1, <1>8 DEF Looping
  <2> QED BY <2>6, <1>4, <1>5, <1>6 DEF StreamInv
<1> QED BY <1>7, <1>8

LEMMA VisitStep ==
  ASSUME StreamInv, Visit
  PROVE  StreamInv'
<1>1. pc = "returned" /\ ~Refused /\ driver # "caller"
  BY DEF Visit, StreamInv, Looping, Control
<1>2. /\ driver' = driver /\ bits' = bits /\ data' = data /\ pos' = pos /\ nbits' = nbits
      /\ base' = base /\ last' = last /\ cap' = cap /\ made' = made /\ total' = total
      /\ error' = error /\ codes' = codes /\ produced' = produced + made /\ pc' = "loop"
  BY <1>1 DEF Visit, input, unpacker, call
<1>3. made \in Nat /\ cap \in Nat /\ produced \in Nat
  BY DEF StreamInv, TypeOK
<1>4. /\ total \in Nat /\ total * bits <= 8 * Len(data)
      /\ produced + made = Len(codes) /\ made <= cap /\ produced + cap <= total
  BY <1>1 DEF StreamInv, Looping
<1>5. produced' = Len(codes') /\ produced' <= total' /\ produced' \in Nat
  BY <1>2, <1>3, <1>4
<1>6. TypeOK'
  BY <1>2, <1>5 DEF StreamInv, TypeOK
<1>7. BitsAccounted'
  BY <1>1, <1>2 DEF StreamInv, BitsAccounted
<1>8. Control' /\ WindowsEnd'
  BY <1>1, <1>2 DEF StreamInv, Control, WindowsEnd
<1>9. Looping'
  BY <1>2, <1>4, <1>5 DEF Looping
<1> QED BY <1>6, <1>7, <1>8, <1>9 DEF StreamInv

LEMMA FinishOrResetStep ==
  ASSUME StreamInv, FinishOrReset
  PROVE  StreamInv'
<1>1. /\ driver' = driver /\ bits' = bits /\ data' = data /\ pos' = pos /\ nbits' = 0
      /\ base' = pos /\ last' = last /\ cap' = cap /\ made' = made /\ total' = total
      /\ produced' = produced /\ error' = error /\ pc' = pc /\ pc = "idle" /\ codes' = <<>>
  BY DEF FinishOrReset, Cleared, input, call
<1>2. driver = "caller" /\ bits \in 2 .. 5 /\ pos \in Nat
  BY <1>1 DEF StreamInv, Control, TypeOK
<1>3. codes' \in Seq(Int) /\ Len(codes') = 0
  <2>1. Len(<<>>) = 0 /\ <<>> \in Seq(Int)
    OBVIOUS
  <2> QED BY <2>1, <1>1
<1>4. TypeOK'
  <2>1. \E S : codes' \in Seq(S)
    BY <1>3, Zenon
  <2> HIDE <1>3
  <2> QED BY <2>1, <1>1, <1>2 DEF StreamInv, TypeOK
<1>5. BitsAccounted'
  <2>1. 0 * bits = 0
    BY <1>2
  <2> QED BY <2>1, <1>1, <1>2, <1>3 DEF BitsAccounted
<1>6. Control' /\ Looping' /\ WindowsEnd'
  BY <1>1, <1>2 DEF StreamInv, Control, Looping, WindowsEnd
<1> QED BY <1>4, <1>5, <1>6 DEF StreamInv

LEMMA Stutter ==
  ASSUME StreamInv, UNCHANGED vars
  PROVE  StreamInv'
<1>1. /\ driver' = driver /\ bits' = bits /\ data' = data /\ pos' = pos /\ nbits' = nbits
      /\ base' = base /\ last' = last /\ cap' = cap /\ made' = made /\ total' = total
      /\ produced' = produced /\ error' = error /\ codes' = codes /\ pc' = pc
  BY DEF vars, input, unpacker, call
<1>2. Refused' = Refused
  BY <1>1 DEF Refused
<1>3. TypeOK' /\ BitsAccounted' /\ Control'
  BY <1>1 DEF StreamInv, TypeOK, BitsAccounted, Control
<1>4. Looping' /\ WindowsEnd'
  BY <1>1, <1>2 DEF StreamInv, Looping, WindowsEnd, CeilDiv
<1> QED BY <1>3, <1>4 DEF StreamInv

-----------------------------------------------------------------------------
(* Theorems                                                                  *)

(* g726/decode.rs, "at most 7 unused bits", and the books of every loop around     *)
(* push: each bit of the bytes consumed since the last finish or reset is in a      *)
(* codeword or pending, however the bytes were cut.                           *)
THEOREM StreamInvariant == Spec => []StreamInv
<1>1. Init => StreamInv
  BY InitInv
<1>2. StreamInv /\ [Next]_vars => StreamInv'
  <2> SUFFICES ASSUME StreamInv, [Next]_vars
               PROVE  StreamInv'
    OBVIOUS
  <2>1. CASE BeginWindows \/ BeginSlice
    BY <2>1, BeginStep
  <2>2. CASE ReadWindow
    BY <2>2, ReadWindowStep
  <2>3. CASE NextSlice
    BY <2>3, NextSliceStep
  <2>4. CASE Finished
    BY <2>4, FinishedStep
  <2>5. CASE ReadFails \/ CallbackFails
    BY <2>5, FailureStep
  <2>6. CASE CallerPushes
    BY <2>6, CallerPushesStep
  <2>7. CASE TakeCode
    BY <2>7, TakeCodeStep
  <2>8. CASE PushByte
    BY <2>8, PushByteStep
  <2>9. CASE Returns
    BY <2>9, ReturnsStep
  <2>10. CASE Visit
    BY <2>10, VisitStep
  <2>11. CASE FinishOrReset
    BY <2>11, FinishOrResetStep
  <2>12. CASE UNCHANGED vars
    BY <2>12, Stutter
  <2> QED BY <2>1, <2>2, <2>3, <2>4, <2>5, <2>6, <2>7, <2>8, <2>9, <2>10, <2>11, <2>12, Zenon DEF Next
<1> QED BY <1>1, <1>2, PTL DEF Spec

(* pull/g726.rs and g726/mod.rs: no push of an admitted stream comes back empty or   *)
(* with bytes left over, no window is read past the data, and the bytes read are    *)
(* those the plan's codewords need, for windows, buffers and payloads of every     *)
(* length.                                                                   *)
THEOREM AdmittedStaysDecoded == Spec => []AdmittedIsDecoded
<1>1. StreamInv => AdmittedIsDecoded
  BY DEF StreamInv, Looping, WindowsEnd, AdmittedIsDecoded
<1> QED BY <1>1, StreamInvariant, PTL

-----------------------------------------------------------------------------
(* Quotients and remainders, and products, as operators the provers leave alone.  *)
Quot(x, p) == x \div p
Rem(x, p) == x % p
Product(m, p, q) == m = p * q
Divided(x, p, q, r) == x = q * p + r

LEMMA Division ==
  ASSUME NEW x \in Nat, NEW p \in Nat \ {0}
  PROVE  /\ Quot(x, p) \in Nat /\ Rem(x, p) \in 0 .. p - 1 /\ Rem(x, p) \in Nat
         /\ Divided(x, p, Quot(x, p), Rem(x, p))
BY DEF Quot, Rem, Divided

(* There are no other.                                                       *)
LEMMA Unique ==
  ASSUME NEW q \in Nat, NEW p \in Nat \ {0}, NEW r \in 0 .. p - 1, NEW x \in Nat,
         Divided(x, p, q, r)
  PROVE  Quot(x, p) = q /\ Rem(x, p) = r
BY DEF Quot, Rem, Divided

(* x divided by p and then by q. *)
LEMMA Twice ==
  ASSUME NEW x \in Nat, NEW p \in Nat \ {0}, NEW q \in Nat \ {0}, NEW m, Product(m, p, q)
  PROVE  /\ Quot(x, m) = Quot(Quot(x, p), q)
         /\ Quot(Rem(x, m), p) = Rem(Quot(x, p), q)
         /\ Rem(Rem(x, m), p) = Rem(x, p)
<1> DEFINE y == Quot(x, p)
           r == Rem(x, p)
           z == Quot(y, q)
           s == Rem(y, q)
           sr == s * p + r
<1>1. y \in Nat /\ r \in 0 .. p - 1 /\ Divided(x, p, y, r)
  BY Division
<1>2. z \in Nat /\ s \in 0 .. q - 1 /\ s \in Nat /\ Divided(y, q, z, s)
  BY <1>1, Division
<1> HIDE DEF y, r, z, s
<1>3. Divided(x, m, z, sr)
  BY <1>1, <1>2 DEF Divided, Product
<1>4. m \in Nat \ {0}
  <2>1. 1 * q <= p * q /\ p * q \in Nat
    BY Monotone
  <2> QED BY <2>1 DEF Product
<1>5. sr \in 0 .. m - 1 /\ sr \in Nat
  <2>1. (s + 1) * p <= q * p /\ (s + 1) * p = s * p + p /\ s * p \in Nat
    <3>1. s + 1 <= q /\ s + 1 \in Nat /\ q \in Nat /\ p \in Nat
      BY <1>2
    <3> QED BY <1>2, <3>1, Monotone, Sums
  <2>2. q * p = m
    BY DEF Product
  <2> QED BY <1>1, <2>1, <2>2
<1>6. Divided(sr, p, s, r)
  BY DEF Divided
<1> HIDE DEF sr
<1>7. Quot(sr, p) = s /\ Rem(sr, p) = r
  BY <1>1, <1>2, <1>5, <1>6, Unique
<1>8. Quot(x, m) = z /\ Rem(x, m) = sr
  BY <1>2, <1>3, <1>4, <1>5, Unique
<1> QED BY <1>7, <1>8, Zenon DEF y, r, z, s

-----------------------------------------------------------------------------
(* Powers of two, as far as a codeword and a byte reach.                      *)
Pow(n) == 2 ^ n

LEMMA PowTable ==
  /\ Pow(0) = 1 /\ Pow(1) = 2 /\ Pow(2) = 4 /\ Pow(3) = 8 /\ Pow(4) = 16 /\ Pow(5) = 32
  /\ Pow(6) = 64 /\ Pow(7) = 128 /\ Pow(8) = 256 /\ Pow(9) = 512 /\ Pow(10) = 1024
  /\ Pow(11) = 2048 /\ Pow(12) = 4096
BY DEF Pow

LEMMA PowPositive ==
  ASSUME NEW n \in 0 .. 12
  PROVE  Pow(n) \in Nat \ {0}
BY PowTable

LEMMA PowSum ==
  ASSUME NEW a \in 0 .. 12, NEW b \in 0 .. 12, a + b <= 12
  PROVE  Product(Pow(a + b), Pow(a), Pow(b))
BY PowTable DEF Product

LEMMA Doubles ==
  ASSUME NEW n \in 0 .. 11
  PROVE  Product(Pow(n + 1), 2, Pow(n))
BY PowTable DEF Product

LEMMA BitIs ==
  ASSUME NEW x \in Nat, NEW v \in 0 .. 12
  PROVE  BitOf(x, v) = Rem(Quot(x, Pow(v)), 2)
BY DEF BitOf, Pow, Quot, Rem

(* The bits of a quotient, of a remainder and of a sum.                       *)
LEMMA BitOfQuotient ==
  ASSUME NEW x \in Nat, NEW v \in 0 .. 12, NEW w \in 0 .. 12, v + w <= 12
  PROVE  Quot(x, Pow(w)) \in Nat /\ BitOf(Quot(x, Pow(w)), v) = BitOf(x, v + w)
<1>1. Product(Pow(v + w), Pow(w), Pow(v))
  <2>1. w + v = v + w /\ w + v <= 12
    OBVIOUS
  <2> QED BY <2>1, PowSum
<1>2. Pow(w) \in Nat \ {0} /\ Pow(v) \in Nat \ {0} /\ v + w \in 0 .. 12
  BY PowPositive
<1>3. Quot(x, Pow(v + w)) = Quot(Quot(x, Pow(w)), Pow(v)) /\ Quot(x, Pow(w)) \in Nat
  <2>1. Quot(x, Pow(w)) \in Nat
    BY <1>2, Division
  <2>2. Quot(x, Pow(v + w)) = Quot(Quot(x, Pow(w)), Pow(v))
    BY <1>1, <1>2, Twice
  <2> QED BY <2>1, <2>2
<1> QED BY <1>2, <1>3, BitIs

LEMMA BitOfRemainder ==
  ASSUME NEW x \in Nat, NEW w \in 0 .. 12, NEW v \in 0 .. w - 1
  PROVE  BitOf(Rem(x, Pow(w)), v) = BitOf(x, v)
<1> DEFINE k == w - 1 - v
<1>1. k \in 0 .. 11 /\ v \in 0 .. 12 /\ v + (k + 1) = w /\ k + 1 \in 0 .. 12
  OBVIOUS
<1> HIDE DEF k
<1>2. Product(Pow(w), Pow(v), Pow(k + 1)) /\ Product(Pow(k + 1), 2, Pow(k))
  <2>1. Product(Pow(v + (k + 1)), Pow(v), Pow(k + 1))
    BY <1>1, PowSum
  <2> QED BY <1>1, <2>1, Doubles
<1>3. /\ Pow(v) \in Nat \ {0} /\ Pow(k + 1) \in Nat \ {0} /\ Pow(k) \in Nat \ {0}
      /\ Pow(w) \in Nat \ {0} /\ 2 \in Nat \ {0}
  BY <1>1, PowPositive
<1>4. /\ Quot(Rem(x, Pow(w)), Pow(v)) = Rem(Quot(x, Pow(v)), Pow(k + 1))
      /\ Quot(x, Pow(v)) \in Nat /\ Rem(x, Pow(w)) \in Nat
  <2>1. Quot(x, Pow(v)) \in Nat /\ Rem(x, Pow(w)) \in Nat
    BY <1>3, Division
  <2>2. Quot(Rem(x, Pow(w)), Pow(v)) = Rem(Quot(x, Pow(v)), Pow(k + 1))
    BY <1>2, <1>3, Twice
  <2> QED BY <2>1, <2>2
<1>5. Rem(Rem(Quot(x, Pow(v)), Pow(k + 1)), 2) = Rem(Quot(x, Pow(v)), 2)
  BY <1>2, <1>3, <1>4, Twice
<1> QED BY <1>1, <1>4, <1>5, BitIs

(* y above w bits of x. *)
LEMMA BitsOfSum ==
  ASSUME NEW w \in 0 .. 12, NEW x \in 0 .. Pow(w) - 1, NEW y \in Nat,
         NEW z, Divided(z, Pow(w), y, x)
  PROVE  /\ z \in Nat
         /\ \A v \in 0 .. w - 1 : BitOf(z, v) = BitOf(x, v)
         /\ \A v \in 0 .. 12 : v + w <= 12 => BitOf(z, v + w) = BitOf(y, v)
<1>1. Pow(w) \in Nat \ {0}
  BY PowPositive
<1>2. z \in Nat
  <2>1. y * Pow(w) \in Nat
    BY <1>1, Monotone
  <2> QED BY <1>1, <2>1 DEF Divided
<1>3. Quot(z, Pow(w)) = y /\ Rem(z, Pow(w)) = x
  BY <1>1, <1>2, Unique
<1> QED BY <1>2, <1>3, BitOfQuotient, BitOfRemainder

LEMMA PowOfByte ==
  ASSUME NEW w \in 0 .. 4
  PROVE  Pow(w + 8) = 256 * Pow(w)
BY PowTable

LEMMA QuotientBound ==
  ASSUME NEW p \in Nat \ {0}, NEW q \in Nat \ {0}, NEW m, Product(m, p, q), NEW x \in 0 .. m - 1
  PROVE  Quot(x, p) \in 0 .. q - 1
<1> DEFINE y == Quot(x, p)
           r == Rem(x, p)
<1>1. p * q \in Nat /\ m = p * q
  BY Monotone DEF Product
<1>2. x \in Nat
  BY <1>1
<1>3. y \in Nat /\ r \in Nat /\ Divided(x, p, y, r)
  BY <1>2, Division
<1> HIDE DEF y, r
<1>4. ~(q <= y)
  <2>1. SUFFICES ASSUME q <= y PROVE FALSE
    OBVIOUS
  <2>2. q * p <= y * p /\ q * p = m /\ y * p \in Nat
    BY <1>1, <1>3, <2>1, Monotone
  <2>3. x = y * p + r
    BY <1>3 DEF Divided
  <2> DEFINE yp == y * p
  <2>4. m <= yp /\ x = yp + r /\ yp \in Nat
    BY <2>2, <2>3
  <2> HIDE DEF yp
  <2> QED BY <1>1, <1>3, <2>4
<1>5. y \in 0 .. q - 1
  BY <1>3, <1>4
<1> QED BY <1>5 DEF y

-----------------------------------------------------------------------------
(* The codewords are the stream: what the unpacker holds between two of them are   *)
(* the bits of the stream that come next.                                    *)

SliceInData == data \in Seq(0 .. 255) /\ last \in Nat /\ last <= Len(data)

PendingIsTheStream == Holds(pending, nbits, Len(codes) * bits)

WordsInv == SliceInData /\ PendingIsTheStream /\ CodesAreTheStream

LEMMA HoldsIs ==
  ASSUME NEW x, NEW n \in 0 .. 12, NEW k
  PROVE  Holds(x, n, k) <=>
           /\ x \in 0 .. Pow(n) - 1
           /\ \A i \in 0 .. n - 1 : BitOf(x, Weight(n, i)) = Bit(k + i)
BY DEF Holds, Pow

LEMMA HoldsKept ==
  ASSUME UNCHANGED <<data, base, packing>>, NEW x, NEW n, NEW k
  PROVE  Holds(x, n, k)' <=> Holds(x, n, k)
BY DEF Holds, Bit, Weight

(* try_take: the codeword is the first `bits' of the pending bits.            *)
LEMMA TakenHolds ==
  ASSUME bits \in 2 .. 5, nbits \in bits .. 12, NEW k \in Nat, Holds(pending, nbits, k)
  PROVE  Holds(Taken, bits, k)
<1>0. nbits \in 0 .. 12 /\ bits \in 0 .. 12 /\ nbits - bits \in 0 .. 10 /\ nbits - bits \in 0 .. 12
  OBVIOUS
<1>1. /\ pending \in Nat /\ pending \in 0 .. Pow(nbits) - 1
      /\ \A i \in 0 .. nbits - 1 : BitOf(pending, Weight(nbits, i)) = Bit(k + i)
  <2>1. /\ pending \in 0 .. Pow(nbits) - 1
        /\ \A i \in 0 .. nbits - 1 : BitOf(pending, Weight(nbits, i)) = Bit(k + i)
    BY DEF Holds, Pow
  <2> QED BY <1>0, <2>1, PowPositive
<1>2. Pow(bits) \in Nat \ {0} /\ Pow(nbits - bits) \in Nat \ {0}
  BY <1>0, PowPositive
<1>3. CASE packing = "Aal2"
  <2> DEFINE q == Quot(pending, Pow(nbits - bits))
  <2>1. Taken = Rem(q, Pow(bits))
    BY <1>3 DEF Taken, Quot, Rem, Pow
  <2>2. q \in Nat
    BY <1>1, <1>2, Division
  <2>3. Taken \in 0 .. Pow(bits) - 1
    <3> HIDE DEF q
    <3> QED BY <1>2, <2>1, <2>2, Division
  <2>4. ASSUME NEW i \in 0 .. bits - 1
        PROVE  BitOf(Taken, Weight(bits, i)) = Bit(k + i)
    <3> DEFINE v == bits - 1 - i
    <3>1. v \in 0 .. bits - 1 /\ v \in 0 .. 12 /\ v + (nbits - bits) = nbits - 1 - i
          /\ v + (nbits - bits) <= 12 /\ i \in 0 .. nbits - 1
      OBVIOUS
    <3>2. Weight(bits, i) = v /\ Weight(nbits, i) = v + (nbits - bits)
      BY <1>3, <3>1 DEF Weight
    <3> HIDE DEF v
    <3>3. BitOf(Taken, v) = BitOf(q, v)
      <4> HIDE DEF q
      <4> QED BY <2>1, <2>2, <3>1, BitOfRemainder
    <3>4. BitOf(q, v) = BitOf(pending, v + (nbits - bits))
      BY <1>0, <1>1, <3>1, BitOfQuotient
    <3> QED BY <1>1, <3>1, <3>2, <3>3, <3>4
  <2> QED BY <2>3, <2>4, HoldsIs
<1>4. CASE packing # "Aal2"
  <2>1. Taken = Rem(pending, Pow(bits))
    BY <1>4 DEF Taken, Rem, Pow
  <2>2. Taken \in 0 .. Pow(bits) - 1
    BY <1>1, <1>2, <2>1, Division
  <2>3. ASSUME NEW i \in 0 .. bits - 1
        PROVE  BitOf(Taken, Weight(bits, i)) = Bit(k + i)
    <3>1. Weight(bits, i) = i /\ Weight(nbits, i) = i /\ i \in 0 .. nbits - 1
      BY <1>4 DEF Weight
    <3>2. BitOf(Taken, i) = BitOf(pending, i)
      BY <1>1, <2>1, BitOfRemainder
    <3> QED BY <1>1, <3>1, <3>2
  <2> QED BY <2>2, <2>3, HoldsIs
<1> QED BY <1>3, <1>4

LEMMA RestHolds ==
  ASSUME bits \in 2 .. 5, nbits \in bits .. 12, NEW k \in Nat, Holds(pending, nbits, k)
  PROVE  Holds(Rest, nbits - bits, k + bits)
<1> DEFINE n == nbits - bits
<1>0. nbits \in 0 .. 12 /\ bits \in 0 .. 12
  OBVIOUS
<1>1. /\ pending \in Nat /\ pending \in 0 .. Pow(nbits) - 1
      /\ \A i \in 0 .. nbits - 1 : BitOf(pending, Weight(nbits, i)) = Bit(k + i)
  <2>1. /\ pending \in 0 .. Pow(nbits) - 1
        /\ \A i \in 0 .. nbits - 1 : BitOf(pending, Weight(nbits, i)) = Bit(k + i)
    BY DEF Holds, Pow
  <2> QED BY <1>0, <2>1, PowPositive
<1>2. /\ n \in 0 .. 10 /\ n \in 0 .. 12 /\ n + bits = nbits /\ bits + n = nbits
      /\ Pow(bits) \in Nat \ {0} /\ Pow(n) \in Nat \ {0}
  BY PowPositive
<1>3. Rest = IF packing = "Aal2" THEN Rem(pending, Pow(n)) ELSE Quot(pending, Pow(bits))
  BY DEF Rest, Quot, Rem, Pow
<1> HIDE DEF n
<1>4. CASE packing = "Aal2"
  <2>1. Rest \in 0 .. Pow(n) - 1
    BY <1>1, <1>2, <1>3, <1>4, Division
  <2>2. ASSUME NEW i \in 0 .. n - 1
        PROVE  BitOf(Rest, Weight(n, i)) = Bit((k + bits) + i)
    <3>1. n - 1 - i \in 0 .. n - 1 /\ bits + i \in 0 .. nbits - 1
          /\ nbits - 1 - (bits + i) = n - 1 - i /\ k + (bits + i) = (k + bits) + i
      BY <1>2
    <3>2. Weight(n, i) = n - 1 - i /\ Weight(nbits, bits + i) = n - 1 - i
      BY <1>4, <3>1 DEF Weight
    <3>3. BitOf(Rest, n - 1 - i) = BitOf(pending, n - 1 - i)
      BY <1>1, <1>2, <1>3, <1>4, <3>1, BitOfRemainder
    <3>4. BitOf(pending, Weight(nbits, bits + i)) = Bit(k + (bits + i))
      BY <1>1, <3>1
    <3> QED BY <3>1, <3>2, <3>3, <3>4
  <2>3. Holds(Rest, n, k + bits)
    BY <1>2, <2>1, <2>2, HoldsIs
  <2> QED BY <2>3 DEF n
<1>5. CASE packing # "Aal2"
  <2>1. Rest \in 0 .. Pow(n) - 1
    <3>1. Product(Pow(nbits), Pow(bits), Pow(n))
      <4>1. Product(Pow(bits + n), Pow(bits), Pow(n))
        BY <1>2, PowSum
      <4> QED BY <1>2, <4>1
    <3> QED BY <1>1, <1>2, <1>3, <1>5, <3>1, QuotientBound
  <2>2. ASSUME NEW i \in 0 .. n - 1
        PROVE  BitOf(Rest, Weight(n, i)) = Bit((k + bits) + i)
    <3>1. i \in 0 .. 12 /\ i + bits <= 12 /\ bits + i \in 0 .. nbits - 1 /\ i + bits = bits + i
          /\ k + (bits + i) = (k + bits) + i /\ bits \in 0 .. 12
      BY <1>2
    <3>2. Weight(n, i) = i /\ Weight(nbits, bits + i) = bits + i
      BY <1>5 DEF Weight
    <3>3. BitOf(Rest, i) = BitOf(pending, i + bits)
      BY <1>1, <1>3, <1>5, <3>1, BitOfQuotient
    <3>4. BitOf(pending, Weight(nbits, bits + i)) = Bit(k + (bits + i))
      BY <1>1, <3>1
    <3> QED BY <3>1, <3>2, <3>3, <3>4
  <2>3. Holds(Rest, n, k + bits)
    BY <1>2, <2>1, <2>2, HoldsIs
  <2> QED BY <2>3 DEF n
<1> QED BY <1>4, <1>5

(* The bits of the byte that is pushed next.                                  *)
LEMMA NextByte ==
  ASSUME base \in Nat, pos \in Nat, nbits \in 0 .. 4, NEW k \in Nat,
         8 * (pos - base) = k + nbits, NEW i \in nbits .. nbits + 7
  PROVE  Bit(k + i) = BitOf(data[pos + 1], Weight(8, i - nbits))
<1> DEFINE m == i - nbits
<1>1. m \in 0 .. 7 /\ k + i = 8 * (pos - base) + m /\ pos - base \in Nat
  OBVIOUS
<1> HIDE DEF m
<1>2. (k + i) \div 8 = pos - base /\ (k + i) % 8 = m
  BY <1>1
<1>3. base + (k + i) \div 8 + 1 = pos + 1
  BY <1>2
<1>4. Bit(k + i) = BitOf(data[pos + 1], Weight(8, m))
  BY <1>2, <1>3 DEF Bit
<1> QED BY <1>4 DEF m

(* push_byte: the byte comes behind the pending bits.                         *)
LEMMA PushedHolds ==
  ASSUME base \in Nat, pos \in Nat, nbits \in 0 .. 4, NEW k \in Nat,
         8 * (pos - base) = k + nbits, data[pos + 1] \in 0 .. 255, Holds(pending, nbits, k)
  PROVE  Holds(Pushed(data[pos + 1]), nbits + 8, k)
<1> DEFINE byte == data[pos + 1]
           z == Pushed(byte)
           n == nbits + 8
<1>0. nbits \in 0 .. 12
  OBVIOUS
<1>1. /\ pending \in Nat /\ pending \in 0 .. Pow(nbits) - 1 /\ Pow(nbits) \in Nat \ {0}
      /\ \A i \in 0 .. nbits - 1 : BitOf(pending, Weight(nbits, i)) = Bit(k + i)
  <2>1. /\ pending \in 0 .. Pow(nbits) - 1
        /\ \A i \in 0 .. nbits - 1 : BitOf(pending, Weight(nbits, i)) = Bit(k + i)
    BY DEF Holds, Pow
  <2> QED BY <1>0, <2>1, PowPositive
<1>2. Pow(n) = 256 * Pow(nbits) /\ n \in 8 .. 12 /\ n \in 0 .. 12
  BY PowOfByte
<1>3. z = IF packing = "Aal2" THEN pending * 256 + byte ELSE pending + byte * Pow(nbits)
  BY DEF Pushed, Pow
<1>4. ASSUME NEW i \in nbits .. nbits + 7
      PROVE  Bit(k + i) = BitOf(byte, Weight(8, i - nbits))
  BY NextByte
<1>5. byte \in 0 .. 255
  OBVIOUS
<1> HIDE DEF byte, z, n
<1>6. CASE packing = "Aal2"
  <2>1. Divided(z, Pow(8), pending, byte) /\ byte \in 0 .. Pow(8) - 1
    BY <1>3, <1>5, <1>6, PowTable DEF Divided
  <2>2. z \in 0 .. Pow(n) - 1
    BY <1>1, <1>2, <1>3, <1>5, <1>6
  <2>3. /\ \A v \in 0 .. 7 : BitOf(z, v) = BitOf(byte, v)
        /\ \A v \in 0 .. 12 : v + 8 <= 12 => BitOf(z, v + 8) = BitOf(pending, v)
    <3>1. 8 \in 0 .. 12 /\ 0 .. 8 - 1 = 0 .. 7
      OBVIOUS
    <3> QED BY <1>1, <2>1, <3>1, BitsOfSum
  <2>4. ASSUME NEW i \in 0 .. n - 1
        PROVE  BitOf(z, Weight(n, i)) = Bit(k + i)
    <3>1. CASE i < nbits
      <4> DEFINE v == nbits - 1 - i
      <4>1. v \in 0 .. 12 /\ v + 8 <= 12 /\ v + 8 = n - 1 - i /\ i \in 0 .. nbits - 1
        BY <3>1 DEF n
      <4>2. Weight(n, i) = v + 8 /\ Weight(nbits, i) = v
        BY <1>6, <4>1 DEF Weight
      <4> HIDE DEF v
      <4>3. BitOf(z, v + 8) = BitOf(pending, v)
        BY <2>3, <4>1
      <4> QED BY <1>1, <4>1, <4>2, <4>3
    <3>2. CASE i >= nbits
      <4> DEFINE v == n - 1 - i
      <4>1. v \in 0 .. 7 /\ 8 - 1 - (i - nbits) = v /\ i \in nbits .. nbits + 7
        BY <3>2 DEF n
      <4>2. Weight(n, i) = v /\ Weight(8, i - nbits) = v
        BY <1>6, <4>1 DEF Weight
      <4> HIDE DEF v
      <4> QED BY <1>4, <2>3, <4>1, <4>2
    <3>3. i < nbits \/ i >= nbits
      BY <1>2
    <3> QED BY <3>1, <3>2, <3>3
  <2> QED BY <1>2, <2>2, <2>4, HoldsIs DEF n, z, byte
<1>7. CASE packing # "Aal2"
  <2>1. Divided(z, Pow(nbits), byte, pending)
    BY <1>1, <1>3, <1>5, <1>7 DEF Divided
  <2>2. z \in 0 .. Pow(n) - 1
    <3>1. byte * Pow(nbits) <= 255 * Pow(nbits) /\ byte * Pow(nbits) \in Nat
      BY <1>1, <1>5, Monotone
    <3> QED BY <1>1, <1>2, <1>3, <1>7, <3>1
  <2>3. /\ \A v \in 0 .. nbits - 1 : BitOf(z, v) = BitOf(pending, v)
        /\ \A v \in 0 .. 12 : v + nbits <= 12 => BitOf(z, v + nbits) = BitOf(byte, v)
    <3>1. nbits \in 0 .. 12
      OBVIOUS
    <3>2. byte \in Nat
      BY <1>5
    <3>3. pending \in 0 .. Pow(nbits) - 1
      BY <1>1
    <3> QED BY <2>1, <3>1, <3>2, <3>3, BitsOfSum
  <2>4. ASSUME NEW i \in 0 .. n - 1
        PROVE  BitOf(z, Weight(n, i)) = Bit(k + i)
    <3>1. CASE i < nbits
      <4>1. Weight(n, i) = i /\ Weight(nbits, i) = i /\ i \in 0 .. nbits - 1
        BY <1>2, <1>7, <3>1 DEF Weight
      <4> QED BY <1>1, <2>3, <4>1
    <3>2. CASE i >= nbits
      <4> DEFINE v == i - nbits
      <4>1. v \in 0 .. 12 /\ v + nbits = i /\ v + nbits <= 12 /\ i \in nbits .. nbits + 7
        BY <3>2 DEF n
      <4>2. Weight(n, i) = i /\ Weight(8, i - nbits) = v
        BY <1>7 DEF Weight
      <4>3. Bit(k + i) = BitOf(byte, v)
        BY <1>4, <4>1, <4>2
      <4> HIDE DEF v
      <4> QED BY <2>3, <4>1, <4>2, <4>3
    <3>3. i < nbits \/ i >= nbits
      BY <1>2
    <3> QED BY <3>1, <3>2, <3>3
  <2> QED BY <1>2, <2>2, <2>4, HoldsIs DEF n, z, byte
<1> QED BY <1>6, <1>7

-----------------------------------------------------------------------------
(* The steps, once more.                                                      *)

LEMMA WordsInit ==
  ASSUME Init
  PROVE  WordsInv
<1>1. /\ data \in Seq(0 .. 255) /\ bits \in 2 .. 5
      /\ pending = 0 /\ nbits = 0 /\ last = 0 /\ codes = <<>>
  BY G726Assumption DEF Init
<1>2. SliceInData
  BY <1>1 DEF SliceInData
<1>3. Len(codes) = 0
  <2>1. Len(<<>>) = 0
    OBVIOUS
  <2> QED BY <1>1, <2>1
<1>4. PendingIsTheStream
  <2>1. pending \in 0 .. Pow(nbits) - 1 /\ nbits \in 0 .. 12
    BY <1>1, PowTable
  <2>2. \A i \in 0 .. nbits - 1 : FALSE
    BY <1>1
  <2>3. Holds(pending, nbits, Len(codes) * bits)
    BY <2>1, <2>2, HoldsIs
  <2> QED BY <2>3 DEF PendingIsTheStream
<1>5. CodesAreTheStream
  <2>1. \A i \in 1 .. Len(codes) : FALSE
    BY <1>3
  <2> QED BY <2>1 DEF CodesAreTheStream
<1> QED BY <1>2, <1>4, <1>5 DEF WordsInv

(* Codewords made stay what they are. *)
LEMMA CodesKept ==
  ASSUME CodesAreTheStream, UNCHANGED <<data, base, packing, bits, codes>>
  PROVE  CodesAreTheStream'
<1>1. SUFFICES ASSUME NEW i \in 1 .. Len(codes')
               PROVE  Holds(codes[i], bits, (i - 1) * bits)'
  BY DEF CodesAreTheStream
<1>2. Holds(codes[i], bits, (i - 1) * bits)
  BY <1>1 DEF CodesAreTheStream
<1> QED BY <1>2 DEF Holds, Bit, Weight

LEMMA QuietKeeps ==
  ASSUME WordsInv, UNCHANGED <<data, base, packing, bits, pending, nbits, codes>>,
         last' \in Nat, last' <= Len(data)
  PROVE  WordsInv'
<1>1. CodesAreTheStream'
  BY CodesKept DEF WordsInv
<1>2. SliceInData'
  BY DEF WordsInv, SliceInData
<1>3. Holds(pending, nbits, Len(codes) * bits)
  BY DEF WordsInv, PendingIsTheStream
<1>4. Holds(pending, nbits, Len(codes) * bits)'
  BY <1>3 DEF Holds, Bit, Weight
<1> QED BY <1>1, <1>2, <1>4 DEF WordsInv, PendingIsTheStream

LEMMA WordsCall ==
  ASSUME StreamInv, WordsInv, NEW n, NEW to \in Nat, Call(n, to), to <= Len(data)
  PROVE  WordsInv'
BY QuietKeeps DEF Call, input, unpacker

LEMMA WordsCalled ==
  ASSUME StreamInv, WordsInv, ReadWindow \/ NextSlice \/ CallerPushes
  PROVE  WordsInv'
<1>1. Len(data) \in Nat /\ pos \in Nat /\ last \in Nat /\ last <= Len(data)
  BY DEF StreamInv, TypeOK, WordsInv, SliceInData
<1>2. CASE ReadWindow
  <2>1. CASE pos + BytesNeeded(Window) <= Len(data)
    <3>1. pc = "loop" /\ produced < total
      BY <1>2 DEF ReadWindow
    <3>2. Window \in Nat \ {0} /\ produced + Window <= total
      BY <3>1, InLoop, WindowPositive
    <3>3. /\ bits \in 2 .. 5 /\ produced \in Nat /\ total \in Nat /\ nbits \in 0 .. 7 /\ pos \in Nat
          /\ 8 * pos = produced * bits + nbits /\ Len(data) \in Nat /\ total * bits <= 8 * Len(data)
      BY <3>1, InLoop
    <3>4. BytesNeeded(Window) \in Nat
      BY <3>2, <3>3, BytesSuffice
    <3>5. pos + BytesNeeded(Window) \in Nat
      BY <1>1, <3>4
    <3>6. Call(Window, pos + BytesNeeded(Window))
      BY <1>2, <2>1 DEF ReadWindow
    <3> QED BY <2>1, <3>5, <3>6, WordsCall
  <2>2. CASE ~(pos + BytesNeeded(Window) <= Len(data))
    <3>1. Stop("Eof")
      BY <1>2, <2>2 DEF ReadWindow
    <3> QED BY <1>1, <3>1, QuietKeeps DEF Stop, input, unpacker, call
  <2> QED BY <2>1, <2>2
<1>3. CASE NextSlice
  <2>1. PICK n : Call(n, Len(data))
    BY <1>3 DEF NextSlice
  <2> QED BY <1>1, <2>1, WordsCall
<1>4. CASE CallerPushes
  <2>1. PICK n \in Caps, to \in pos .. Len(data) : Call(n, to)
    BY <1>4 DEF CallerPushes
  <2>2. to \in Nat /\ to <= Len(data)
    BY <1>1
  <2> QED BY <2>1, <2>2, WordsCall
<1> QED BY <1>2, <1>3, <1>4

LEMMA WordsQuiet ==
  ASSUME StreamInv, WordsInv,
         \/ BeginWindows \/ BeginSlice \/ ReadFails \/ Finished \/ Returns \/ Visit \/ CallbackFails
         \/ UNCHANGED vars
  PROVE  WordsInv'
<1>1. last \in Nat /\ last <= Len(data)
  BY DEF WordsInv, SliceInData
<1>2. UNCHANGED <<input, unpacker, base, call>>
  BY Zenon DEF BeginWindows, BeginSlice, ReadFails, Finished, Returns, Visit, CallbackFails, Stop, vars
<1>3. UNCHANGED <<data, base, packing, bits, pending, nbits, codes>> /\ last' = last
  BY <1>2 DEF input, unpacker, call
<1> QED BY <1>1, <1>3, QuietKeeps

LEMMA WordsTake ==
  ASSUME StreamInv, WordsInv, TakeCode
  PROVE  WordsInv'
<1> DEFINE l == Len(codes)
           k == l * bits
           c == Taken
           x == Rest
           n == nbits - bits
<1>1. /\ driver' = driver /\ bits' = bits /\ packing' = packing /\ data' = data /\ base' = base
      /\ last' = last /\ nbits' = n /\ pending' = x /\ codes' = Append(codes, c) /\ pc = "push"
  BY DEF TakeCode, input
<1>2. /\ bits \in 2 .. 5 /\ nbits \in Nat /\ nbits >= bits /\ nbits <= bits + 7
  BY <1>1 DEF TakeCode, StreamInv, TypeOK, BitsAccounted
<1>3. PICK S : codes \in Seq(S)
  BY DEF StreamInv, TypeOK
<1>4. l \in Nat /\ Len(codes') = l + 1 /\ codes'[l + 1] = c /\ \A i \in 1 .. l : codes'[i] = codes[i]
  <2>1. codes \in Seq(S \cup {c}) /\ c \in S \cup {c}
    BY <1>3
  <2> HIDE DEF c
  <2> QED BY <1>1, <2>1
<1>5. k \in Nat /\ (l + 1) * bits = k + bits
  BY <1>2, <1>4, Monotone, Sums
<1>6. Holds(c, bits, k) /\ Holds(x, n, k + bits)
  <2>1. nbits \in bits .. 12 /\ Holds(pending, nbits, k)
    BY <1>2 DEF WordsInv, PendingIsTheStream
  <2> QED BY <1>2, <1>5, <2>1, TakenHolds, RestHolds
<1> HIDE DEF c, x, n, k
<1>7. SliceInData'
  BY <1>1 DEF WordsInv, SliceInData
<1>8. PendingIsTheStream'
  <2>1. Len(codes') * bits' = k + bits
    BY <1>1, <1>4, <1>5
  <2>2. Holds(pending, nbits, Len(codes) * bits)'
    BY <1>1, <1>6, <2>1 DEF Holds, Bit, Weight
  <2> QED BY <2>2 DEF PendingIsTheStream
<1>9. CodesAreTheStream'
  <2>1. SUFFICES ASSUME NEW i \in 1 .. Len(codes')
                 PROVE  Holds(codes[i], bits, (i - 1) * bits)'
    BY DEF CodesAreTheStream
  <2>2. CASE i \in 1 .. l
    <3>1. Holds(codes[i], bits, (i - 1) * bits) /\ codes'[i] = codes[i]
      BY <1>4, <2>2 DEF WordsInv, CodesAreTheStream
    <3> QED BY <1>1, <3>1 DEF Holds, Bit, Weight
  <2>3. CASE i = l + 1
    <3>1. codes'[i] = c /\ (i - 1) * bits' = k
      <4>1. i - 1 = l
        BY <1>4, <2>3
      <4> QED BY <1>1, <1>4, <2>3, <4>1 DEF k
    <3> QED BY <1>1, <1>6, <3>1 DEF Holds, Bit, Weight
  <2>4. i \in 1 .. l \/ i = l + 1
    BY <1>4, <2>1
  <2> QED BY <2>2, <2>3, <2>4
<1> QED BY <1>7, <1>8, <1>9 DEF WordsInv

LEMMA ElementOf ==
  ASSUME NEW S, NEW s \in Seq(S), NEW i \in 1 .. Len(s)
  PROVE  s[i] \in S
OBVIOUS

LEMMA WordsPush ==
  ASSUME StreamInv, WordsInv, PushByte
  PROVE  WordsInv'
<1> DEFINE k == Len(codes) * bits
           x == Pushed(data[pos + 1])
<1>1. /\ bits' = bits /\ packing' = packing /\ data' = data /\ base' = base /\ codes' = codes
      /\ last' = last /\ nbits' = nbits + 8 /\ pending' = x
  BY DEF PushByte, input, call
<1>2. /\ bits \in 2 .. 5 /\ pos \in Nat /\ nbits \in Nat /\ base \in Nat
      /\ nbits < bits /\ pos < last /\ last <= Len(data) /\ last \in Nat /\ data \in Seq(0 .. 255)
  BY DEF PushByte, StreamInv, TypeOK, WordsInv, SliceInData
<1>3. nbits \in 0 .. 4 /\ data[pos + 1] \in 0 .. 255
  <2>1. nbits \in 0 .. 4 /\ pos + 1 \in 1 .. Len(data)
    BY <1>2
  <2>2. data \in Seq(0 .. 255)
    BY <1>2
  <2> QED BY <2>1, <2>2, ElementOf, Zenon
<1>4. k \in Nat /\ 8 * (pos - base) = k + nbits
  <2>1. Len(codes) \in Nat
    BY Grows DEF StreamInv, TypeOK
  <2>2. k \in Nat
    BY <1>2, <2>1, Monotone
  <2> QED BY <2>2 DEF StreamInv, BitsAccounted
<1>5. Holds(x, nbits + 8, k)
  <2>1. Holds(pending, nbits, k)
    BY DEF WordsInv, PendingIsTheStream
  <2> QED BY <1>2, <1>3, <1>4, <2>1, PushedHolds
<1>6. PendingIsTheStream'
  <2>1. Len(codes') * bits' = k
    BY <1>1
  <2> HIDE DEF k, x
  <2>2. Holds(pending, nbits, Len(codes) * bits)'
    BY <1>1, <1>5, <2>1 DEF Holds, Bit, Weight
  <2> QED BY <2>2 DEF PendingIsTheStream
<1>7. SliceInData'
  BY <1>1 DEF WordsInv, SliceInData
<1>8. CodesAreTheStream'
  BY <1>1, CodesKept DEF WordsInv
<1> QED BY <1>6, <1>7, <1>8 DEF WordsInv

LEMMA WordsReset ==
  ASSUME StreamInv, WordsInv, FinishOrReset
  PROVE  WordsInv'
<1>1. /\ data' = data /\ last' = last /\ codes' = <<>> /\ pending' = 0 /\ nbits' = 0
  BY DEF FinishOrReset, Cleared, input, call
<1>2. SliceInData'
  BY <1>1 DEF WordsInv, SliceInData
<1>3. Len(codes') = 0
  <2>1. Len(<<>>) = 0
    OBVIOUS
  <2> QED BY <1>1, <2>1
<1>4. Holds(pending, nbits, Len(codes) * bits)'
  <2>1. pending' \in 0 .. 2 ^ nbits' - 1
    <3>1. 2 ^ nbits' = 1
      BY <1>1, PowTable DEF Pow
    <3> QED BY <1>1, <3>1
  <2>2. \A i \in 0 .. nbits' - 1 : FALSE
    BY <1>1
  <2> QED BY <2>1, <2>2 DEF Holds
<1>5. CodesAreTheStream'
  <2>1. \A i \in 1 .. Len(codes') : FALSE
    BY <1>3
  <2> QED BY <2>1 DEF CodesAreTheStream
<1> QED BY <1>2, <1>4, <1>5 DEF WordsInv, PendingIsTheStream

(* g726/unpack.rs, the unpacker under push and its drivers: the codewords made     *)
(* since the last finish or reset are those of the bit stream, in either packing    *)
(* and for every codeword width, however the bytes are cut into pushes and the      *)
(* samples into buffers.                                                     *)
THEOREM CodewordsAreTheStream == Spec => []CodesAreTheStream
<1>1. Init => WordsInv
  BY WordsInit
<1>2. StreamInv /\ WordsInv /\ [Next]_vars => WordsInv'
  <2> SUFFICES ASSUME StreamInv, WordsInv, [Next]_vars
               PROVE  WordsInv'
    OBVIOUS
  <2>1. CASE ReadWindow \/ NextSlice \/ CallerPushes
    BY <2>1, WordsCalled
  <2>2. CASE \/ BeginWindows \/ BeginSlice \/ ReadFails \/ Finished \/ Returns \/ Visit \/ CallbackFails
             \/ UNCHANGED vars
    BY <2>2, WordsQuiet
  <2>3. CASE TakeCode
    BY <2>3, WordsTake
  <2>4. CASE PushByte
    BY <2>4, WordsPush
  <2>5. CASE FinishOrReset
    BY <2>5, WordsReset
  <2> QED BY <2>1, <2>2, <2>3, <2>4, <2>5, Zenon DEF Next
<1>3. WordsInv => CodesAreTheStream
  BY DEF WordsInv
<1> QED BY <1>1, <1>2, <1>3, StreamInvariant, PTL DEF Spec
=============================================================================
