---------------------------- MODULE SourceProofs ----------------------------
(***************************************************************************)
(* Theorems about ByteSource, for files, requests and scratch buffers of every  *)
(* size, and about the walk over a Wave64 file (W64Walk) that stands on it.     *)
(***************************************************************************)
EXTENDS ByteSource, W64Walk, SequenceTheorems, TLAPS

-----------------------------------------------------------------------------
LEMMA Numerals ==
  /\ WordMax \in Nat /\ SeekThreshold \in Nat \ {0} /\ ScratchLen \in Nat \ {0}
  /\ \A n \in FileLens : n \in Nat /\ n + 8 <= WordMax
  /\ \A n \in Requests : n \in Nat
BY SourceAssumption, ByteSourceAssumption

(* Places of neighbouring stretches of the file.                             *)
LEMMA PlacesType ==
  ASSUME NEW p \in Nat, NEW n \in Nat
  PROVE  Places(p, n) \in Seq(Nat) /\ Len(Places(p, n)) = n
<1>1. \A i \in 1 .. n : p + i - 1 \in Nat
  OBVIOUS
<1> QED BY <1>1 DEF Places

LEMMA PlacesJoin ==
  ASSUME NEW p \in Nat, NEW n \in Nat, NEW m \in Nat
  PROVE  Places(p, n) \o Places(p + n, m) = Places(p, n + m)
<1> DEFINE a == Places(p, n)
           b == Places(p + n, m)
           c == Places(p, n + m)
<1>1. a \in Seq(Nat) /\ Len(a) = n /\ b \in Seq(Nat) /\ Len(b) = m
      /\ c \in Seq(Nat) /\ Len(c) = n + m
  <2>1. a \in Seq(Nat) /\ Len(a) = n
    BY PlacesType
  <2>2. b \in Seq(Nat) /\ Len(b) = m
    <3>1. p + n \in Nat
      OBVIOUS
    <3> QED BY <3>1, PlacesType
  <2>3. c \in Seq(Nat) /\ Len(c) = n + m
    <3>1. n + m \in Nat
      OBVIOUS
    <3> QED BY <3>1, PlacesType
  <2> QED BY <2>1, <2>2, <2>3
<1>2. /\ a \o b \in Seq(Nat) /\ Len(a \o b) = n + m
      /\ \A i \in 1 .. (n + m) : (a \o b)[i] = IF i <= n THEN a[i] ELSE b[i - n]
  <2> HIDE DEF a, b
  <2> QED BY <1>1, ConcatProperties
<1>3. ASSUME NEW i \in 1 .. (n + m)
      PROVE  (a \o b)[i] = c[i]
  <2>1. c[i] = p + i - 1
    BY DEF Places
  <2>2. i <= n => a[i] = p + i - 1
    BY DEF Places
  <2>3. i > n => b[i - n] = p + i - 1
    BY DEF Places
  <2> HIDE DEF a, b, c
  <2> QED BY <1>2, <2>1, <2>2, <2>3
<1> HIDE DEF a, b, c
<1>4. a \o b = c
  BY <1>1, <1>2, <1>3, SeqEqual
<1> QED BY <1>4 DEF a, b, c

LEMMA NoPlaces ==
  ASSUME NEW p \in Nat
  PROVE  Places(p, 0) = <<>>
<1>1. Places(p, 0) \in Seq(Nat) /\ Len(Places(p, 0)) = 0
  BY PlacesType
<1> QED BY <1>1, EmptySeq

-----------------------------------------------------------------------------
(* The variables of the contract, as ByteSource presents them.               *)
Settled == IF op = "idle" THEN pos ELSE from

contractVars == <<source, Settled, Ahead, answer>>

ContractStep == Contract!Next \/ UNCHANGED contractVars

(* StopsShort(n) of the contract: a part of n bytes was consumed.            *)
Short(n) ==
  /\ Settled' \in Settled .. (Settled + n - 1) /\ UNCHANGED Ahead
  /\ Settled' = Settled \/ Settled' + Ahead <= fileLen

(* The contract's actions, one lemma each.                                   *)
LEMMA IsRead ==
  ASSUME NEW n \in Requests, UNCHANGED source, Has(Settled + Ahead, n),
         Settled' = Settled + n, UNCHANGED Ahead,
         answer' = Answer("read", n, "Ok", Places(Settled + Ahead, n))
  PROVE  ContractStep
<1>1. Contract!Reads(n)
  BY DEF Contract!Reads, Contract!MovesOn, Contract!Place, Contract!Answer, Contract!Places,
         Contract!Has, Has, Answer, Places, Settled
<1> QED BY <1>1 DEF ContractStep, Contract!Next, Contract!source, source

LEMMA IsSkip ==
  ASSUME NEW n \in Requests, UNCHANGED source, Has(Settled + Ahead, n),
         Settled' = Settled + n, UNCHANGED Ahead, answer' = Answer("skip", n, "Ok", <<>>)
  PROVE  ContractStep
<1>1. Contract!Skips(n)
  BY DEF Contract!Skips, Contract!MovesOn, Contract!Place, Contract!Answer,
         Contract!Has, Has, Answer, Settled
<1> QED BY <1>1 DEF ContractStep, Contract!Next, Contract!source, source

LEMMA IsJump ==
  ASSUME NEW n \in Requests, UNCHANGED source, n >= SeekThreshold, CanSkip(Settled, n),
         Settled' = SatAdd(Settled, n), Ahead' = 0, answer' = Answer("skip", n, "Ok", <<>>)
  PROVE  ContractStep
<1>1. Contract!Skips(n)
  BY DEF Contract!Skips, Contract!Jumps, Contract!Answer, Contract!CanSkip, Contract!Has,
         Contract!SatAdd, Contract!Least, CanSkip, Has, SatAdd, Least, Answer, Settled
<1> QED BY <1>1 DEF ContractStep, Contract!Next, Contract!source, source

LEMMA IsEndsEarly ==
  ASSUME NEW n \in Requests, NEW method \in {"read", "skip"}, UNCHANGED source,
         ~Has(Settled + Ahead, n), Short(n), answer' = Answer(method, n, "Eof", <<>>)
  PROVE  ContractStep
<1>1. Contract!EndsEarly(method, n)
  BY DEF Contract!EndsEarly, Contract!StopsShort, Contract!Place, Contract!Answer,
         Contract!Has, Short, Has, Answer, Settled
<1> QED BY <1>1 DEF ContractStep, Contract!Next, Contract!source, source

LEMMA IsBreaksOff ==
  ASSUME NEW n \in Requests, NEW method \in {"read", "skip"}, UNCHANGED source,
         Short(n), answer' = Answer(method, n, "Io", <<>>)
  PROVE  ContractStep
<1>1. Contract!BreaksOff(method, n)
  BY DEF Contract!BreaksOff, Contract!StopsShort, Contract!Answer, Short, Answer, Settled
<1> QED BY <1>1 DEF ContractStep, Contract!Next, Contract!source, source

LEMMA IsSeek ==
  ASSUME NEW p \in 0 .. fileLen, UNCHANGED source, Settled' = p, Ahead' = 0,
         answer' = Answer("seek", p, "Ok", <<>>)
  PROVE  ContractStep
<1>1. Contract!Seeks(p)
  BY DEF Contract!Seeks, Contract!Answer, Answer, Settled
<1> QED BY <1>1 DEF ContractStep, Contract!Next, Contract!source, source

LEMMA IsSeekBreaksOff ==
  ASSUME NEW p \in 0 .. fileLen, UNCHANGED source, UNCHANGED <<Settled, Ahead>>,
         answer' = Answer("seek", p, "Io", <<>>)
  PROVE  ContractStep
<1>1. Contract!SeekBreaksOff(p)
  BY DEF Contract!SeekBreaksOff, Contract!Answer, Answer, Settled
<1> QED BY <1>1 DEF ContractStep, Contract!Next, Contract!source, source

-----------------------------------------------------------------------------
(* Each action keeps the invariant and does what the contract allows.        *)

LEMMA InvFacts ==
  ASSUME SourceInv
  PROVE  /\ fileLen \in Nat /\ fileLen + 8 <= WordMax /\ WordMax \in Nat
         /\ pos \in 0 .. WordMax /\ cur \in 0 .. WordMax /\ from \in 0 .. WordMax
         /\ want \in Nat /\ left \in 0 .. want
         /\ backing \in {"Memory", "Reader"} /\ Ahead \in Nat
<1>1. /\ fileLen \in Nat /\ fileLen + 8 <= WordMax /\ WordMax \in Nat
      /\ pos \in 0 .. WordMax /\ cur \in 0 .. WordMax /\ from \in 0 .. WordMax
      /\ want \in Nat /\ left \in 0 .. want
      /\ backing \in {"Memory", "Reader"}
  BY Numerals DEF SourceInv, TypeOK, SourceTypeOK
<1>2. Ahead \in Nat
  BY <1>1 DEF SourceInv, NotAhead, Ahead
<1> QED BY <1>1, <1>2

LEMMA StartStep ==
  ASSUME SourceInv, NEW o \in {"read", "discard", "advance", "seek"}, NEW n \in Nat,
         Start(o, n),
         o \in {"read", "discard", "advance"} => n \in Requests /\ n > 0,
         o = "advance" => n >= SeekThreshold /\ ~BeyondEnd(n),
         o = "seek" => n \in 0 .. fileLen
  PROVE  SourceInv' /\ ContractStep
<1>1. /\ op = "idle" /\ op' = o /\ want' = n /\ left' = n /\ from' = pos /\ got' = <<>>
      /\ UNCHANGED <<source, pos, backing, cur, blind, answer>>
      /\ fileLen' = fileLen /\ lengthKnown' = lengthKnown
  BY DEF Start, source
<1>2. TypeOK'
  BY <1>1 DEF SourceInv, TypeOK, SourceTypeOK
<1>3. CallInv'
  BY <1>1, InvFacts DEF CallInv, BeyondEnd
<1>4. GotInv'
  <2>1. Ahead' = Ahead /\ from' + Ahead' \in Nat /\ want' - left' = 0
    BY <1>1, InvFacts DEF Ahead
  <2>2. got' = Places(from' + Ahead', want' - left')
    BY <1>1, <2>1, NoPlaces
  <2> QED BY <1>1, <2>2, InvFacts DEF GotInv
<1>5. PosIsCursor' /\ NotAhead'
  BY <1>1 DEF SourceInv, PosIsCursor, NotAhead
<1>6. UNCHANGED contractVars
  BY <1>1 DEF contractVars, Settled, Ahead
<1> QED BY <1>2, <1>3, <1>4, <1>5, <1>6 DEF SourceInv, ContractStep

LEMMA AtOnceStep ==
  ASSUME SourceInv, NEW method \in {"read", "skip"}, NEW n \in Requests,
         NEW outcome, NEW bytes, AtOnce(method, n, outcome, bytes),
         \/ /\ method = "read" /\ outcome = "Ok" /\ bytes = Places(pos, n)
            /\ Has(pos, n) /\ pos' = pos + n /\ backing = "Memory"
         \/ n = 0 /\ outcome = "Ok" /\ bytes = <<>> /\ pos' = pos
         \/ n > 0 /\ outcome = "Eof" /\ bytes = <<>> /\ pos' = pos /\ ~Has(pos, n)
  PROVE  SourceInv' /\ ContractStep
<1>1. /\ op = "idle" /\ op' = "idle" /\ want' = n /\ left' = n /\ from' = pos
      /\ answer' = Answer(method, n, outcome, bytes)
      /\ UNCHANGED <<source, backing, cur, blind>>
      /\ fileLen' = fileLen /\ lengthKnown' = lengthKnown
  BY DEF AtOnce, source
<1>2. n \in Nat /\ pos' \in 0 .. WordMax
  BY Numerals, InvFacts DEF Has
<1>3. answer'.outcome \in {"Ok", "Eof", "Io"}
  BY <1>1 DEF Answer
<1>4. TypeOK'
  BY <1>1, <1>2, <1>3 DEF SourceInv, TypeOK, SourceTypeOK
<1>5. CallInv' /\ GotInv'
  BY <1>1 DEF CallInv, GotInv
<1>6. PosIsCursor' /\ NotAhead'
  BY <1>1, InvFacts DEF SourceInv, PosIsCursor, NotAhead, TypeOK
<1>7. Settled = pos /\ Settled' = pos' /\ pos \in Nat /\ Ahead \in Nat
  BY <1>1, InvFacts DEF Settled
<1>8. ASSUME method = "read", outcome = "Ok", bytes = Places(pos, n), Has(pos, n),
             pos' = pos + n, backing = "Memory"
      PROVE  ContractStep
  <2>1. Ahead = 0 /\ Ahead' = 0 /\ Settled + Ahead = pos
    BY <1>1, <1>7, <1>8 DEF Ahead
  <2>2. Has(Settled + Ahead, n) /\ bytes = Places(Settled + Ahead, n)
    BY <1>8, <2>1
  <2>3. answer' = Answer("read", n, "Ok", Places(Settled + Ahead, n))
    BY <1>1, <1>8, <2>2
  <2>4. Settled' = Settled + n
    BY <1>7, <1>8
  <2> QED BY <1>1, <2>1, <2>2, <2>3, <2>4, IsRead
<1>9. ASSUME n = 0, outcome = "Ok", bytes = <<>>, pos' = pos PROVE ContractStep
  <2>1. Ahead' = Ahead
    BY <1>1, <1>9 DEF Ahead
  <2>2. Has(Settled + Ahead, n) /\ Settled' = Settled + n
    BY <1>7, <1>9 DEF Has
  <2>3. CASE method = "skip"
    BY <1>1, <1>9, <2>1, <2>2, <2>3, IsSkip
  <2>4. CASE method = "read"
    <3>1. Places(Settled + Ahead, n) = <<>>
      BY <1>7, <1>9, NoPlaces
    <3> QED BY <1>1, <1>9, <2>1, <2>2, <2>4, <3>1, IsRead
  <2> QED BY <2>3, <2>4
<1>10. ASSUME n > 0, outcome = "Eof", bytes = <<>>, pos' = pos, ~Has(pos, n)
       PROVE  ContractStep
  <2>1. Ahead' = Ahead
    BY <1>1, <1>10 DEF Ahead
  <2>2. ~Has(Settled + Ahead, n)
    BY <1>2, <1>7, <1>10, InvFacts DEF Has
  <2>3. Short(n)
    BY <1>2, <1>7, <1>10, <2>1 DEF Short
  <2>4. answer' = Answer(method, n, "Eof", <<>>)
    BY <1>1, <1>10
  <2> QED BY <1>1, <2>2, <2>3, <2>4, IsEndsEarly
<1>11. SourceInv'
  BY <1>4, <1>5, <1>6 DEF SourceInv
<1> QED BY <1>8, <1>9, <1>10, <1>11

LEMMA CallStep ==
  ASSUME SourceInv, ReadExact \/ ReadWindow \/ IgnoreBytes \/ SeekTo
  PROVE  SourceInv' /\ ContractStep
<1>1. pos \in Nat /\ pos <= WordMax /\ fileLen \in Nat /\ fileLen + 8 <= WordMax
  BY InvFacts
<1>2. <<>> = Places(pos, 0) /\ Has(pos, 0)
  BY <1>1, NoPlaces DEF Has
<1>3. \A n \in Requests : n \in Nat
  BY Numerals
<1>4. CASE ReadExact
  <2>1. PICK n \in Requests :
           IF n = 0 THEN AtOnce("read", 0, "Ok", <<>>) /\ UNCHANGED pos ELSE Start("read", n)
    BY <1>4 DEF ReadExact
  <2>2. CASE n = 0
    BY <2>1, <2>2, <1>1, <1>2, AtOnceStep
  <2>3. CASE n # 0
    BY <2>1, <2>3, <1>3, StartStep
  <2> QED BY <2>2, <2>3
<1>5. CASE ReadWindow
  <2>1. PICK n \in Requests :
           IF backing = "Reader" /\ n > 0 THEN Start("read", n)
           ELSE IF Has(pos, n) THEN AtOnce("read", n, "Ok", Places(pos, n)) /\ pos' = pos + n
           ELSE AtOnce("read", n, "Eof", <<>>) /\ UNCHANGED pos
    BY <1>5 DEF ReadWindow
  <2>2. CASE backing = "Reader" /\ n > 0
    BY <2>1, <2>2, <1>3, StartStep
  <2>3. CASE ~(backing = "Reader" /\ n > 0) /\ Has(pos, n)
    <3>1. AtOnce("read", n, "Ok", Places(pos, n)) /\ pos' = pos + n
      BY <2>1, <2>3
    <3>2. CASE backing = "Memory"
      BY <2>3, <3>1, <3>2, AtOnceStep
    <3>3. CASE n = 0
      <4>1. Places(pos, n) = <<>> /\ pos' = pos
        BY <1>1, <1>2, <3>1, <3>3
      <4> QED BY <3>1, <3>3, <4>1, AtOnceStep
    <3> QED BY <1>3, <2>3, <3>2, <3>3, InvFacts
  <2>4. CASE ~(backing = "Reader" /\ n > 0) /\ ~Has(pos, n)
    <3>1. AtOnce("read", n, "Eof", <<>>) /\ pos' = pos /\ n > 0
      BY <1>3, <2>1, <2>4 DEF Has
    <3> QED BY <2>4, <3>1, AtOnceStep
  <2> QED BY <2>2, <2>3, <2>4
<1>6. CASE IgnoreBytes
  <2>1. PICK n \in Requests :
           IF n = 0 THEN AtOnce("skip", 0, "Ok", <<>>) /\ UNCHANGED pos
           ELSE IF n < SeekThreshold THEN Start("discard", n)
           ELSE IF BeyondEnd(n) THEN AtOnce("skip", n, "Eof", <<>>) /\ UNCHANGED pos
           ELSE Start("advance", n)
    BY <1>6 DEF IgnoreBytes
  <2>2. CASE n = 0
    BY <2>1, <2>2, <1>1, <1>2, AtOnceStep
  <2>3. CASE n # 0 /\ n < SeekThreshold
    BY <2>1, <2>3, <1>3, StartStep
  <2>4. CASE n # 0 /\ ~(n < SeekThreshold) /\ BeyondEnd(n)
    <3>1. ~Has(pos, n) /\ n > 0
      BY <2>4, <1>1, <1>3, Numerals DEF BeyondEnd, SatAdd, Least, Has
    <3> QED BY <2>1, <2>4, <3>1, AtOnceStep
  <2>5. CASE n # 0 /\ ~(n < SeekThreshold) /\ ~BeyondEnd(n)
    BY <2>1, <2>5, <1>3, Numerals, StartStep
  <2> QED BY <2>2, <2>3, <2>4, <2>5
<1>7. CASE SeekTo
  <2>1. PICK p \in 0 .. fileLen : Start("seek", p)
    BY <1>7 DEF SeekTo
  <2> QED BY <2>1, <1>1, StartStep
<1> QED BY <1>4, <1>5, <1>6, <1>7

-----------------------------------------------------------------------------
(* What one inner read delivers.                                             *)
LEMMA DeliverableFacts ==
  ASSUME SourceInv, op \in {"read", "discard"}, NEW m \in Deliverable
  PROVE  /\ m \in Nat /\ m <= left /\ Here \in Nat
         /\ m = 0 => Here >= fileLen
         /\ m > 0 => Here + m <= fileLen
<1>1. left \in Nat /\ left > 0 /\ pos \in Nat /\ cur \in Nat /\ fileLen \in Nat
  BY InvFacts DEF SourceInv, CallInv
<1>2. Here \in Nat
  BY <1>1 DEF Here
<1>3. Asked \in Nat /\ Asked > 0 /\ Asked <= left
  BY <1>1, Numerals DEF Asked, Least
<1>4. CASE Here >= fileLen
  BY <1>1, <1>2, <1>4 DEF Deliverable
<1>5. CASE ~(Here >= fileLen)
  <2>1. /\ Least(Asked, fileLen - Here) \in Nat \ {0}
        /\ Least(Asked, fileLen - Here) <= left
        /\ Here + Least(Asked, fileLen - Here) <= fileLen
    BY <1>1, <1>2, <1>3, <1>5 DEF Least
  <2>2. m \in 1 .. Least(Asked, fileLen - Here)
    BY <2>1, <1>5 DEF Deliverable
  <2> QED BY <1>1, <1>2, <2>1, <2>2
<1> QED BY <1>4, <1>5

LEMMA InnerReadStep ==
  ASSUME SourceInv, InnerRead
  PROVE  SourceInv' /\ ContractStep
<1>1. /\ op \in {"read", "discard"}
      /\ UNCHANGED <<source, backing, want, from, blind>>
      /\ fileLen' = fileLen /\ lengthKnown' = lengthKnown
  BY DEF InnerRead, source
<1>2. PICK m \in Deliverable :
         /\ CountRead(m)
         /\ left' = left - m /\ got' = got \o Places(Here, m)
         /\ IF EndOfFile(m) THEN Return("Eof", <<>>)
            ELSE IF left' > 0 THEN UNCHANGED <<op, answer>>
            ELSE Return("Ok", IF op = "read" THEN got' ELSE <<>>)
  BY DEF InnerRead
<1>3. /\ m \in Nat /\ m <= left /\ Here \in Nat
      /\ m = 0 => Here >= fileLen
      /\ m > 0 => Here + m <= fileLen
  BY <1>1, DeliverableFacts
<1>4. /\ fileLen \in Nat /\ fileLen + 8 <= WordMax /\ WordMax \in Nat
      /\ pos \in 0 .. WordMax /\ cur \in 0 .. WordMax /\ from \in 0 .. WordMax
      /\ want \in Nat /\ left \in 0 .. want
      /\ backing \in {"Memory", "Reader"} /\ Ahead \in Nat
  BY InvFacts
<1>5. pos' = pos + m /\ cur' = (IF backing = "Memory" THEN cur ELSE cur + m)
  BY <1>2 DEF CountRead
<1>6. backing = "Reader" => pos <= cur
  BY DEF SourceInv, NotAhead
<1>7. pos' \in 0 .. WordMax /\ cur' \in 0 .. WordMax
  BY <1>3, <1>4, <1>5, <1>6 DEF Here, SourceInv, TypeOK
<1>8. left > 0 /\ pos = from + (want - left) /\ want \in Requests
  BY <1>1 DEF SourceInv, CallInv
<1>9. left' \in 0 .. want
  BY <1>2, <1>3, <1>4
<1> DEFINE method == IF op = "read" THEN "read" ELSE "skip"
<1>10. \/ m = 0 /\ op' = "idle" /\ answer' = Answer(method, want, "Eof", <<>>)
       \/ m > 0 /\ left' > 0 /\ op' = op /\ answer' = answer
       \/ /\ m > 0 /\ left' = 0 /\ op' = "idle"
          /\ answer' = Answer(method, want, "Ok", IF op = "read" THEN got' ELSE <<>>)
  BY <1>1, <1>2, <1>3, <1>4, <1>9 DEF EndOfFile, Return, Method
<1>11. answer'.outcome \in {"Ok", "Eof", "Io"}
  BY <1>10 DEF Answer, SourceInv, TypeOK
<1>12. TypeOK'
  BY <1>1, <1>4, <1>7, <1>9, <1>10, <1>11 DEF SourceInv, TypeOK, SourceTypeOK
<1>13. NotAhead' /\ PosIsCursor'
  BY <1>1, <1>3, <1>4, <1>5 DEF SourceInv, NotAhead, PosIsCursor, TypeOK
<1>14. CallInv'
  BY <1>1, <1>2, <1>3, <1>4, <1>5, <1>8, <1>10 DEF CallInv
<1>15. Here = pos + Ahead /\ Ahead' = Ahead
  BY <1>1, <1>3, <1>4, <1>5 DEF Here, Ahead
<1>16. got' = Places(from + Ahead, want - left')
  <2>1. got = Places(from + Ahead, want - left)
    BY <1>1 DEF SourceInv, GotInv
  <2>2. want - left \in Nat /\ from + Ahead \in Nat
    BY <1>4
  <2>3. Here = (from + Ahead) + (want - left)
    BY <1>4, <1>8, <1>15
  <2>4. got' = Places(from + Ahead, want - left) \o Places((from + Ahead) + (want - left), m)
    BY <1>2, <2>1, <2>3
  <2>5. got' = Places(from + Ahead, (want - left) + m)
    BY <1>3, <2>2, <2>4, PlacesJoin
  <2>6. (want - left) + m = want - left'
    BY <1>2, <1>3, <1>4
  <2> QED BY <2>5, <2>6
<1>17. GotInv'
  <2>1. ASSUME op' # "idle" PROVE pos' + Ahead' <= fileLen
    BY <1>3, <1>4, <1>5, <1>10, <1>15, <2>1
  <2> QED BY <1>1, <1>15, <1>16, <2>1 DEF GotInv
<1>18. ContractStep
  <2>1. Settled = from
    BY <1>1 DEF Settled
  <2>2. CASE m = 0 /\ op' = "idle" /\ answer' = Answer(method, want, "Eof", <<>>)
    <3>1. pos + Ahead >= fileLen /\ pos' = pos
      BY <1>3, <1>4, <1>5, <1>15, <2>2
    <3>2. ~Has(Settled + Ahead, want)
      BY <2>1, <3>1, <1>4, <1>8 DEF Has
    <3>3. pos + Ahead <= fileLen \/ pos = from
      BY <1>1, <1>4, <1>8 DEF SourceInv, GotInv
    <3>4. Settled' = pos'
      BY <2>2 DEF Settled
    <3>5. Short(want)
      BY <1>4, <1>8, <1>15, <2>1, <3>1, <3>3, <3>4 DEF Short
    <3> QED BY <1>1, <1>8, <2>2, <3>2, <3>5, IsEndsEarly
  <2>3. CASE m > 0 /\ left' > 0 /\ op' = op /\ answer' = answer
    BY <1>1, <1>15, <2>3 DEF ContractStep, contractVars, Settled
  <2>4. CASE /\ m > 0 /\ left' = 0 /\ op' = "idle"
             /\ answer' = Answer(method, want, "Ok", IF op = "read" THEN got' ELSE <<>>)
    <3>1. pos' = from + want /\ (from + Ahead) + want <= fileLen
      BY <1>2, <1>3, <1>4, <1>5, <1>8, <1>15, <2>4
    <3>2. Settled' = Settled + want /\ Has(Settled + Ahead, want)
      BY <2>1, <2>4, <3>1, <1>4 DEF Settled, Has
    <3>3. CASE op = "read"
      <4>1. want - left' = want
        BY <1>4, <2>4
      <4>2. got' = Places(Settled + Ahead, want)
        BY <1>16, <2>1, <4>1
      <4>3. answer' = Answer("read", want, "Ok", Places(Settled + Ahead, want))
        BY <2>4, <3>3, <4>2
      <4> QED BY <1>1, <1>8, <1>15, <3>2, <4>3, IsRead
    <3>4. CASE op = "discard"
      <4>1. answer' = Answer("skip", want, "Ok", <<>>)
        BY <2>4, <3>4
      <4> QED BY <1>1, <1>8, <1>15, <3>2, <4>1, IsSkip
    <3> QED BY <1>1, <3>3, <3>4
  <2> QED BY <1>10, <2>2, <2>3, <2>4
<1> QED BY <1>12, <1>13, <1>14, <1>17, <1>18 DEF SourceInv

(* A failed read or seek leaves everything but the answer.                   *)
LEMMA FailStep ==
  ASSUME SourceInv, InnerReadFails \/ SeekFails
  PROVE  SourceInv' /\ ContractStep
<1>1. /\ op \in {"read", "discard", "seek"} /\ op' = "idle"
      /\ answer' = Answer(Method, want, "Io", <<>>)
      /\ UNCHANGED <<source, pos, backing, cur, want, left, from, got, blind>>
      /\ fileLen' = fileLen /\ lengthKnown' = lengthKnown
  BY DEF InnerReadFails, SeekFails, Return, source
<1>2. answer'.outcome \in {"Ok", "Eof", "Io"}
  BY <1>1 DEF Answer
<1>3. TypeOK'
  BY <1>1, <1>2 DEF SourceInv, TypeOK, SourceTypeOK
<1>4. CallInv' /\ GotInv' /\ NotAhead' /\ PosIsCursor'
  BY <1>1 DEF SourceInv, CallInv, GotInv, NotAhead, PosIsCursor
<1>5. Settled = from /\ Settled' = pos /\ Ahead' = Ahead
  BY <1>1 DEF Settled, Ahead
<1>6. ASSUME op \in {"read", "discard"} PROVE ContractStep
  <2>1. /\ want \in Requests /\ pos = from + (want - left) /\ left \in 0 .. want
        /\ left > 0 /\ from \in Nat /\ want \in Nat
        /\ left < want => pos + Ahead <= fileLen
    BY <1>6, InvFacts DEF SourceInv, CallInv, GotInv
  <2>2. Short(want)
    BY <1>5, <2>1 DEF Short
  <2>3. Method \in {"read", "skip"}
    BY <1>6 DEF Method
  <2> QED BY <1>1, <2>1, <2>2, <2>3, IsBreaksOff
<1>7. ASSUME op = "seek" PROVE ContractStep
  <2>1. UNCHANGED <<Settled, Ahead>> /\ want \in 0 .. fileLen
    BY <1>5, <1>7 DEF SourceInv, CallInv
  <2>2. answer' = Answer("seek", want, "Io", <<>>)
    BY <1>1, <1>7 DEF Method
  <2> QED BY <1>1, <2>1, <2>2, IsSeekBreaksOff
<1> QED BY <1>1, <1>3, <1>4, <1>6, <1>7 DEF SourceInv

LEMMA InnerSeekStep ==
  ASSUME SourceInv, InnerSeek
  PROVE  SourceInv' /\ ContractStep
<1>1. /\ op \in {"advance", "seek"} /\ op' = "idle"
      /\ answer' = Answer(Method, want, "Ok", <<>>)
      /\ pos' = Target /\ cur' = (IF backing = "Memory" THEN cur ELSE Target)
      /\ blind' = FALSE
      /\ UNCHANGED <<source, backing, want, left, from, got>>
      /\ fileLen' = fileLen /\ lengthKnown' = lengthKnown
  BY DEF InnerSeek, Return, source
<1>2. /\ fileLen \in Nat /\ fileLen + 8 <= WordMax /\ WordMax \in Nat
      /\ pos \in 0 .. WordMax /\ want \in Nat /\ from = pos
      /\ op = "seek" => want \in 0 .. fileLen
  BY <1>1, InvFacts DEF SourceInv, CallInv
<1>3. Target \in 0 .. WordMax
  BY <1>1, <1>2 DEF Target, SatAdd, Least
<1>4. answer'.outcome \in {"Ok", "Eof", "Io"}
  BY <1>1 DEF Answer
<1>5. TypeOK'
  BY <1>1, <1>3, <1>4 DEF SourceInv, TypeOK, SourceTypeOK
<1>6. CallInv' /\ GotInv' /\ NotAhead' /\ PosIsCursor'
  BY <1>1, <1>3 DEF CallInv, GotInv, NotAhead, PosIsCursor, SourceInv, TypeOK
<1>7. Settled = pos /\ Settled' = Target /\ Ahead' = 0
  BY <1>1, <1>2, <1>3 DEF Settled, Ahead
<1>8. ASSUME op = "advance" PROVE ContractStep
  <2>1. want \in Requests /\ want >= SeekThreshold /\ ~BeyondEnd(want)
    BY <1>8 DEF SourceInv, CallInv
  <2>2. CanSkip(pos, want)
    BY <1>2, <2>1 DEF BeyondEnd, CanSkip, Has, SatAdd, Least, SourceInv, TypeOK, SourceTypeOK
  <2>3. CanSkip(Settled, want) /\ Settled' = SatAdd(Settled, want)
    BY <1>7, <1>8, <2>2 DEF Target
  <2>4. answer' = Answer("skip", want, "Ok", <<>>)
    BY <1>1, <1>8 DEF Method
  <2> QED BY <1>1, <1>7, <2>1, <2>3, <2>4, IsJump
<1>9. ASSUME op = "seek" PROVE ContractStep
  <2>1. want \in 0 .. fileLen /\ Settled' = want
    BY <1>2, <1>7, <1>9 DEF Target
  <2>2. answer' = Answer("seek", want, "Ok", <<>>)
    BY <1>1, <1>9 DEF Method
  <2> QED BY <1>1, <1>7, <2>1, <2>2, IsSeek
<1> QED BY <1>1, <1>5, <1>6, <1>8, <1>9 DEF SourceInv

(* A skip that falls back to reading has so far read nothing.               *)
LEMMA AdvanceFailsStep ==
  ASSUME SourceInv, AdvanceFails
  PROVE  SourceInv' /\ ContractStep
<1>1. /\ op = "advance" /\ op' = "discard"
      /\ UNCHANGED <<source, pos, backing, cur, want, left, from, got, blind, answer>>
      /\ fileLen' = fileLen /\ lengthKnown' = lengthKnown
  BY DEF AdvanceFails, source
<1>2. TypeOK'
  BY <1>1 DEF SourceInv, TypeOK, SourceTypeOK
<1>3. CallInv'
  BY <1>1, InvFacts, Numerals DEF SourceInv, CallInv
<1>4. got = <<>> /\ want = left /\ from \in Nat
  BY <1>1, InvFacts DEF SourceInv, CallInv, GotInv
<1>5. GotInv'
  <2>1. Ahead' = Ahead /\ from + Ahead \in Nat /\ want' - left' = 0
    BY <1>1, <1>4, InvFacts DEF Ahead
  <2>2. got' = Places(from' + Ahead', want' - left')
    BY <1>1, <1>4, <2>1, NoPlaces
  <2> QED BY <1>1, <1>4, <2>2, InvFacts DEF GotInv
<1>6. NotAhead' /\ PosIsCursor'
  BY <1>1 DEF SourceInv, NotAhead, PosIsCursor
<1>7. UNCHANGED contractVars
  BY <1>1 DEF contractVars, Settled, Ahead
<1> QED BY <1>2, <1>3, <1>5, <1>6, <1>7 DEF SourceInv, ContractStep

LEMMA StutterStep ==
  ASSUME SourceInv, UNCHANGED vars
  PROVE  SourceInv' /\ ContractStep
<1>1. /\ UNCHANGED <<source, pos, backing, cur, op, want, left, from, got, blind, answer>>
      /\ fileLen' = fileLen /\ lengthKnown' = lengthKnown
  BY DEF vars, call, source
<1>2. SourceInv'
  BY <1>1 DEF SourceInv, TypeOK, SourceTypeOK, CallInv, BeyondEnd, GotInv, Ahead, NotAhead, PosIsCursor
<1>3. UNCHANGED contractVars
  BY <1>1 DEF contractVars, Settled, Ahead
<1> QED BY <1>2, <1>3 DEF ContractStep

LEMMA InitInv ==
  ASSUME Init
  PROVE  /\ SourceInv /\ pos \in 0 .. fileLen /\ Ahead \in 0 .. fileLen
         /\ Ahead = 0 \/ pos = 0
<1>1. /\ fileLen \in FileLens /\ fileLen \in Nat /\ fileLen + 8 <= WordMax /\ WordMax \in Nat
      /\ op = "idle" /\ want = 0 /\ left = 0 /\ from = pos
      /\ answer = Answer("none", 0, "Ok", <<>>)
  BY Numerals DEF Init
<1>2. /\ backing \in {"Memory", "Reader"} /\ lengthKnown \in BOOLEAN /\ blind \in BOOLEAN
      /\ pos \in 0 .. fileLen /\ cur \in 0 .. fileLen
      /\ backing = "Reader" => pos <= cur /\ (~blind => pos = cur) /\ (pos = cur \/ pos = 0)
  <2>1. CASE FromMemory
    <3>1. lengthKnown \in BOOLEAN /\ blind \in BOOLEAN
      BY <2>1, Zenon DEF FromMemory
    <3>2. /\ backing \in {"Memory", "Reader"} /\ pos = cur
          /\ pos \in 0 .. fileLen /\ cur \in 0 .. fileLen
      BY <1>1, <2>1 DEF FromMemory
    <3>3. pos <= cur
      BY <1>1, <3>2
    <3> QED BY <3>1, <3>2, <3>3
  <2>2. CASE Strict
    <3>1. lengthKnown \in BOOLEAN /\ blind \in BOOLEAN
      BY <2>2, Zenon DEF Strict
    <3>2. /\ backing \in {"Memory", "Reader"} /\ pos = cur
          /\ pos \in 0 .. fileLen /\ cur \in 0 .. fileLen
      BY <1>1, <2>2 DEF Strict
    <3>3. pos <= cur
      BY <1>1, <3>2
    <3> QED BY <3>1, <3>2, <3>3
  <2>3. CASE BestEffort
    <3>1. PICK start \in 0 .. fileLen, supplied \in BOOLEAN, ended \in BOOLEAN,
               rewound \in BOOLEAN, told \in BOOLEAN :
             /\ lengthKnown = (supplied \/ ended)
             /\ cur = IF rewound THEN 0 ELSE IF ~supplied /\ ended THEN fileLen ELSE start
             /\ pos = (IF told THEN cur ELSE 0) /\ blind = ~told
      BY <2>3 DEF BestEffort
    <3>2. /\ cur \in 0 .. fileLen /\ pos \in 0 .. fileLen /\ pos <= cur
          /\ pos = cur \/ pos = 0
      BY <1>1, <3>1
    <3>3. lengthKnown \in BOOLEAN /\ blind \in BOOLEAN /\ (~blind => pos = cur)
      BY <3>1
    <3> QED BY <2>3, <3>2, <3>3 DEF BestEffort
  <2> QED BY <2>1, <2>2, <2>3 DEF Init
<1>3. answer.outcome \in {"Ok", "Eof", "Io"}
  BY <1>1 DEF Answer
<1>4. TypeOK
  BY <1>1, <1>2, <1>3 DEF TypeOK, SourceTypeOK
<1>5. Ahead \in 0 .. fileLen /\ (Ahead = 0 \/ pos = 0)
  BY <1>1, <1>2 DEF Ahead
<1>6. CallInv /\ GotInv /\ NotAhead /\ PosIsCursor
  BY <1>1, <1>2 DEF CallInv, GotInv, NotAhead, PosIsCursor
<1> QED BY <1>2, <1>4, <1>5, <1>6 DEF SourceInv

LEMMA NextStep ==
  ASSUME SourceInv, [Next]_vars
  PROVE  SourceInv' /\ ContractStep
<1>1. CASE ReadExact \/ ReadWindow \/ IgnoreBytes \/ SeekTo
  BY <1>1, CallStep
<1>2. CASE InnerRead
  BY <1>2, InnerReadStep
<1>3. CASE InnerReadFails \/ SeekFails
  BY <1>3, FailStep
<1>4. CASE InnerSeek
  BY <1>4, InnerSeekStep
<1>5. CASE AdvanceFails
  BY <1>5, AdvanceFailsStep
<1>6. CASE UNCHANGED vars
  BY <1>6, StutterStep
<1> QED BY <1>1, <1>2, <1>3, <1>4, <1>5, <1>6 DEF Next, Run

-----------------------------------------------------------------------------
(* In the middle of a call, after any mix of short reads, failures and        *)
(* fallbacks, position, count to go and bytes delivered agree.               *)
THEOREM SourceInvariant == Spec => []SourceInv
<1>1. Init => SourceInv
  BY InitInv
<1>2. SourceInv /\ [Next]_vars => SourceInv'
  BY NextStep
<1> QED BY <1>1, <1>2, PTL DEF Spec

(* The fields and locals keep their types: the position never leaves 64 bits, *)
(* also when a skip goes far past the end of a file of unknown length.        *)
THEOREM TypeCorrect == Spec => []TypeOK
<1>1. SourceInv => TypeOK
  BY DEF SourceInv
<1> QED BY <1>1, SourceInvariant, PTL

(* The position the source reports is where the reader stands.               *)
THEOREM PositionIsCursor == Spec => []PosIsCursor
<1>1. SourceInv => PosIsCursor
  BY DEF SourceInv
<1> QED BY <1>1, SourceInvariant, PTL

(* A source of either kind, from every constructor, keeps the contract the     *)
(* walks rely on: what a call does is judged by what that call asked for.     *)
THEOREM Implements == Spec => ImplementsContract
<1>1. Init => Contract!Init
  <2>1. ASSUME Init
        PROVE  /\ pos \in 0 .. fileLen /\ lengthKnown \in BOOLEAN
               /\ Ahead \in 0 .. fileLen /\ (Ahead = 0 \/ pos = 0)
    BY <2>1, InitInv DEF SourceInv, TypeOK, SourceTypeOK
  <2> QED BY <2>1 DEF Init, Contract!Init, Contract!Answer, Answer
<1>2. SourceInv /\ [Next]_vars => ContractStep
  BY NextStep
<1>3. ContractStep => [Contract!Next]_(Contract!vars)
  BY DEF ContractStep, contractVars, Settled, source, Contract!source, Contract!vars
<1> QED BY <1>1, <1>2, <1>3, SourceInvariant, PTL
        DEF Spec, ImplementsContract, Contract!Spec

-----------------------------------------------------------------------------
(* The walk over a Wave64 file.  W64Inv: what it holds of the chunks whose bodies *)
(* are behind it, and where it stands by the last chunk seen.                 *)

W64Chunks == [guid : Guids, len : Nat, at : Nat, samples : Nat]

(* The chunks whose bodies are behind the walk: all but the one in hand. *)
Behind == 1 .. IF pc = "body" THEN Len(seen) - 1 ELSE Len(seen)

LastEnd == IF seen = <<>> THEN FormHead ELSE seen[Len(seen)].at + seen[Len(seen)].len

W64Types ==
  /\ fileLen \in FileLens /\ lengthKnown \in BOOLEAN /\ pos \in Nat
  /\ pc \in {"start", "loop", "body", "pad", "end", "done"}
  /\ seen \in Seq(W64Chunks) /\ chunk \in W64Chunks
  /\ pc # "done" => result = "None"
  /\ pc = "start" => seen = <<>>

W64Place ==
  /\ pc = "loop" =>
       \/ pos % Alignment = 0 /\ LastEnd <= pos /\ pos < LastEnd + Alignment
       \/ pos > fileLen
  /\ pc \in {"body", "pad"} =>
       /\ seen # <<>> /\ chunk.guid = seen[Len(seen)].guid
       /\ chunk.at = seen[Len(seen)].at /\ chunk.len = seen[Len(seen)].len
       /\ chunk.at % Alignment = 0
  /\ pc = "body" => pos = chunk.at /\ pos <= fileLen /\ seen[Len(seen)].samples = 0
  /\ pc = "pad" => pos = chunk.at + chunk.len \/ pos > fileLen

(* The first fmt and data chunks it has passed, and the last sample count. *)
FirstFmt ==
  pc # "done" =>
    IF fmt = 0 THEN \A i \in Behind : seen[i].guid # "fmt "
    ELSE fmt \in Behind /\ IsFirst(fmt, "fmt ")

FirstData ==
  pc # "done" =>
    IF pending = NoData THEN \A i \in Behind : seen[i].guid # "data"
    ELSE \E i \in Behind :
           IsFirst(i, "data") /\ pending.at = seen[i].at /\ pending.declared = seen[i].len

LastCount ==
  IF Counts = {} THEN factSamples = None
  ELSE \E i \in Counts : factSamples = seen[i].samples /\ \A j \in Counts : j <= i

W64Inv ==
  /\ W64Types /\ W64Place /\ FirstFmt /\ FirstData /\ (pc # "done" => LastCount)
  /\ ChunksAreAdjacent /\ FirstChunksWin

LEMMA WalkNumerals ==
  /\ WordMax \in Nat /\ SizeMax \in Nat /\ FmtCore \in Nat /\ None \notin Nat
  /\ \A n \in FileLens : n \in Nat /\ n + 8 <= WordMax
  /\ \A guid \in Guids : \A size \in ChunkSizes[guid] : size \in Nat
  /\ \A n \in FactCounts : n \in Nat
BY SourceAssumption, WalkAssumption DEF None

LEMMA ChunkOf ==
  ASSUME NEW s \in Seq(W64Chunks)
  PROVE  /\ Len(s) \in Nat /\ DOMAIN s = 1 .. Len(s)
         /\ \A i \in 1 .. Len(s) :
              s[i] \in W64Chunks /\ s[i].len \in Nat /\ s[i].at \in Nat /\ s[i].samples \in Nat
<1>1. Len(s) \in Nat /\ DOMAIN s = 1 .. Len(s)
  BY LenProperties
<1>2. \A i \in 1 .. Len(s) : s[i] \in W64Chunks
  BY ElementOfSeq
<1>3. \A c \in W64Chunks : c.len \in Nat /\ c.at \in Nat /\ c.samples \in Nat
  BY DEF W64Chunks
<1> QED BY <1>1, <1>2, <1>3

LEMMA WalkFacts ==
  ASSUME W64Types
  PROVE  /\ Len(seen) \in Nat /\ DOMAIN seen = 1 .. Len(seen) /\ Behind \subseteq DOMAIN seen
         /\ fileLen \in Nat /\ fileLen + 8 <= WordMax /\ pos \in Nat
         /\ chunk.len \in Nat /\ chunk.at \in Nat /\ chunk.guid \in Guids
BY ChunkOf, WalkNumerals DEF W64Types, W64Chunks, Behind

(* Where a step by n bytes leads: exactly there, or past the end of the file.     *)
LEMMA StepOver ==
  ASSUME W64Types, NEW n \in Nat, CanSkip(pos, n)
  PROVE  /\ SatAdd(pos, n) \in Nat
         /\ pos <= fileLen => SatAdd(pos, n) = pos + n \/ SatAdd(pos, n) > fileLen
         /\ pos > fileLen => SatAdd(pos, n) > fileLen
BY WalkFacts, WalkNumerals DEF SatAdd, Least, CanSkip, Has

(* Rounding up to eight bytes. *)
LEMMA RoundedUp ==
  ASSUME NEW p \in Nat, NEW n \in Nat, p % 8 = 0
  PROVE  /\ Padding(n) \in 0 .. 7
         /\ (p + n + Padding(n)) % 8 = 0
<1>1. n % 8 \in 0 .. 7 /\ (n % 8 = 0 => Padding(n) = 0)
      /\ (n % 8 # 0 => Padding(n) = 8 - (n % 8))
  BY DEF Padding, Alignment
<1> QED BY <1>1

-----------------------------------------------------------------------------
(* The history only grows: chunks behind the walk keep their header. *)
Grown ==
  /\ seen' \in Seq(W64Chunks) /\ Len(seen) <= Len(seen')
  /\ \A i \in DOMAIN seen :
       seen'[i].guid = seen[i].guid /\ seen'[i].len = seen[i].len /\ seen'[i].at = seen[i].at

LEMMA FirstIs ==
  ASSUME Len(seen) \in Nat, DOMAIN seen = 1 .. Len(seen), NEW guid, NEW n \in DOMAIN seen,
         seen[n].guid = guid, \A i \in 1 .. (n - 1) : seen[i].guid # guid
  PROVE  IsFirst(n, guid)
<1>1. n \in Numbers(guid)
  BY DEF Numbers
<1>2. ASSUME NEW j \in Numbers(guid)
      PROVE  n <= j
  <2>1. j \in 1 .. Len(seen) /\ seen[j].guid = guid
    BY DEF Numbers
  <2>2. j \notin 1 .. (n - 1)
    BY <2>1
  <2> QED BY <2>1, <2>2
<1> QED BY <1>1, <1>2 DEF IsFirst

LEMMA FirstStays ==
  ASSUME W64Types, Grown, NEW guid, NEW i, IsFirst(i, guid)
  PROVE  IsFirst(i, guid)'
<1>1. /\ Len(seen) \in Nat /\ DOMAIN seen = 1 .. Len(seen)
      /\ Len(seen') \in Nat /\ DOMAIN seen' = 1 .. Len(seen') /\ Len(seen) <= Len(seen')
  BY WalkFacts, ChunkOf DEF Grown
<1>2. i \in 1 .. Len(seen) /\ seen[i].guid = guid
  BY <1>1 DEF IsFirst, Numbers
<1>3. i \in Numbers(guid)'
  BY <1>1, <1>2 DEF Grown, Numbers
<1>4. ASSUME NEW j \in Numbers(guid)'
      PROVE  i <= j
  <2>1. j \in 1 .. Len(seen') /\ seen'[j].guid = guid
    BY <1>1 DEF Numbers
  <2>2. CASE j \in 1 .. Len(seen)
    BY <1>1, <2>1, <2>2 DEF Grown, IsFirst, Numbers
  <2>3. CASE j \notin 1 .. Len(seen)
    BY <1>1, <1>2, <2>1, <2>3
  <2> QED BY <2>2, <2>3
<1> QED BY <1>3, <1>4 DEF IsFirst

(* The fmt and data chunks the walk holds, over a step that passes no other one. *)
LEMMA FmtStays ==
  ASSUME W64Types, FirstFmt, Grown, pc # "done", fmt' = fmt, Behind \subseteq Behind',
         \A i \in Behind' : i \in Behind \/ (i \in DOMAIN seen /\ (fmt # 0 \/ seen[i].guid # "fmt "))
  PROVE  FirstFmt'
<1>1. CASE fmt = 0
  BY <1>1, WalkFacts DEF FirstFmt, Grown
<1>2. CASE fmt # 0
  <2>1. fmt \in Behind /\ IsFirst(fmt, "fmt ")
    BY <1>2 DEF FirstFmt
  <2>2. \A j : IsFirst(j, "fmt ") => IsFirst(j, "fmt ")'
    BY FirstStays
  <2>3. fmt' \in Behind' /\ \A j : j = fmt => IsFirst(j, "fmt ")'
    BY <2>1, <2>2
  <2>4. IsFirst(fmt, "fmt ")'
    BY <2>3 DEF IsFirst
  <2> QED BY <1>2, <2>3, <2>4 DEF FirstFmt
<1> QED BY <1>1, <1>2

LEMMA DataStays ==
  ASSUME W64Types, FirstData, Grown, pc # "done", pending' = pending, Behind \subseteq Behind',
         \A i \in Behind' :
           i \in Behind \/ (i \in DOMAIN seen /\ (pending # NoData \/ seen[i].guid # "data"))
  PROVE  FirstData'
<1>1. CASE pending = NoData
  BY <1>1, WalkFacts DEF FirstData, Grown
<1>2. CASE pending # NoData
  <2>1. PICK d \in Behind :
           IsFirst(d, "data") /\ pending.at = seen[d].at /\ pending.declared = seen[d].len
    BY <1>2 DEF FirstData
  <2>2. IsFirst(d, "data")'
    BY <2>1, FirstStays
  <2>3. d \in Behind' /\ seen'[d].at = seen[d].at /\ seen'[d].len = seen[d].len
    BY <2>1, WalkFacts DEF Grown
  <2> QED BY <1>2, <2>1, <2>2, <2>3 DEF FirstData
<1> QED BY <1>1, <1>2

LEMMA CountStays ==
  ASSUME W64Types, LastCount, Grown, factSamples' = factSamples,
         \A i \in DOMAIN seen : seen'[i].samples = seen[i].samples,
         \A i \in DOMAIN seen' : i \in DOMAIN seen \/ seen'[i].samples = 0
  PROVE  LastCount'
<1>1. DOMAIN seen \subseteq DOMAIN seen'
  BY WalkFacts, ChunkOf DEF Grown
<1>2. Counts' = Counts
  <2>1. ASSUME NEW i
        PROVE  i \in Counts' <=> i \in Counts
    BY <1>1 DEF Counts, Numbers, Grown
  <2> QED BY <2>1
<1>3. Counts \subseteq DOMAIN seen
  BY DEF Counts, Numbers
<1> QED BY <1>2, <1>3 DEF LastCount

LEMMA AdjacentStays ==
  ASSUME W64Types, ChunksAreAdjacent, Grown, Len(seen') = Len(seen)
  PROVE  ChunksAreAdjacent'
<1>1. DOMAIN seen' = 1 .. Len(seen) /\ DOMAIN seen = 1 .. Len(seen) /\ Len(seen) \in Nat
  BY WalkFacts, ChunkOf DEF Grown
<1>2. ASSUME NEW i \in 1 .. Len(seen)
      PROVE  /\ seen'[i].at = seen[i].at
             /\ i # 1 => seen'[i - 1].at = seen[i - 1].at /\ seen'[i - 1].len = seen[i - 1].len
  BY <1>1 DEF Grown
<1>3. ASSUME NEW i \in 1 .. Len(seen)
      PROVE  (IF i = 1 THEN FormHead ELSE seen'[i - 1].at + seen'[i - 1].len)
               = (IF i = 1 THEN FormHead ELSE seen[i - 1].at + seen[i - 1].len)
  BY <1>2
<1> QED BY <1>1, <1>2, <1>3 DEF ChunksAreAdjacent

LEMMA SeenStays ==
  ASSUME W64Types, seen' = seen
  PROVE  Grown
BY WalkFacts DEF Grown, W64Types

LEMMA NothingYet ==
  ASSUME W64Types, pc # "done", result' = result
  PROVE  result' = "None" /\ FirstChunksWin'
BY DEF W64Types, FirstChunksWin

-----------------------------------------------------------------------------
(* Each action of the walk keeps the invariant.                              *)

LEMMA WalkFails ==
  ASSUME W64Inv, NEW e, e # "Ok", Fail(e)
  PROVE  W64Inv'
<1>1. /\ pc' = "done" /\ result' = e
      /\ UNCHANGED <<fileLen, lengthKnown, pos, chunk, seen>>
  BY DEF Fail, source
<1>2. W64Types' /\ W64Place'
  BY <1>1 DEF W64Inv, W64Types, W64Place
<1>3. FirstFmt' /\ FirstData' /\ FirstChunksWin'
  BY <1>1 DEF FirstFmt, FirstData, FirstChunksWin
<1>4. ChunksAreAdjacent'
  BY <1>1 DEF W64Inv, ChunksAreAdjacent
<1> QED BY <1>1, <1>2, <1>3, <1>4 DEF W64Inv

LEMMA RefusalSteps ==
  ASSUME W64Inv, ShortForm \/ ShortHeader \/ FmtRefused \/ FactRefused \/ SkipRefused
                   \/ ShortPad \/ ReadFails
  PROVE  W64Inv'
<1>1. \E e \in {"Truncated", "MalformedChunk", "Fmt", "Io"} : Fail(e)
  BY DEF ShortForm, ShortHeader, FmtRefused, FactRefused, SkipRefused, ShortPad, ReadFails
<1> QED BY <1>1, WalkFails

(* A step between chunks: nothing is learnt and nothing but the place changes.     *)
LEMMA BetweenChunks ==
  ASSUME W64Inv, pc \notin {"body", "done"}, pc' \in {"loop", "end"},
         UNCHANGED <<fileLen, lengthKnown, chunk, fmt, pending, factSamples, result, seen>>,
         pos' \in Nat,
         pc' = "loop" => \/ pos' % Alignment = 0 /\ LastEnd <= pos' /\ pos' < LastEnd + Alignment
                         \/ pos' > fileLen
  PROVE  W64Inv'
<1>1. W64Types /\ Grown /\ Behind' = Behind /\ Behind \subseteq DOMAIN seen
  BY SeenStays, WalkFacts DEF W64Inv, Behind
<1>2. W64Types'
  BY DEF W64Inv, W64Types
<1>3. W64Place'
  BY DEF W64Place, LastEnd
<1>4. FirstFmt' /\ FirstData' /\ LastCount'
  BY <1>1, FmtStays, DataStays, CountStays DEF W64Inv
<1>5. ChunksAreAdjacent' /\ FirstChunksWin'
  BY <1>1, AdjacentStays, NothingYet DEF W64Inv
<1> QED BY <1>2, <1>3, <1>4, <1>5 DEF W64Inv

LEMMA ReadFormStep ==
  ASSUME W64Inv, ReadForm
  PROVE  W64Inv'
<1>1. CASE Fail("NotWave")
  BY <1>1, WalkFails
<1>2. CASE /\ pc = "start" /\ pos' = FormHead /\ pc' = "loop"
           /\ UNCHANGED <<source, chunk, found, returned, seen>>
  <2>1. pos' = LastEnd /\ pos' = 40
    BY <1>2 DEF W64Inv, W64Types, LastEnd, FormHead
  <2>2. pos' \in Nat /\ pos' % Alignment = 0 /\ LastEnd <= pos' /\ pos' < LastEnd + Alignment
    BY <2>1 DEF Alignment
  <2> QED BY <1>2, <2>2, BetweenChunks DEF source, found, returned
<1> QED BY <1>1, <1>2 DEF ReadForm

LEMMA LeaveLoopStep ==
  ASSUME W64Inv, LeaveLoop
  PROVE  W64Inv'
<1>1. pos' \in Nat
  BY WalkFacts DEF W64Inv, LeaveLoop, Larger
<1> QED BY <1>1, BetweenChunks DEF LeaveLoop, source, found, returned

LEMMA SkipPadStep ==
  ASSUME W64Inv, SkipPad
  PROVE  W64Inv'
<1> DEFINE p == Padding(chunk.len)
<1>1. /\ W64Types /\ chunk.len \in Nat /\ chunk.at \in Nat /\ pos \in Nat /\ fileLen \in Nat
      /\ chunk.at % 8 = 0 /\ pc = "pad"
      /\ (pos = chunk.at + chunk.len \/ pos > fileLen)
      /\ LastEnd = chunk.at + chunk.len
  BY WalkFacts DEF SkipPad, W64Inv, W64Place, LastEnd, Alignment
<1>2. p \in 0 .. 7 /\ (chunk.at + chunk.len + p) % 8 = 0
  BY <1>1, RoundedUp
<1>3. CanSkip(pos, p) /\ pos' = SatAdd(pos, p)
  BY DEF SkipPad
<1> HIDE DEF p
<1>4. /\ pos' \in Nat /\ p \in Nat /\ p < 8
      /\ pos <= fileLen => pos' = pos + p \/ pos' > fileLen
      /\ pos > fileLen => pos' > fileLen
  <2>1. p \in Nat /\ p < 8
    BY <1>2
  <2>2. W64Types
    BY <1>1
  <2> QED BY <1>3, <2>1, <2>2, StepOver
<1>5. CASE pos' > fileLen
  BY <1>1, <1>4, <1>5, BetweenChunks DEF SkipPad, source, found, returned
<1>6. CASE ~(pos' > fileLen)
  <2> DEFINE e == chunk.at + chunk.len
  <2>1. e \in Nat /\ LastEnd = e /\ (e + p) % 8 = 0
    <3>1. chunk.at \in Nat /\ chunk.len \in Nat
      BY <1>1
    <3>2. e \in Nat
      BY <3>1
    <3>3. LastEnd = e
      BY <1>1, Zenon
    <3> QED BY <1>2, <3>2, <3>3, Zenon
  <2>2. pos \in Nat /\ fileLen \in Nat /\ (pos = e \/ pos > fileLen)
    BY <1>1
  <2> HIDE DEF e
  <2>3. pos' = e + p
    BY <1>4, <1>6, <2>2
  <2>4. pos' % Alignment = 0 /\ LastEnd <= pos' /\ pos' < LastEnd + Alignment
    BY <1>4, <2>1, <2>3 DEF Alignment
  <2> QED BY <1>1, <1>4, <2>4, BetweenChunks DEF SkipPad, source, found, returned
<1> QED BY <1>5, <1>6

LEMMA ReadHeaderStep ==
  ASSUME W64Inv, ReadHeader
  PROVE  W64Inv'
<1>1. pc = "loop" /\ Has(pos, ChunkHead)
  BY DEF ReadHeader
<1>2. PICK guid \in Guids : \E size \in ChunkSizes[guid] :
        IF size < ChunkHead THEN Fail("MalformedChunk")
        ELSE /\ chunk' = Chunk(guid, BodyLen(size), pos + ChunkHead)
             /\ seen' = Append(seen, chunk')
             /\ pos' = pos + ChunkHead /\ pc' = "body"
             /\ UNCHANGED <<source, found, returned>>
  BY DEF ReadHeader
<1>3. PICK size \in ChunkSizes[guid] :
        IF size < ChunkHead THEN Fail("MalformedChunk")
        ELSE /\ chunk' = Chunk(guid, BodyLen(size), pos + ChunkHead)
             /\ seen' = Append(seen, chunk')
             /\ pos' = pos + ChunkHead /\ pc' = "body"
             /\ UNCHANGED <<source, found, returned>>
  BY <1>2
<1>4. CASE size < ChunkHead
  BY <1>3, <1>4, WalkFails
<1>5. CASE ~(size < ChunkHead)
  <2> DEFINE n == Len(seen)
  <2>1. /\ seen' = Append(seen, chunk') /\ pos' = pos + ChunkHead /\ pc' = "body"
        /\ UNCHANGED <<fileLen, lengthKnown, fmt, pending, factSamples, result, header>>
        /\ chunk' = [guid |-> guid, len |-> size - 24, at |-> pos + 24, samples |-> 0]
    BY <1>3, <1>5 DEF source, found, returned, Chunk, BodyLen, ChunkHead
  <2>2. W64Types /\ n \in Nat /\ DOMAIN seen = 1 .. n /\ pos \in Nat /\ fileLen \in Nat
        /\ Behind = 1 .. n /\ Behind \subseteq DOMAIN seen /\ size - 24 \in Nat
    BY <1>1, <1>5, WalkFacts, WalkNumerals DEF W64Inv, Behind, ChunkHead
  <2>3. chunk' \in W64Chunks /\ seen \in Seq(W64Chunks)
    BY <2>1, <2>2 DEF W64Chunks, W64Types
  <2>4. /\ seen' \in Seq(W64Chunks) /\ Len(seen') = n + 1 /\ seen'[n + 1] = chunk'
        /\ \A i \in 1 .. n : seen'[i] = seen[i]
    BY <2>1, <2>3, AppendProperties
  <2>5. DOMAIN seen' = 1 .. (n + 1) /\ seen' # <<>> /\ Behind' = 1 .. n
    <3>1. DOMAIN seen' = 1 .. (n + 1)
      BY <2>4, ChunkOf
    <3>2. seen' # <<>>
      BY <2>2, <2>4, EmptySeq
    <3>3. Behind' = 1 .. (n + 1 - 1)
      BY <2>1, <2>4 DEF Behind
    <3>4. n + 1 - 1 = n
      BY <2>2
    <3> QED BY <3>1, <3>2, <3>3, <3>4
  <2>6. Grown
    BY <2>2, <2>4 DEF Grown
  <2>7. pos <= fileLen /\ pos + 24 <= fileLen /\ pos % 8 = 0 /\ LastEnd <= pos /\ pos < LastEnd + 8
    <3>1. pos + 24 <= fileLen
      BY <1>1 DEF Has, ChunkHead
    <3>2. pos <= fileLen
      BY <2>2, <3>1
    <3>3. \/ pos % 8 = 0 /\ LastEnd <= pos /\ pos < LastEnd + 8
          \/ pos > fileLen
      BY <1>1 DEF W64Inv, W64Place, Alignment
    <3> QED BY <2>2, <3>1, <3>2, <3>3
  <2>8. W64Types'
    <3>1. fileLen' \in FileLens /\ lengthKnown' \in BOOLEAN /\ result' = "None"
      BY <1>1, <2>1 DEF W64Inv, W64Types
    <3>2. pos' \in Nat
      BY <2>1, <2>2 DEF ChunkHead
    <3> QED BY <2>1, <2>3, <2>4, <3>1, <3>2 DEF W64Types
  <2>9. W64Place'
    BY <2>1, <2>2, <2>4, <2>5, <2>7 DEF W64Place, ChunkHead, Alignment
  <2>10. FirstFmt' /\ FirstData' /\ LastCount'
    <3>1. \A i \in DOMAIN seen : seen'[i].samples = seen[i].samples
      BY <2>2, <2>4
    <3>2. \A i \in DOMAIN seen' : i \in DOMAIN seen \/ seen'[i].samples = 0
      BY <2>1, <2>2, <2>4, <2>5
    <3>3. Behind' = Behind
      BY <2>2, <2>5
    <3> HIDE DEF n
    <3> QED BY <1>1, <2>1, <2>2, <2>6, <3>1, <3>2, <3>3, FmtStays, DataStays, CountStays DEF W64Inv
  <2>11. ChunksAreAdjacent'
    <3>1. ASSUME NEW i \in DOMAIN seen'
          PROVE  LET before == IF i = 1 THEN FormHead ELSE seen'[i - 1].at + seen'[i - 1].len
                     start == seen'[i].at - ChunkHead
                 IN start % Alignment = 0 /\ before <= start /\ start < before + Alignment
      <4>1. CASE i \in 1 .. n
        <5>1. seen'[i] = seen[i] /\ (i # 1 => seen'[i - 1] = seen[i - 1]) /\ i \in DOMAIN seen
          BY <2>2, <2>4, <4>1
        <5> QED BY <5>1 DEF W64Inv, ChunksAreAdjacent
      <4>2. CASE i = n + 1
        <5>1. seen'[i].at - ChunkHead = pos
          BY <2>1, <2>2, <2>4, <4>2 DEF ChunkHead
        <5>2. (IF i = 1 THEN FormHead ELSE seen'[i - 1].at + seen'[i - 1].len) = LastEnd
          <6>1. CASE n = 0
            BY <2>3, <4>2, <6>1, EmptySeq DEF LastEnd
          <6>2. CASE n # 0
            <7>1. i - 1 = n /\ n \in 1 .. n /\ i # 1 /\ seen # <<>>
              BY <2>2, <2>3, <4>2, <6>2, EmptySeq
            <7> QED BY <2>4, <7>1 DEF LastEnd
          <6> QED BY <6>1, <6>2
        <5> QED BY <2>7, <5>1, <5>2 DEF Alignment
      <4> QED BY <2>2, <2>5, <4>1, <4>2
    <3> QED BY <3>1 DEF ChunksAreAdjacent
  <2>12. FirstChunksWin'
    BY <1>1, <2>1, <2>2, NothingYet
  <2> QED BY <2>8, <2>9, <2>10, <2>11, <2>12 DEF W64Inv
<1> QED BY <1>4, <1>5

-----------------------------------------------------------------------------
(* A body is passed, whichever way its bytes are read or skipped.            *)
LEMMA BodyPassed ==
  ASSUME W64Inv, pc = "body", CanSkip(pos, chunk.len), ToPad,
         Grown, Len(seen') = Len(seen)
  PROVE  /\ W64Types' /\ W64Place' /\ ChunksAreAdjacent' /\ FirstChunksWin'
         /\ Len(seen) \in Behind' /\ Behind \subseteq Behind'
         /\ \A i \in Behind' : i \in Behind \/ i = Len(seen)
         /\ Len(seen) \in DOMAIN seen /\ seen[Len(seen)].guid = chunk.guid
<1>1. /\ pos' = SatAdd(pos, chunk.len) /\ pc' = "pad"
      /\ UNCHANGED <<fileLen, lengthKnown, chunk, result>>
  BY DEF ToPad, source, returned
<1>2. /\ W64Types /\ Len(seen) \in Nat /\ DOMAIN seen = 1 .. Len(seen) /\ fileLen \in Nat
      /\ chunk.len \in Nat /\ chunk.at \in Nat
      /\ seen # <<>> /\ pos = chunk.at /\ pos <= fileLen /\ seen[Len(seen)].guid = chunk.guid
  BY WalkFacts DEF W64Inv, W64Place
<1>3. Len(seen) >= 1 /\ Len(seen) \in DOMAIN seen
  BY <1>2, EmptySeq DEF W64Types
<1>4. pos' \in Nat /\ (pos' = chunk.at + chunk.len \/ pos' > fileLen)
  BY <1>1, <1>2, StepOver
<1>5. seen' # <<>>
  BY <1>3, EmptySeq DEF Grown
<1>6. W64Types'
  BY <1>1, <1>2, <1>4 DEF W64Types, Grown
<1>7. W64Place'
  <2>1. /\ seen'[Len(seen')].guid = chunk.guid /\ seen'[Len(seen')].at = chunk.at
        /\ seen'[Len(seen')].len = chunk.len /\ chunk.at % Alignment = 0
    BY <1>2, <1>3 DEF Grown, W64Inv, W64Place
  <2> QED BY <1>1, <1>4, <1>5, <2>1 DEF W64Place
<1>8. ChunksAreAdjacent' /\ FirstChunksWin'
  BY <1>1, <1>2, AdjacentStays, NothingYet DEF W64Inv
<1>9. Behind = 1 .. (Len(seen) - 1) /\ Behind' = 1 .. Len(seen)
  BY <1>1 DEF Behind
<1> QED BY <1>2, <1>3, <1>6, <1>7, <1>8, <1>9

(* A read of n bytes followed by a skip reaches as far as one skip.          *)
LEMMA ReadAndSkip ==
  ASSUME W64Types, NEW n \in Nat, NEW m \in Nat, n <= m, Has(pos, n), CanSkip(pos + n, m - n)
  PROVE  CanSkip(pos, m)
BY WalkFacts, SourceAssumption DEF Has, CanSkip

LEMMA FmtBodyStep ==
  ASSUME W64Inv, FmtBody
  PROVE  W64Inv'
<1>1. pc = "body" /\ chunk.guid = "fmt " /\ ToPad /\ fmt' = First(fmt)
      /\ UNCHANGED <<pending, factSamples, seen>>
  BY DEF FmtBody, Body
<1>2. W64Types /\ Grown /\ chunk.len \in Nat
  BY <1>1, SeenStays, WalkFacts DEF W64Inv
<1>3. CanSkip(pos, chunk.len)
  BY <1>2, ReadAndSkip, WalkNumerals DEF FmtBody, FmtRead
<1>4. /\ W64Types' /\ W64Place' /\ ChunksAreAdjacent' /\ FirstChunksWin'
      /\ Len(seen) \in Behind' /\ Behind \subseteq Behind'
      /\ \A i \in Behind' : i \in Behind \/ i = Len(seen)
      /\ Len(seen) \in DOMAIN seen /\ seen[Len(seen)].guid = chunk.guid
  BY <1>1, <1>2, <1>3, BodyPassed
<1>5. FirstData' /\ LastCount'
  <2>1. "fmt " # "data"
    OBVIOUS
  <2> QED BY <1>1, <1>2, <1>4, <2>1, DataStays, CountStays DEF W64Inv
<1>6. FirstFmt'
  <2>1. CASE fmt # 0
    BY <1>1, <1>2, <1>4, <2>1, FmtStays DEF W64Inv, First
  <2>2. CASE fmt = 0
    <3> DEFINE n == Len(seen)
    <3>1. fmt' = n /\ n \in Nat /\ DOMAIN seen = 1 .. n /\ n \in 1 .. n
      BY <1>1, <1>2, <1>4, <2>2, WalkFacts DEF First
    <3>2. \A i \in 1 .. (n - 1) : seen[i].guid # "fmt "
      BY <1>1, <2>2 DEF W64Inv, FirstFmt, Behind
    <3>3. IsFirst(n, "fmt ")
      BY <1>1, <1>4, <3>1, <3>2, FirstIs
    <3> HIDE DEF n
    <3>4. PICK d : d = n
      OBVIOUS
    <3>5. IsFirst(d, "fmt ")'
      BY <1>2, <3>3, <3>4, FirstStays
    <3>6. fmt' = d /\ fmt' \in Behind' /\ fmt' # 0
      BY <1>4, <3>1, <3>4 DEF n
    <3>7. IsFirst(fmt, "fmt ")'
      BY <3>5, <3>6 DEF IsFirst
    <3> QED BY <3>6, <3>7 DEF FirstFmt
  <2> QED BY <2>1, <2>2
<1> QED BY <1>4, <1>5, <1>6 DEF W64Inv

LEMMA FactBodyStep ==
  ASSUME W64Inv, FactBody
  PROVE  W64Inv'
<1> DEFINE n == Len(seen)
<1>1. pc = "body" /\ chunk.guid = "fact" /\ ToPad /\ UNCHANGED <<fmt, pending>>
  BY DEF FactBody, Body
<1>2. PICK s \in FactCounts :
        factSamples' = FactCount(s) /\ seen' = [seen EXCEPT ![Len(seen)].samples = s]
  BY DEF FactBody
<1>3. /\ W64Types /\ chunk.len \in Nat /\ s \in Nat /\ n \in Nat /\ DOMAIN seen = 1 .. n
      /\ seen \in Seq(W64Chunks) /\ n \in 1 .. n /\ seen[n] \in W64Chunks
      /\ seen[n].samples = 0 /\ seen[n].guid = "fact"
  <2>1. W64Types /\ chunk.len \in Nat /\ n \in Nat /\ DOMAIN seen = 1 .. n /\ seen \in Seq(W64Chunks)
    BY WalkFacts DEF W64Inv, W64Types
  <2>2. seen # <<>> /\ seen[n].samples = 0 /\ seen[n].guid = "fact"
    BY <1>1 DEF W64Inv, W64Place
  <2>3. n \in 1 .. n
    BY <2>1, <2>2, EmptySeq
  <2> QED BY <2>1, <2>2, <2>3, ChunkOf, WalkNumerals
<1> DEFINE new == [seen[n] EXCEPT !.samples = s]
<1>4. /\ new \in W64Chunks /\ new.samples = s /\ new.guid = seen[n].guid
      /\ new.at = seen[n].at /\ new.len = seen[n].len
  <2>1. seen[n] \in W64Chunks /\ s \in Nat
    BY <1>3
  <2> HIDE DEF n
  <2> QED BY <2>1 DEF W64Chunks
<1>5. seen' = [seen EXCEPT ![n] = new]
  BY <1>2
<1> HIDE DEF new
<1>6. /\ seen' \in Seq(W64Chunks) /\ Len(seen') = n
      /\ \A j \in 1 .. n : seen'[j] = IF j = n THEN new ELSE seen[j]
  BY <1>3, <1>4, <1>5, ExceptSeq
<1>7. Grown
  <2>1. \A i \in DOMAIN seen : i \in 1 .. n /\ (i # n => seen'[i] = seen[i]) /\ seen'[n] = new
    BY <1>3, <1>6
  <2>2. ASSUME NEW i \in DOMAIN seen
        PROVE  /\ seen'[i].guid = seen[i].guid /\ seen'[i].len = seen[i].len
               /\ seen'[i].at = seen[i].at
    <3>1. CASE i = n
      BY <1>4, <2>1, <3>1
    <3>2. CASE i # n
      BY <2>1, <3>2
    <3> QED BY <3>1, <3>2
  <2>3. Len(seen) <= Len(seen')
    <3>1. Len(seen') = Len(seen)
      BY <1>6, Zenon
    <3>2. Len(seen) \in Nat
      BY <1>3, Zenon
    <3> QED BY <3>1, <3>2
  <2>4. seen' \in Seq(W64Chunks)
    BY <1>6
  <2> HIDE DEF n
  <2> QED BY <2>2, <2>3, <2>4, Zenon DEF Grown
<1>8. CanSkip(pos, chunk.len)
  BY <1>3, ReadAndSkip DEF FactBody, FactRead, FactLen
<1>9. /\ W64Types' /\ W64Place' /\ ChunksAreAdjacent' /\ FirstChunksWin'
      /\ Behind \subseteq Behind' /\ \A i \in Behind' : i \in Behind \/ i = n
  BY <1>1, <1>6, <1>7, <1>8, BodyPassed
<1>10. FirstFmt' /\ FirstData'
  <2>1. \A i \in Behind' : i \in Behind \/ (i \in DOMAIN seen /\ seen[i].guid = "fact")
    BY <1>3, <1>9
  <2>2. "fact" # "fmt " /\ "fact" # "data"
    OBVIOUS
  <2> QED BY <1>1, <1>3, <1>7, <1>9, <2>1, <2>2, FmtStays, DataStays DEF W64Inv
<1>11. LastCount'
  <2>1. DOMAIN seen' = 1 .. n
    BY <1>6, ChunkOf
  <2>2. LastCount
    BY <1>1 DEF W64Inv
  <2>3. CASE s = 0
    <3>1. \A i \in DOMAIN seen : seen'[i].samples = seen[i].samples
      BY <1>3, <1>4, <1>6, <2>3
    <3>2. factSamples' = factSamples
      BY <1>2, <2>3 DEF FactCount
    <3> QED BY <1>3, <1>7, <2>1, <2>2, <3>1, <3>2, CountStays
  <2>4. CASE s # 0
    <3>1. factSamples' = s /\ s > 0
      BY <1>2, <1>3, <2>4 DEF FactCount
    <3>2. seen'[n].samples = s /\ seen'[n].guid = "fact"
      BY <1>3, <1>4, <1>6
    <3>3. n \in Counts' /\ \A j \in Counts' : j <= n
      BY <1>3, <2>1, <3>1, <3>2 DEF Counts, Numbers
    <3> HIDE DEF n
    <3>4. \E i \in Counts' : factSamples' = seen'[i].samples /\ \A j \in Counts' : j <= i
      BY <3>1, <3>2, <3>3
    <3> QED BY <3>3, <3>4 DEF LastCount
  <2> QED BY <2>3, <2>4
<1> QED BY <1>9, <1>10, <1>11 DEF W64Inv

LEMMA SkippedBodies ==
  ASSUME W64Inv, DataSkipped \/ OtherBody
  PROVE  W64Inv'
<1>1. pc = "body" /\ CanSkip(pos, chunk.len) /\ ToPad /\ UNCHANGED <<fmt, factSamples, seen>>
      /\ chunk.guid \in {"data", "other"}
  BY DEF DataSkipped, OtherBody, Body, found
<1>2. W64Types /\ Grown /\ chunk.len \in Nat
  BY <1>1, SeenStays, WalkFacts DEF W64Inv
<1>3. /\ W64Types' /\ W64Place' /\ ChunksAreAdjacent' /\ FirstChunksWin'
      /\ Len(seen) \in Behind' /\ Behind \subseteq Behind'
      /\ \A i \in Behind' : i \in Behind \/ i = Len(seen)
      /\ Len(seen) \in DOMAIN seen /\ seen[Len(seen)].guid = chunk.guid
  BY <1>1, <1>2, BodyPassed
<1>4. FirstFmt' /\ LastCount'
  <2>1. chunk.guid # "fmt "
    BY <1>1
  <2> QED BY <1>1, <1>2, <1>3, <2>1, FmtStays, CountStays DEF W64Inv
<1>5. FirstData'
  <2>1. CASE pending # NoData \/ chunk.guid # "data"
    <3>1. pending' = pending
      BY <1>1, <2>1 DEF DataSkipped, OtherBody, Body, found
    <3> QED BY <1>1, <1>2, <1>3, <2>1, <3>1, DataStays DEF W64Inv
  <2>2. CASE pending = NoData /\ chunk.guid = "data"
    <3> DEFINE n == Len(seen)
    <3>1. pending' = ThisData
      BY <2>2 DEF DataSkipped, OtherBody, Body
    <3>2. n \in Nat /\ DOMAIN seen = 1 .. n /\ n \in 1 .. n
      BY <1>2, <1>3, WalkFacts
    <3>3. \A i \in 1 .. (n - 1) : seen[i].guid # "data"
      BY <1>1, <2>2 DEF W64Inv, FirstData, Behind
    <3>4. IsFirst(n, "data")
      BY <1>3, <2>2, <3>2, <3>3, FirstIs
    <3>5. pending'.at = seen[n].at /\ pending'.declared = seen[n].len
      BY <1>1, <3>1 DEF ThisData, W64Inv, W64Place
    <3>6. pending' # NoData
      BY <1>2, <3>1, WalkNumerals DEF ThisData, NoData
    <3> HIDE DEF n
    <3>7. PICK d : d = n
      OBVIOUS
    <3>8. IsFirst(d, "data")'
      BY <1>2, <3>4, <3>7, FirstStays
    <3>9. d \in Behind' /\ pending'.at = seen'[d].at /\ pending'.declared = seen'[d].len
      BY <1>1, <1>3, <3>5, <3>7 DEF n
    <3> QED BY <3>6, <3>8, <3>9 DEF FirstData
  <2> QED BY <2>1, <2>2
<1> QED BY <1>3, <1>4, <1>5 DEF W64Inv

-----------------------------------------------------------------------------
(* The header is returned: everything it says was kept for this moment.      *)
LEMMA FinishStep ==
  ASSUME W64Inv, pc # "done", NEW data, Finish(data), fmt # 0, data.at \in Nat,
         NEW i \in DOMAIN seen, IsFirst(i, "data"),
         data.at = seen[i].at, data.declared = seen[i].len
  PROVE  W64Inv'
<1>1. /\ pos' = data.at /\ pc' = "done" /\ result' = "Ok"
      /\ header' = [at |-> data.at, declared |-> data.declared,
                    samples |-> factSamples, fmt |-> fmt]
      /\ UNCHANGED <<fileLen, lengthKnown, chunk, seen>>
  BY DEF Finish, source
<1>2. header'.at = data.at /\ header'.declared = data.declared
      /\ header'.samples = factSamples /\ header'.fmt = fmt
  BY <1>1
<1>3. W64Types' /\ W64Place'
  BY <1>1 DEF W64Inv, W64Types, W64Place
<1>4. FirstFmt' /\ FirstData'
  BY <1>1 DEF FirstFmt, FirstData
<1>5. ChunksAreAdjacent'
  BY <1>1 DEF W64Inv, ChunksAreAdjacent
<1>6. Numbers("fmt ")' = Numbers("fmt ") /\ Numbers("data")' = Numbers("data") /\ Counts' = Counts
  BY <1>1 DEF Numbers, Counts
<1>7. IsFirst(fmt, "fmt ") /\ LastCount
  BY DEF W64Inv, FirstFmt
<1>8. IsFirst(header.fmt, "fmt ")'
  BY <1>2, <1>6, <1>7 DEF IsFirst
<1>9. (\E j \in Numbers("data") :
         /\ IsFirst(j, "data")
         /\ header.at = seen[j].at /\ header.declared = seen[j].len)'
  <2>1. i \in Numbers("data")' /\ IsFirst(i, "data")'
    BY <1>6 DEF IsFirst
  <2>2. header'.at = seen'[i].at /\ header'.declared = seen'[i].len
    BY <1>1, <1>2
  <2> QED BY <2>1, <2>2
<1>10. (IF Counts = {} THEN header.samples = None
        ELSE \E j \in Counts :
               header.samples = seen[j].samples /\ \A k \in Counts : k <= j)'
  BY <1>1, <1>2, <1>6, <1>7 DEF LastCount
<1>11. FirstChunksWin'
  BY <1>1, <1>2, <1>8, <1>9, <1>10 DEF FirstChunksWin
<1> QED BY <1>1, <1>3, <1>4, <1>5, <1>11 DEF W64Inv

LEMMA DataBodyStep ==
  ASSUME W64Inv, DataBody
  PROVE  W64Inv'
<1> DEFINE n == Len(seen)
<1>1. pc = "body" /\ chunk.guid = "data" /\ pending = NoData /\ fmt # 0 /\ Finish(ThisData)
  BY DEF DataBody, Body
<1>2. /\ W64Types /\ n \in Nat /\ DOMAIN seen = 1 .. n /\ pos \in Nat /\ seen \in Seq(W64Chunks)
      /\ seen # <<>> /\ seen[n].guid = "data" /\ pos = seen[n].at /\ chunk.len = seen[n].len
  BY <1>1, WalkFacts DEF W64Inv, W64Types, W64Place
<1>3. n \in 1 .. n
  BY <1>2, EmptySeq
<1>4. \A i \in 1 .. (n - 1) : seen[i].guid # "data"
  BY <1>1 DEF W64Inv, FirstData, Behind
<1>5. IsFirst(n, "data")
  BY <1>2, <1>3, <1>4, FirstIs
<1> HIDE DEF n
<1>6. PICK data : data = ThisData
  OBVIOUS
<1>7. PICK i \in DOMAIN seen : i = n
  BY <1>2, <1>3
<1>8. data.at \in Nat /\ data.at = seen[i].at /\ data.declared = seen[i].len
  BY <1>2, <1>6, <1>7 DEF ThisData
<1>9. Finish(data) /\ IsFirst(i, "data") /\ pc # "done"
  <2>1. Finish(data)
    BY <1>1, <1>6 DEF Finish
  <2> QED BY <1>1, <1>5, <1>7, <2>1
<1> QED BY <1>1, <1>8, <1>9, FinishStep

LEMMA WalkEndsStep ==
  ASSUME W64Inv, WalkEnds
  PROVE  W64Inv'
<1>1. CASE Fail("MissingChunk")
  BY <1>1, WalkFails
<1>2. CASE fmt # 0 /\ pending # NoData /\ Finish(pending)
  <2>1. pc = "end"
    BY DEF WalkEnds
  <2>2. PICK i \in Behind :
          IsFirst(i, "data") /\ pending.at = seen[i].at /\ pending.declared = seen[i].len
    BY <1>2, <2>1 DEF W64Inv, FirstData
  <2>3. i \in DOMAIN seen /\ seen[i].at \in Nat
    BY <2>2, WalkFacts, ChunkOf DEF W64Inv, W64Types
  <2>4. PICK data : data = pending
    OBVIOUS
  <2>5. Finish(data)
    BY <1>2, <2>4 DEF Finish
  <2> QED BY <1>2, <2>1, <2>2, <2>3, <2>4, <2>5, FinishStep
<1> QED BY <1>1, <1>2 DEF WalkEnds

LEMMA WalkStarts ==
  ASSUME WalkInit
  PROVE  W64Inv
<1>1. /\ pc = "start" /\ seen = <<>> /\ result = "None" /\ fmt = 0 /\ pending = NoData
      /\ factSamples = None /\ fileLen \in FileLens /\ lengthKnown \in BOOLEAN /\ pos = 0
      /\ chunk = [guid |-> "other", len |-> 0, at |-> 0, samples |-> 0]
  BY DEF WalkInit, SourceInit, Chunk
<1>2. W64Types
  BY <1>1 DEF W64Types, W64Chunks, Guids
<1>3. Len(seen) = 0 /\ DOMAIN seen = {} /\ Behind = {}
  BY <1>1 DEF Behind
<1>4. FirstFmt /\ FirstData
  BY <1>1, <1>3 DEF FirstFmt, FirstData
<1>5. LastCount
  BY <1>1, <1>3 DEF LastCount, Counts, Numbers
<1>6. W64Place /\ ChunksAreAdjacent /\ FirstChunksWin
  BY <1>1, <1>3 DEF W64Place, ChunksAreAdjacent, FirstChunksWin
<1> QED BY <1>2, <1>4, <1>5, <1>6 DEF W64Inv

LEMMA WalkStep ==
  ASSUME W64Inv, [WalkNext]_walkVars
  PROVE  W64Inv'
<1>1. CASE UNCHANGED walkVars
  <2>1. UNCHANGED <<fileLen, lengthKnown, pos, pc, chunk, fmt, pending, factSamples, result,
                    header, seen>>
    BY <1>1 DEF walkVars, source, found, returned
  <2>2. W64Types' /\ W64Place'
    BY <2>1 DEF W64Inv, W64Types, W64Place, LastEnd
  <2>3. FirstFmt' /\ FirstData' /\ (pc # "done" => LastCount)'
    BY <2>1 DEF W64Inv, FirstFmt, FirstData, LastCount, Behind, IsFirst, Numbers, Counts
  <2>4. ChunksAreAdjacent' /\ FirstChunksWin'
    BY <2>1 DEF W64Inv, ChunksAreAdjacent, FirstChunksWin, IsFirst, Numbers, Counts
  <2> QED BY <2>2, <2>3, <2>4 DEF W64Inv
<1> QED BY <1>1, ReadFormStep, LeaveLoopStep, ReadHeaderStep, RefusalSteps, FmtBodyStep, FactBodyStep,
     DataBodyStep, SkippedBodies, SkipPadStep, WalkEndsStep DEF WalkNext, Walk

(* What the invariant says of a walk that is under way. *)
THEOREM WalkInvariant == WalkSpec => []W64Inv
BY WalkStarts, WalkStep, PTL DEF WalkSpec

(* header/riff.rs, parse_header_w64: in files of every length, whatever sizes the    *)
(* chunks state, every chunk is looked for where the one before ends, rounded up to   *)
(* eight bytes, behind bodies that were parsed, read over or skipped by a seek.    *)
THEOREM ChunksFollow == WalkSpec => []ChunksAreAdjacent
<1>1. W64Inv => ChunksAreAdjacent
  BY DEF W64Inv
<1> QED BY <1>1, WalkInvariant, PTL

(* header/riff.rs, parse_header_w64 and wav_header: the header returned is made of    *)
(* the first fmt and the first data chunk and of the last fact that counts, also if   *)
(* the data came before the fmt and the walk had to go back to it.                *)
THEOREM FirstChunksReturned == WalkSpec => []FirstChunksWin
<1>1. W64Inv => FirstChunksWin
  BY DEF W64Inv
<1> QED BY <1>1, WalkInvariant, PTL
=============================================================================
