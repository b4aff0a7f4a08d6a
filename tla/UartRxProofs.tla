---------------------------- MODULE UartRxProofs ----------------------------
(***************************************************************************)
(* read_serial over the circular DMA implements SerialFifo, takes all that *)
(* was there before it gives up, and gives up only after its time, for     *)
(* every size of the ring, every modulus of the tick counter and every set *)
(* of calls, as long as the peer leaves one cell of the ring free          *)
(* (MaxUnread) and a turn of the loop fits the clock (MaxLag).             *)
(***************************************************************************)
EXTENDS UartRx, SequenceTheorems, TLAPS

\* The positions: what was seen and not copied is a part of what is unread.
Positions ==
  /\ Unread <= MaxUnread
  /\ Len(buf) <= count
  /\ pc = "copy" => Distance(last_pos, dma_pos) <= Unread

\* The clock: elapsed is what the code computes as (tick - start) % TickMod.
Clock ==
  /\ pc # "idle" => timeout \in Timeouts
  /\ pc # "idle" /\ timeout >= 0 =>
    /\ elapsed = lag \/ elapsed < timeout + lag
    /\ elapsed < TickMod
    /\ tick = IF start + elapsed < TickMod THEN start + elapsed
                                           ELSE start + elapsed - TickMod

\* What was there when the call began is read or still in the ring, in order;
\* while the code copies, it is read or was seen.
StartKept ==
  /\ pc # "idle" =>
       /\ Len(atStart) <= Len(buf) + Unread
       /\ \A i \in 1..Len(atStart) : atStart[i] = (buf \o Pending)[i]
  /\ pc = "copy" => Len(atStart) <= Len(buf) + Distance(last_pos, dma_pos)

UartInv ==
  /\ UartTypeOK /\ Positions /\ Clock /\ StartKept
  /\ ShortHasWaited /\ ShortTakesAll

-----------------------------------------------------------------------------
(* Positions in the ring. *)

LEMMA DistanceBounds ==
  ASSUME NEW i \in 0..N - 1, NEW j \in 0..N - 1
  PROVE  /\ Distance(i, j) \in 0..N - 1 /\ Distance(i, j) \in Nat
         /\ Distance(i, j) = 0 <=> i = j
BY UartAssumption DEF Distance

LEMMA DistanceSucc ==
  ASSUME NEW i \in 0..N - 1, NEW j \in 0..N - 1
  PROVE  /\ Succ(i) \in 0..N - 1
         /\ Distance(i, j) < N - 1 => Distance(i, Succ(j)) = Distance(i, j) + 1
         /\ i # j => Distance(Succ(i), j) = Distance(i, j) - 1
BY UartAssumption DEF Distance, Succ

\* What is in the ring from l up to w.
LEMMA ContentsType ==
  ASSUME NEW r \in [0..N - 1 -> Byte], NEW l \in 0..N - 1, NEW w \in 0..N - 1
  PROVE  /\ Contents(r, l, w) \in Seq(Byte)
         /\ Len(Contents(r, l, w)) = Distance(l, w)
         /\ \A i \in 1..Distance(l, w) :
              /\ Cell(l, i - 1) \in 0..N - 1
              /\ Contents(r, l, w)[i] = r[Cell(l, i - 1)]
<1> DEFINE d == Distance(l, w)
<1>1. d \in 0..N - 1 /\ d \in Nat
  BY DistanceBounds
<1>2. Contents(r, l, w) = [i \in 1..d |-> r[Cell(l, i - 1)]]
  BY DEF Contents
<1> HIDE DEF d
<1>3. \A i \in 1..d : Cell(l, i - 1) \in 0..N - 1
  BY <1>1, UartAssumption DEF Cell
<1>4. \A i \in 1..d : r[Cell(l, i - 1)] \in Byte
  BY <1>3
<1>5. Contents(r, l, w) \in [1..d -> Byte]
  BY <1>2, <1>4
<1>6. Contents(r, l, w) \in Seq(Byte) /\ Len(Contents(r, l, w)) = d
  BY <1>1, <1>5
<1> QED
  BY <1>2, <1>3, <1>6 DEF d

\* Writing the cell behind the contents appends to them.
LEMMA ContentsAppend ==
  ASSUME NEW r \in [0..N - 1 -> Byte], NEW l \in 0..N - 1, NEW w \in 0..N - 1,
         NEW b \in Byte, Distance(l, w) < N - 1
  PROVE  Contents([r EXCEPT ![w] = b], l, Succ(w)) = Append(Contents(r, l, w), b)
<1> DEFINE d == Distance(l, w)
           q == [r EXCEPT ![w] = b]
           s == Contents(r, l, w)
           t == Contents(q, l, Succ(w))
<1>1. d \in Nat /\ d < N - 1 /\ N \in Nat
  BY DistanceBounds, UartAssumption
<1>2. Succ(w) \in 0..N - 1 /\ Distance(l, Succ(w)) = d + 1
  BY DistanceSucc
<1>3. q \in [0..N - 1 -> Byte]
  OBVIOUS
<1>4. /\ s \in Seq(Byte) /\ Len(s) = d
      /\ \A i \in 1..d : Cell(l, i - 1) \in 0..N - 1 /\ s[i] = r[Cell(l, i - 1)]
  BY ContentsType
<1>5. /\ t \in Seq(Byte) /\ Len(t) = d + 1
      /\ \A i \in 1..d + 1 : Cell(l, i - 1) \in 0..N - 1 /\ t[i] = q[Cell(l, i - 1)]
  <2> DEFINE k == Succ(w)
  <2> HIDE DEF q, k
  <2>1. k \in 0..N - 1 /\ q \in [0..N - 1 -> Byte]
    BY <1>2, <1>3 DEF k
  <2>2. /\ Contents(q, l, k) \in Seq(Byte)
        /\ Len(Contents(q, l, k)) = Distance(l, k)
        /\ \A i \in 1..Distance(l, k) : /\ Cell(l, i - 1) \in 0..N - 1
                                       /\ Contents(q, l, k)[i] = q[Cell(l, i - 1)]
    BY <2>1, ContentsType
  <2>3. Distance(l, k) = d + 1 /\ t = Contents(q, l, k)
    BY <1>2 DEF k
  <2> HIDE DEF d, t
  <2> QED
    BY <2>2, <2>3
<1>6. \A i \in 1..d + 1 : Cell(l, i - 1) = w <=> i = d + 1
  BY <1>1 DEF Cell, Distance
<1> HIDE DEF s, t, d
<1>7. /\ Append(s, b) \in Seq(Byte) /\ Len(Append(s, b)) = d + 1
      /\ \A i \in 1..d : Append(s, b)[i] = s[i]
      /\ Append(s, b)[d + 1] = b
  BY <1>4, AppendProperties
<1>8. ASSUME NEW i \in 1..d + 1 PROVE t[i] = Append(s, b)[i]
  <2>1. t[i] = IF Cell(l, i - 1) = w THEN b ELSE r[Cell(l, i - 1)]
    BY <1>5
  <2>2. i # d + 1 => i \in 1..d
    BY <1>1
  <2> QED
    BY <1>4, <1>6, <1>7, <2>1, <2>2
<1>9. t = Append(s, b)
  BY <1>5, <1>7, <1>8, SeqEqual
<1> QED
  BY <1>9 DEF s, t

\* Moving the first position on takes the head away.
LEMMA ContentsTail ==
  ASSUME NEW r \in [0..N - 1 -> Byte], NEW l \in 0..N - 1, NEW w \in 0..N - 1,
         l # w
  PROVE  /\ Contents(r, l, w) # <<>>
         /\ Head(Contents(r, l, w)) = r[l]
         /\ Contents(r, Succ(l), w) = Tail(Contents(r, l, w))
<1> DEFINE d == Distance(l, w)
           s == Contents(r, l, w)
           t == Contents(r, Succ(l), w)
<1>1. d \in Nat /\ d # 0 /\ N \in Nat
  BY DistanceBounds, UartAssumption
<1>2. Succ(l) \in 0..N - 1 /\ Distance(Succ(l), w) = d - 1
  BY DistanceSucc
<1>3. /\ s \in Seq(Byte) /\ Len(s) = d
      /\ \A i \in 1..d : Cell(l, i - 1) \in 0..N - 1 /\ s[i] = r[Cell(l, i - 1)]
  BY ContentsType
<1>4. /\ t \in Seq(Byte) /\ Len(t) = d - 1
      /\ \A i \in 1..d - 1 : t[i] = r[Cell(Succ(l), i - 1)]
  <2> DEFINE k == Succ(l)
  <2> HIDE DEF k
  <2>1. k \in 0..N - 1
    BY <1>2 DEF k
  <2>2. /\ Contents(r, k, w) \in Seq(Byte)
        /\ Len(Contents(r, k, w)) = Distance(k, w)
        /\ \A i \in 1..Distance(k, w) : Contents(r, k, w)[i] = r[Cell(k, i - 1)]
    BY <2>1, ContentsType
  <2>3. Distance(k, w) = d - 1 /\ t = Contents(r, k, w)
    BY <1>2 DEF k
  <2> HIDE DEF d, t
  <2> QED
    BY <2>2, <2>3 DEF k
<1>5. \A i \in 1..d - 1 : Cell(Succ(l), i - 1) = Cell(l, i) /\ (i + 1) - 1 = i
  BY <1>1, UartAssumption DEF Cell, Succ, Distance
<1>6. Cell(l, 0) = l
  BY UartAssumption DEF Cell
<1> HIDE DEF s, t, d
<1>7. s # <<>> /\ Head(s) = r[l]
  <2>1. s # <<>> /\ 1 \in 1..d /\ Head(s) = s[1]
    BY <1>1, <1>3
  <2>2. s[1] = r[Cell(l, 1 - 1)]
    BY <1>3, <2>1
  <2> QED
    BY <1>6, <2>1, <2>2
<1>8. /\ Tail(s) \in Seq(Byte) /\ Len(Tail(s)) = d - 1
      /\ \A i \in 1..d - 1 : Tail(s)[i] = s[i + 1]
  BY <1>3, <1>7, HeadTailProperties
<1>9. ASSUME NEW i \in 1..d - 1 PROVE t[i] = Tail(s)[i]
  <2>1. i + 1 \in 1..d
    BY <1>1
  <2>2. s[i + 1] = r[Cell(l, (i + 1) - 1)]
    BY <1>3, <2>1
  <2> QED
    BY <1>4, <1>5, <1>8, <2>2
<1>10. t = Tail(s)
  BY <1>4, <1>8, <1>9, SeqEqual
<1> QED
  BY <1>7, <1>10 DEF s, t

-----------------------------------------------------------------------------
(* The two steps that change what is unread. *)

LEMMA DmaAppends ==
  ASSUME UartTypeOK, NEW b \in Byte, DmaByte(b)
  PROVE  /\ Pending' = Append(Pending, b) /\ Unread' = Unread + 1
         /\ UartTypeOK'
<1>1. /\ Distance(last_pos, wr) < N - 1 /\ ring \in [0..N - 1 -> Byte]
      /\ wr \in 0..N - 1 /\ last_pos \in 0..N - 1
      /\ wr' = Succ(wr) /\ last_pos' = last_pos /\ ring' = [ring EXCEPT ![wr] = b]
  <2>1. Unread \in Nat
    BY DistanceBounds DEF Unread, UartTypeOK
  <2> QED
    BY <2>1, UartAssumption DEF DmaByte, callVars, UartTypeOK, Unread
<1>2. Unread' = Unread + 1
  BY <1>1, DistanceSucc DEF Unread
<1>3. UartTypeOK'
  BY <1>1, DistanceSucc DEF UartTypeOK, DmaByte, callVars, timeVars
<1>4. Pending' = Append(Pending, b)
  BY <1>1, ContentsAppend DEF Pending
<1> QED
  BY <1>2, <1>3, <1>4

\* A byte that the code copies is the first unread one.
LEMMA CopyTakes ==
  ASSUME UartTypeOK, Positions, Copy
  PROVE  /\ Unread' = Unread - 1
         /\ Distance(last_pos, dma_pos)' = Distance(last_pos, dma_pos) - 1
         /\ Pending # <<>> /\ Pending' = Tail(Pending)
         /\ buf' = Append(buf, Head(Pending))
         /\ UartTypeOK'
<1>1. /\ wr \in 0..N - 1 /\ last_pos \in 0..N - 1 /\ dma_pos \in 0..N - 1
      /\ ring \in [0..N - 1 -> Byte]
      /\ wr' = wr /\ last_pos' = Succ(last_pos) /\ ring' = ring
      /\ dma_pos' = dma_pos /\ last_pos # dma_pos
      /\ buf' = Append(buf, ring[last_pos])
  BY DEF Copy, CanCopy, dmaVars, UartTypeOK
<1>2. last_pos # wr
  <2>1. /\ Distance(last_pos, dma_pos) \in Nat /\ Distance(last_pos, dma_pos) # 0
        /\ Distance(last_pos, wr) \in Nat
    BY <1>1, DistanceBounds
  <2>2. Distance(last_pos, wr) # 0
    BY <2>1 DEF Positions, Copy, Unread
  <2> QED
    BY <1>1, <2>2, DistanceBounds
<1>3. Unread' = Unread - 1
  BY <1>1, <1>2, DistanceSucc DEF Unread
<1>4. Distance(last_pos, dma_pos)' = Distance(last_pos, dma_pos) - 1
  BY <1>1, DistanceSucc
<1>5. UartTypeOK'
  <2>1. last_pos' \in 0..N - 1
    BY <1>1, DistanceSucc
  <2>2. ring[last_pos] \in Byte /\ buf \in Seq(Byte)
    BY <1>1 DEF UartTypeOK
  <2>3. buf' \in Seq(Byte)
    BY <1>1, <2>2
  <2> QED
    BY <1>1, <2>1, <2>3 DEF UartTypeOK, Copy, dmaVars, timeVars
<1>6. Pending # <<>> /\ Head(Pending) = ring[last_pos] /\ Pending' = Tail(Pending)
  BY <1>1, <1>2, ContentsTail DEF Pending
<1> QED
  BY <1>1, <1>3, <1>4, <1>5, <1>6

LEMMA UartNats ==
  ASSUME UartTypeOK
  PROVE  /\ Unread \in Nat /\ MaxUnread \in Nat /\ Distance(last_pos, dma_pos) \in Nat
         /\ Len(buf) \in Nat /\ Len(atStart) \in Nat /\ count \in Nat
         /\ buf \in Seq(Byte) /\ atStart \in Seq(Byte)
         /\ Pending \in Seq(Byte) /\ Len(Pending) = Unread
<1>1. Unread \in Nat /\ Distance(last_pos, dma_pos) \in Nat
  BY DistanceBounds DEF UartTypeOK, Unread
<1>2. MaxUnread \in Nat /\ count \in Nat
  BY UartAssumption DEF UartTypeOK
<1>3. buf \in Seq(Byte) /\ atStart \in Seq(Byte)
  BY DEF UartTypeOK
<1>4. Pending \in Seq(Byte) /\ Len(Pending) = Unread
  BY ContentsType DEF UartTypeOK, Pending, Unread
<1> QED
  BY <1>1, <1>2, <1>3, <1>4

\* Moving the head of p to the end of s changes nothing in s \o p.
LEMMA ConcatMove ==
  ASSUME NEW s \in Seq(Byte), NEW p \in Seq(Byte), p # <<>>
  PROVE  Append(s, Head(p)) \o Tail(p) = s \o p
<1> DEFINE h == Head(p)
           r == Tail(p)
           a == Append(s, h)
<1>1. /\ h \in Byte /\ r \in Seq(Byte) /\ Len(r) = Len(p) - 1 /\ Len(p) \in Nat \ {0}
      /\ h = p[1] /\ \A i \in 1..Len(p) - 1 : r[i] = p[i + 1]
  BY HeadTailProperties
<1> HIDE DEF h, r
<1>2. /\ a \in Seq(Byte) /\ Len(a) = Len(s) + 1 /\ Len(s) \in Nat
      /\ \A i \in 1..Len(s) : a[i] = s[i] /\ a[Len(s) + 1] = h
      /\ a[Len(s) + 1] = h
  BY <1>1, AppendProperties
<1> HIDE DEF a
<1>3. /\ a \o r \in Seq(Byte) /\ Len(a \o r) = Len(a) + Len(r)
      /\ \A i \in 1..Len(a) + Len(r) :
           (a \o r)[i] = IF i <= Len(a) THEN a[i] ELSE r[i - Len(a)]
  BY <1>1, <1>2, ConcatProperties
<1>4. /\ s \o p \in Seq(Byte) /\ Len(s \o p) = Len(s) + Len(p)
      /\ \A i \in 1..Len(s) + Len(p) :
           (s \o p)[i] = IF i <= Len(s) THEN s[i] ELSE p[i - Len(s)]
  BY ConcatProperties
<1>5. Len(a \o r) = Len(s \o p)
  BY <1>1, <1>2, <1>3, <1>4
<1>6. ASSUME NEW i \in 1..Len(a \o r) PROVE (a \o r)[i] = (s \o p)[i]
  <2>1. i \in 1..Len(s) + Len(p) /\ i \in 1..Len(a) + Len(r) /\ i \in Nat
    BY <1>1, <1>2, <1>3, <1>4, <1>5
  <2>2. CASE i <= Len(s)
    BY <1>1, <1>2, <1>3, <1>4, <2>1, <2>2
  <2>3. CASE i = Len(s) + 1
    BY <1>1, <1>2, <1>3, <1>4, <2>1, <2>3
  <2>4. CASE i > Len(s) + 1
    <3>1. i - Len(a) \in 1..Len(p) - 1 /\ (i - Len(a)) + 1 = i - Len(s)
      BY <1>1, <1>2, <2>1, <2>4
    <3>2. (a \o r)[i] = r[i - Len(a)]
      BY <1>2, <1>3, <2>1, <2>4
    <3>3. r[i - Len(a)] = p[(i - Len(a)) + 1]
      BY <1>1, <3>1
    <3>4. (s \o p)[i] = p[i - Len(s)]
      BY <1>2, <1>4, <2>1, <2>4
    <3> QED
      BY <3>1, <3>2, <3>3, <3>4
  <2> QED
    BY <1>2, <2>1, <2>2, <2>3, <2>4
<1> QED
  BY <1>3, <1>4, <1>5, <1>6, SeqEqual DEF a, h, r

\* The code's difference of two readings of the counter is the elapsed time,
\* also across the wrap.
LEMMA TickDifference ==
  ASSUME NEW s \in 0..TickMod - 1, NEW e \in 0..TickMod - 1, NEW t,
         t = IF s + e < TickMod THEN s + e ELSE s + e - TickMod
  PROVE  (t - s) % TickMod = e
<1>1. TickMod \in Nat \ {0}
  BY UartAssumption
<1>2. CASE s + e < TickMod
  <2>1. t - s = e
    BY <1>1, <1>2
  <2>2. e % TickMod = e
    BY <1>1, SMT
  <2> QED
    BY <2>1, <2>2
<1>3. CASE ~(s + e < TickMod)
  <2>1. t - s = e - TickMod
    BY <1>1, <1>3
  <2>2. (e - TickMod) % TickMod = e
    BY <1>1, SMT
  <2> QED
    BY <2>1, <2>2
<1> QED
  BY <1>2, <1>3

LEMMA TickSucc ==
  ASSUME NEW t \in 0..TickMod - 1
  PROVE  (t + 1) % TickMod = IF t + 1 < TickMod THEN t + 1 ELSE 0
BY UartAssumption, SMT

-----------------------------------------------------------------------------
(* The steps preserve the invariant. *)

LEMMA DmaByteInv ==
  ASSUME UartInv, NEW b \in Byte, DmaByte(b)
  PROVE  UartInv'
<1>1. /\ Pending' = Append(Pending, b) /\ Unread' = Unread + 1 /\ UartTypeOK'
  BY DmaAppends DEF UartInv
<1>2. /\ buf' = buf /\ count' = count /\ pc' = pc /\ timeout' = timeout
      /\ last_pos' = last_pos /\ dma_pos' = dma_pos /\ start' = start
      /\ atStart' = atStart /\ tick' = tick /\ lag' = lag /\ elapsed' = elapsed
      /\ Unread < MaxUnread
  BY DEF DmaByte, callVars, timeVars
<1>3. /\ Unread \in Nat /\ MaxUnread \in Nat /\ Len(buf) \in Nat /\ Len(atStart) \in Nat
      /\ Distance(last_pos, dma_pos) \in Nat /\ count \in Nat
      /\ buf \in Seq(Byte) /\ Pending \in Seq(Byte) /\ Len(Pending) = Unread
  BY UartNats DEF UartInv
<1>4. Positions'
  <2>1. Distance(last_pos, dma_pos)' = Distance(last_pos, dma_pos)
    BY <1>2 DEF Distance
  <2> QED
    BY <1>1, <1>2, <1>3, <2>1 DEF UartInv, Positions
<1>5. Clock' /\ ShortHasWaited' /\ ShortTakesAll'
  BY <1>2 DEF UartInv, Clock, ShortHasWaited, ShortTakesAll, Short
<1>6. StartKept'
  <2>1. Distance(last_pos, dma_pos)' = Distance(last_pos, dma_pos)
    BY <1>2 DEF Distance
  <2> DEFINE p == Pending
             q == Append(p, b)
  <2>2. p \in Seq(Byte) /\ Len(p) = Unread
    BY <1>3
  <2> HIDE DEF p
  <2>3. q \in Seq(Byte) /\ Len(q) = Unread + 1 /\ \A i \in 1..Unread : q[i] = p[i]
    BY <2>2, AppendProperties
  <2> HIDE DEF q
  <2>4. \A i \in 1..Len(buf) + Len(p) :
          (buf \o p)[i] = IF i <= Len(buf) THEN buf[i] ELSE p[i - Len(buf)]
    BY <1>3, <2>2, ConcatProperties
  <2>5. \A i \in 1..Len(buf) + Len(q) :
          (buf \o q)[i] = IF i <= Len(buf) THEN buf[i] ELSE q[i - Len(buf)]
    BY <1>3, <2>3, ConcatProperties
  <2>6. ASSUME NEW i \in 1..Len(buf) + Unread
        PROVE  (buf \o q)[i] = (buf \o p)[i]
    <3>1. /\ i \in 1..Len(buf) + Len(p) /\ i \in 1..Len(buf) + Len(q)
          /\ ~(i <= Len(buf)) => i - Len(buf) \in 1..Unread
      BY <1>3, <2>2, <2>3
    <3> QED
      BY <2>3, <2>4, <2>5, <3>1
  <2>7. ASSUME pc # "idle"
        PROVE  /\ Len(atStart) <= Len(buf) + (Unread + 1)
               /\ \A i \in 1..Len(atStart) : atStart[i] = (buf \o q)[i]
    <3>1. /\ Len(atStart) <= Len(buf) + Unread
          /\ \A i \in 1..Len(atStart) : atStart[i] = (buf \o p)[i]
      BY <2>7 DEF UartInv, StartKept, p
    <3>2. Len(atStart) <= Len(buf) + (Unread + 1)
      BY <1>3, <3>1
    <3>3. ASSUME NEW i \in 1..Len(atStart) PROVE atStart[i] = (buf \o q)[i]
      <4>1. i \in 1..Len(buf) + Unread
        BY <1>3, <3>1
      <4>2. (buf \o q)[i] = (buf \o p)[i]
        BY <2>6, <4>1
      <4> QED
        BY <3>1, <4>2
    <3> QED
      BY <3>2, <3>3
  <2>8. Pending' = q
    BY <1>1 DEF p, q
  <2>9. /\ pc' # "idle" =>
             /\ Len(atStart') <= Len(buf') + Unread'
             /\ \A i \in 1..Len(atStart') : atStart'[i] = (buf' \o Pending')[i]
        /\ pc' = "copy" => Len(atStart') <= Len(buf') + Distance(last_pos, dma_pos)'
    BY <1>1, <1>2, <2>1, <2>7, <2>8 DEF UartInv, StartKept
  <2> QED
    BY <2>9 DEF StartKept
<1> QED
  BY <1>1, <1>4, <1>5, <1>6 DEF UartInv

LEMMA CopyInv ==
  ASSUME UartInv, Copy
  PROVE  UartInv'
<1>1. /\ Unread' = Unread - 1
      /\ Distance(last_pos, dma_pos)' = Distance(last_pos, dma_pos) - 1
      /\ Pending # <<>> /\ Pending' = Tail(Pending)
      /\ buf' = Append(buf, Head(Pending))
      /\ UartTypeOK'
  BY CopyTakes DEF UartInv
<1>2. /\ count' = count /\ pc' = pc /\ pc = "copy" /\ timeout' = timeout
      /\ start' = start /\ atStart' = atStart /\ tick' = tick /\ lag' = lag
      /\ elapsed' = elapsed /\ Len(buf) < count
  BY DEF Copy, CanCopy, timeVars
<1>3. /\ Unread \in Nat /\ MaxUnread \in Nat /\ Len(buf) \in Nat /\ Len(atStart) \in Nat
      /\ Distance(last_pos, dma_pos) \in Nat /\ count \in Nat /\ buf \in Seq(Byte)
  BY UartNats DEF UartInv
<1>4. Pending \in Seq(Byte)
  BY UartNats DEF UartInv
<1>5. Len(buf') = Len(buf) + 1
  BY <1>1, <1>3, <1>4, HeadTailProperties, AppendProperties
<1>6. Positions'
  BY <1>1, <1>2, <1>3, <1>5 DEF UartInv, Positions
<1>7. Clock' /\ ShortHasWaited' /\ ShortTakesAll'
  BY <1>2 DEF UartInv, Clock, ShortHasWaited, ShortTakesAll, Short
<1>8. buf' \o Pending' = buf \o Pending
  BY <1>1, <1>3, <1>4, ConcatMove
<1>9. StartKept'
  <2>1. /\ Len(atStart) <= Len(buf) + Distance(last_pos, dma_pos)
        /\ Len(atStart) <= Len(buf) + Unread
        /\ \A i \in 1..Len(atStart) : atStart[i] = (buf \o Pending)[i]
    BY <1>2 DEF UartInv, StartKept
  <2>2. /\ Len(atStart') <= Len(buf') + Distance(last_pos, dma_pos)'
        /\ Len(atStart') <= Len(buf') + Unread'
    BY <1>1, <1>2, <1>3, <1>5, <2>1
  <2>3. \A i \in 1..Len(atStart') : atStart'[i] = (buf' \o Pending')[i]
    BY <1>2, <1>8, <2>1
  <2> QED
    BY <2>2, <2>3 DEF StartKept
<1> QED
  BY <1>1, <1>6, <1>7, <1>9 DEF UartInv

LEMMA TickInv ==
  ASSUME UartInv, Tick
  PROVE  UartInv'
<1>1. /\ ring' = ring /\ wr' = wr /\ last_pos' = last_pos /\ dma_pos' = dma_pos
      /\ count' = count /\ timeout' = timeout /\ buf' = buf /\ start' = start
      /\ atStart' = atStart /\ pc' = pc /\ tick' = (tick + 1) % TickMod
  BY DEF Tick, dmaVars, callVars
<1>2. /\ tick \in 0..TickMod - 1 /\ start \in 0..TickMod - 1 /\ lag \in 0..MaxLag
      /\ elapsed \in Nat /\ TickMod \in Nat \ {0} /\ MaxLag \in Nat
      /\ timeout \in Int
  BY UartAssumption DEF UartInv, UartTypeOK
<1>3. tick' = IF tick + 1 < TickMod THEN tick + 1 ELSE 0
  BY <1>1, <1>2, TickSucc
<1>4. Positions' /\ StartKept' /\ ShortTakesAll'
  BY <1>1 DEF UartInv, Positions, StartKept, ShortTakesAll, Short, Unread, Pending,
              Distance, Contents
<1>5. CASE pc = "idle" \/ timeout < 0
  <2>1. lag' = lag /\ elapsed' = elapsed
    BY <1>5 DEF Tick
  <2>2. UartTypeOK'
    BY <1>1, <1>2, <1>3, <2>1 DEF UartInv, UartTypeOK
  <2>3. Clock'
    BY <1>1, <1>5, <2>1, <1>2 DEF UartInv, Clock
  <2>4. ShortHasWaited'
    BY <1>1, <2>1 DEF UartInv, ShortHasWaited, Short
  <2> QED
    BY <1>4, <2>2, <2>3, <2>4 DEF UartInv
<1>6. CASE ~(pc = "idle" \/ timeout < 0)
  <2>1. lag < MaxLag /\ lag' = lag + 1 /\ elapsed' = elapsed + 1
    BY <1>6 DEF Tick
  <2>2. UartTypeOK'
    BY <1>1, <1>2, <1>3, <2>1 DEF UartInv, UartTypeOK
  <2>3. /\ timeout \in Timeouts
        /\ elapsed = lag \/ elapsed < timeout + lag
        /\ elapsed < TickMod
        /\ tick = IF start + elapsed < TickMod THEN start + elapsed
                                               ELSE start + elapsed - TickMod
    BY <1>2, <1>6 DEF UartInv, Clock
  <2>4. timeout + MaxLag < TickMod /\ timeout >= 0
    BY <1>2, <1>6, <2>3, UartAssumption
  <2>5. elapsed' = lag' \/ elapsed' < timeout + lag'
    BY <1>2, <2>1, <2>3
  <2>6. elapsed' < TickMod
    BY <1>2, <2>1, <2>3, <2>4
  <2>7. tick' = IF start + elapsed' < TickMod THEN start + elapsed'
                                              ELSE start + elapsed' - TickMod
    BY <1>2, <1>3, <2>1, <2>3, <2>6
  <2>8. Clock'
    BY <1>1, <2>3, <2>5, <2>6, <2>7 DEF Clock
  <2>9. ShortHasWaited'
    BY <1>1, <1>6 DEF ShortHasWaited, Short
  <2> QED
    BY <1>4, <2>2, <2>8, <2>9 DEF UartInv
<1> QED
  BY <1>5, <1>6

LEMMA CallInv ==
  ASSUME UartInv, NEW c \in Counts, NEW t \in Timeouts, Call(c, t)
  PROVE  UartInv'
<1>1. /\ ring' = ring /\ wr' = wr /\ last_pos' = last_pos /\ dma_pos' = dma_pos
      /\ tick' = tick /\ pc' = "loop" /\ count' = c /\ timeout' = t /\ buf' = <<>>
      /\ start' = tick /\ lag' = 0 /\ elapsed' = 0 /\ atStart' = Pending
  BY DEF Call, dmaVars
<1>2. /\ Unread \in Nat /\ Pending \in Seq(Byte) /\ Len(Pending) = Unread
      /\ c \in Nat /\ TickMod \in Nat \ {0} /\ MaxLag \in Nat /\ tick \in 0..TickMod - 1
  BY UartNats, UartAssumption DEF UartInv, UartTypeOK
<1>3. Unread' = Unread /\ Pending' = Pending
  BY <1>1 DEF Unread, Pending, Distance, Contents
<1>4. <<>> \in Seq(Byte) /\ Len(<<>>) = 0
  OBVIOUS
<1>5. UartTypeOK'
  BY <1>1, <1>2, <1>4 DEF UartInv, UartTypeOK
<1>6. Positions'
  BY <1>1, <1>2, <1>3, <1>4 DEF UartInv, Positions
<1>7. Clock'
  BY <1>1, <1>2 DEF Clock
<1>8. StartKept'
  <2>1. Pending = <<>> \o Pending
    BY <1>2, ConcatEmptySeq
  <2>2. Len(atStart') <= Len(buf') + Unread'
    BY <1>1, <1>2, <1>3, <1>4
  <2> QED
    BY <1>1, <1>3, <2>1, <2>2 DEF StartKept
<1>9. ShortHasWaited' /\ ShortTakesAll'
  BY <1>1 DEF ShortHasWaited, ShortTakesAll, Short
<1> QED
  BY <1>5, <1>6, <1>7, <1>8, <1>9 DEF UartInv

LEMMA LookInv ==
  ASSUME UartInv, Look
  PROVE  UartInv'
<1>1. /\ ring' = ring /\ wr' = wr /\ last_pos' = last_pos /\ dma_pos' = wr
      /\ count' = count /\ timeout' = timeout /\ buf' = buf /\ start' = start
      /\ atStart' = atStart /\ tick' = tick /\ lag' = lag /\ elapsed' = elapsed
      /\ pc = "loop" /\ pc' = "copy"
  BY DEF Look, dmaVars, timeVars
<1>2. Unread' = Unread /\ Pending' = Pending /\ Distance(last_pos, dma_pos)' = Unread
  BY <1>1 DEF Unread, Pending, Distance, Contents
<1>3. Unread \in Nat
  BY UartNats DEF UartInv
<1>4. UartTypeOK'
  BY <1>1 DEF UartInv, UartTypeOK
<1>5. Positions'
  BY <1>1, <1>2, <1>3 DEF UartInv, Positions
<1>6. Clock' /\ StartKept' /\ ShortHasWaited' /\ ShortTakesAll'
  BY <1>1, <1>2 DEF UartInv, Clock, StartKept, ShortHasWaited, ShortTakesAll, Short
<1> QED
  BY <1>4, <1>5, <1>6 DEF UartInv

LEMMA CheckTimeInv ==
  ASSUME UartInv, CheckTime
  PROVE  UartInv'
<1>1. /\ ring' = ring /\ wr' = wr /\ last_pos' = last_pos /\ dma_pos' = dma_pos
      /\ count' = count /\ timeout' = timeout /\ buf' = buf /\ start' = start
      /\ atStart' = atStart /\ tick' = tick /\ lag' = 0 /\ elapsed' = elapsed
      /\ pc = "copy" /\ pc' = IF Expired THEN "idle" ELSE "loop"
  BY DEF CheckTime, dmaVars, callVars
<1>2. Unread' = Unread /\ Pending' = Pending
  BY <1>1 DEF Unread, Pending, Distance, Contents
<1>3. /\ tick \in 0..TickMod - 1 /\ start \in 0..TickMod - 1 /\ lag \in 0..MaxLag
      /\ elapsed \in Nat /\ TickMod \in Nat \ {0} /\ MaxLag \in Nat
      /\ timeout \in Int
  BY UartAssumption DEF UartInv, UartTypeOK
<1>4. timeout \in Timeouts
  BY <1>1 DEF UartInv, Clock
<1>5. ASSUME timeout >= 0
      PROVE  /\ elapsed = lag \/ elapsed < timeout + lag
             /\ elapsed < TickMod
             /\ tick = IF start + elapsed < TickMod THEN start + elapsed
                                                    ELSE start + elapsed - TickMod
             /\ (tick - start) % TickMod = elapsed
  <2>1. /\ elapsed = lag \/ elapsed < timeout + lag
        /\ elapsed < TickMod
        /\ tick = IF start + elapsed < TickMod THEN start + elapsed
                                               ELSE start + elapsed - TickMod
    BY <1>1, <1>5 DEF UartInv, Clock
  <2>2. elapsed \in 0..TickMod - 1
    BY <1>3, <2>1
  <2>3. (tick - start) % TickMod = elapsed
    BY <1>3, <2>1, <2>2, TickDifference
  <2> QED
    BY <2>1, <2>3
<1>6. UartTypeOK'
  BY <1>1, <1>3 DEF UartInv, UartTypeOK
<1>7. Positions'
  BY <1>1, <1>2 DEF UartInv, Positions
<1>8. StartKept'
  BY <1>1, <1>2 DEF UartInv, StartKept
<1>9. CASE ~Expired
  <2>1. pc' = "loop"
    BY <1>1, <1>9
  <2>2. timeout >= 0 => elapsed < timeout
    BY <1>3, <1>5, <1>9 DEF Expired
  <2>3. Clock'
    BY <1>1, <1>3, <1>4, <1>5, <2>2 DEF Clock
  <2>4. ShortHasWaited' /\ ShortTakesAll'
    BY <2>1 DEF ShortHasWaited, ShortTakesAll, Short
  <2> QED
    BY <1>6, <1>7, <1>8, <2>3, <2>4 DEF UartInv
<1>10. CASE Expired
  <2>1. pc' = "idle"
    BY <1>1, <1>10
  <2>2. Clock'
    BY <2>1 DEF Clock
  <2>3. timeout >= 0 /\ elapsed >= timeout
    BY <1>5, <1>10 DEF Expired
  <2>4. elapsed <= timeout + MaxLag
    BY <1>3, <1>5, <2>3
  <2>5. ShortHasWaited'
    BY <1>1, <2>3, <2>4 DEF ShortHasWaited
  <2>6. ShortTakesAll'
    <3>1. SUFFICES ASSUME Len(buf) < count
                   PROVE  Len(atStart) <= Len(buf) /\ SubSeq(buf, 1, Len(atStart)) = atStart
      BY <1>1 DEF ShortTakesAll, Short
    <3>2. last_pos = dma_pos
      BY <1>1, <3>1 DEF CheckTime, CanCopy
    <3>3. Distance(last_pos, dma_pos) = 0
      BY <3>2, DistanceBounds DEF UartInv, UartTypeOK
    <3>4. Len(atStart) <= Len(buf) + 0
      BY <1>1, <3>3 DEF UartInv, StartKept
    <3>5. /\ Len(buf) \in Nat /\ Len(atStart) \in Nat /\ Unread \in Nat
          /\ buf \in Seq(Byte) /\ atStart \in Seq(Byte)
          /\ Pending \in Seq(Byte) /\ Len(Pending) = Unread
      BY UartNats DEF UartInv
    <3> DEFINE p == Pending
               k == Len(atStart)
               m == SubSeq(buf, 1, k)
    <3>6. \A i \in 1..k : atStart[i] = (buf \o p)[i]
      BY <1>1 DEF UartInv, StartKept
    <3>7. p \in Seq(Byte) /\ Len(p) = Unread /\ k \in Nat /\ k <= Len(buf)
      BY <3>4, <3>5
    <3>a. k = Len(atStart)
      OBVIOUS
    <3> HIDE DEF p, k
    <3>8. \A i \in 1..Len(buf) + Len(p) :
            (buf \o p)[i] = IF i <= Len(buf) THEN buf[i] ELSE p[i - Len(buf)]
      BY <3>5, <3>7, ConcatProperties
    <3>9. m \in Seq(Byte) /\ Len(m) = k /\ \A i \in 1..k : m[i] = buf[i]
      <4>1. \A i \in 1..k : buf[i] \in Byte
        BY <3>5, <3>7
      <4> QED
        BY <3>5, <3>7, <4>1
    <3> HIDE DEF m
    <3>10. ASSUME NEW i \in 1..k PROVE m[i] = atStart[i]
      <4>1. i \in 1..Len(buf) + Len(p) /\ i <= Len(buf)
        BY <3>5, <3>7
      <4> QED
        BY <3>6, <3>8, <3>9, <4>1
    <3>11. m = atStart
      BY <3>5, <3>9, <3>10, <3>a, SeqEqual
    <3> QED
      BY <3>7, <3>11 DEF m, k
  <2> QED
    BY <1>6, <1>7, <1>8, <2>2, <2>5, <2>6 DEF UartInv
<1> QED
  BY <1>9, <1>10

LEMMA ReturnFullInv ==
  ASSUME UartInv, ReturnFull
  PROVE  UartInv'
<1>1. /\ ring' = ring /\ wr' = wr /\ last_pos' = last_pos /\ dma_pos' = dma_pos
      /\ count' = count /\ timeout' = timeout /\ buf' = buf /\ start' = start
      /\ atStart' = atStart /\ tick' = tick /\ lag' = lag /\ elapsed' = elapsed
      /\ pc = "loop" /\ pc' = "idle" /\ Len(buf) = count
  BY DEF ReturnFull, dmaVars, callVars, timeVars
<1>2. Unread' = Unread /\ Pending' = Pending
  BY <1>1 DEF Unread, Pending, Distance, Contents
<1>3. UartTypeOK'
  BY <1>1 DEF UartInv, UartTypeOK
<1>4. Positions' /\ Clock' /\ StartKept'
  BY <1>1, <1>2 DEF UartInv, Positions, Clock, StartKept
<1>5. ~Short'
  <2>1. count \in Nat
    BY UartNats DEF UartInv
  <2> QED
    BY <1>1, <2>1 DEF Short
<1> QED
  BY <1>3, <1>4, <1>5 DEF UartInv, ShortHasWaited, ShortTakesAll

LEMMA UartStutter ==
  ASSUME UartInv, UNCHANGED uartVars
  PROVE  UartInv' /\ UNCHANGED <<Pending, pc # "idle", count, timeout, buf>>
<1>1. /\ ring' = ring /\ wr' = wr /\ last_pos' = last_pos /\ dma_pos' = dma_pos
      /\ count' = count /\ timeout' = timeout /\ buf' = buf /\ start' = start
      /\ atStart' = atStart /\ tick' = tick /\ lag' = lag /\ elapsed' = elapsed
      /\ pc' = pc
  BY DEF uartVars, dmaVars, callVars, timeVars
<1>2. Unread' = Unread /\ Pending' = Pending /\ Expired' = Expired
      /\ Distance(last_pos, dma_pos)' = Distance(last_pos, dma_pos)
  BY <1>1 DEF Unread, Pending, Distance, Contents, Expired
<1>3. UartTypeOK' /\ Positions' /\ Clock'
  BY <1>1, <1>2 DEF UartInv, UartTypeOK, Positions, Clock
<1>4. StartKept' /\ ShortHasWaited' /\ ShortTakesAll'
  BY <1>1, <1>2 DEF UartInv, StartKept, ShortHasWaited, ShortTakesAll, Short
<1> QED
  BY <1>1, <1>2, <1>3, <1>4 DEF UartInv

LEMMA UartInitially ==
  ASSUME UartInit
  PROVE  UartInv /\ Pending = <<>>
<1>1. /\ ring \in [0..N - 1 -> Byte] /\ wr = 0 /\ last_pos = 0
      /\ tick = 0 /\ pc = "idle" /\ count = 0 /\ timeout = 0 /\ buf = <<>>
      /\ dma_pos = 0 /\ start = 0 /\ lag = 0 /\ elapsed = 0 /\ atStart = <<>>
  BY DEF UartInit
<1>2. N \in Nat \ {0} /\ TickMod \in Nat \ {0} /\ MaxLag \in Nat /\ MaxUnread \in Nat
  BY UartAssumption
<1>3. 0 \in 0..N - 1 /\ 0 \in 0..TickMod - 1 /\ 0 \in 0..MaxLag
  BY <1>2
<1>4. <<>> \in Seq(Byte) /\ Len(<<>>) = 0
  OBVIOUS
<1>5. UartTypeOK
  BY <1>1, <1>3, <1>4 DEF UartTypeOK
<1>6. Unread = 0
  BY <1>1, <1>3, DistanceBounds DEF Unread
<1>7. Pending = <<>>
  <2>1. Pending \in Seq(Byte) /\ Len(Pending) = 0
    BY <1>5, <1>6, UartNats
  <2> QED
    BY <2>1, EmptySeq
<1>8. Positions /\ Clock /\ StartKept
  BY <1>1, <1>2, <1>4, <1>6 DEF Positions, Clock, StartKept
<1>9. ShortHasWaited /\ ShortTakesAll
  BY <1>1, <1>4 DEF ShortHasWaited, ShortTakesAll, Short
<1> QED
  BY <1>5, <1>7, <1>8, <1>9 DEF UartInv

LEMMA UartStep ==
  ASSUME UartInv, UartNext
  PROVE  UartInv'
<1>1. CASE \E b \in Byte : DmaByte(b)
  BY <1>1, DmaByteInv
<1>2. CASE Tick
  BY <1>2, TickInv
<1>3. CASE \E c \in Counts, t \in Timeouts : Call(c, t)
  BY <1>3, CallInv
<1>4. CASE Look
  BY <1>4, LookInv
<1>5. CASE Copy
  BY <1>5, CopyInv
<1>6. CASE CheckTime
  BY <1>6, CheckTimeInv
<1>7. CASE ReturnFull
  BY <1>7, ReturnFullInv
<1> QED
  BY <1>1, <1>2, <1>3, <1>4, <1>5, <1>6, <1>7 DEF UartNext, ReadSerial

\* The inductive invariant holds of the receiver.
THEOREM UartSafe == UartSpec => []UartInv
<1>1. UartInit => UartInv
  BY UartInitially
<1>2. UartInv /\ [UartNext]_uartVars => UartInv'
  BY UartStep, UartStutter
<1> QED
  BY <1>1, <1>2, PTL DEF UartSpec

-----------------------------------------------------------------------------
(* The receiver implements the queue. *)

LEMMA DmaByteArrives ==
  ASSUME UartInv, NEW b \in Byte, DmaByte(b)
  PROVE  Fifo!Arrive
<1>1. Pending' = Append(Pending, b)
  BY DmaAppends DEF UartInv
<1>2. pc' = pc /\ count' = count /\ timeout' = timeout /\ buf' = buf
  BY DEF DmaByte, callVars
<1> QED
  BY <1>1, <1>2 DEF Fifo!Arrive

LEMMA CopyTakesFirst ==
  ASSUME UartInv, Copy
  PROVE  Fifo!Take
<1>1. Pending # <<>> /\ Pending' = Tail(Pending) /\ buf' = Append(buf, Head(Pending))
  BY CopyTakes DEF UartInv
<1>2. /\ pc' = pc /\ pc = "copy" /\ count' = count /\ timeout' = timeout
      /\ Len(buf) < count
  BY DEF Copy, CanCopy
<1> QED
  BY <1>1, <1>2 DEF Fifo!Take

\* The other steps leave the buffer and the positions on the line alone.
LEMMA OthersKeepPending ==
  ASSUME UNCHANGED dmaVars, last_pos' = last_pos
  PROVE  Pending' = Pending
BY DEF dmaVars, Pending, Contents, Distance

LEMMA FifoStep ==
  ASSUME UartInv, UartNext
  PROVE  Fifo!Next \/ UNCHANGED Fifo!fvars
<1>1. CASE \E b \in Byte : DmaByte(b)
  BY <1>1, DmaByteArrives DEF Fifo!Next
<1>2. CASE Copy
  BY <1>2, CopyTakesFirst DEF Fifo!Next
<1>3. CASE Tick
  <2>1. /\ Pending' = Pending /\ pc' = pc /\ count' = count /\ timeout' = timeout
        /\ buf' = buf
    BY <1>3, OthersKeepPending DEF Tick, callVars
  <2> QED
    BY <2>1 DEF Fifo!fvars
<1>4. CASE \E c \in Counts, t \in Timeouts : Call(c, t)
  <2>1. PICK c \in Counts, t \in Timeouts : Call(c, t)
    BY <1>4
  <2>2. Pending' = Pending
    BY <2>1, OthersKeepPending DEF Call
  <2>3. /\ pc = "idle" /\ pc' = "loop" /\ count' \in Counts /\ timeout' \in Timeouts
        /\ buf' = <<>>
    BY <2>1 DEF Call
  <2> QED
    BY <2>2, <2>3 DEF Fifo!Next, Fifo!Call
<1>5. CASE Look
  <2>1. /\ Pending' = Pending /\ pc = "loop" /\ pc' = "copy" /\ count' = count
        /\ timeout' = timeout /\ buf' = buf
    BY <1>5, OthersKeepPending DEF Look
  <2> QED
    BY <2>1 DEF Fifo!fvars
<1>6. CASE CheckTime
  <2>1. /\ Pending' = Pending /\ pc = "copy" /\ count' = count
        /\ timeout' = timeout /\ buf' = buf
        /\ pc' = IF Expired THEN "idle" ELSE "loop"
    BY <1>6, OthersKeepPending DEF CheckTime, callVars
  <2>2. CASE Expired
    BY <2>1, <2>2 DEF Fifo!Next, Fifo!Return, Expired
  <2>3. CASE ~Expired
    BY <2>1, <2>3 DEF Fifo!fvars
  <2> QED
    BY <2>2, <2>3
<1>7. CASE ReturnFull
  <2>1. /\ Pending' = Pending /\ pc = "loop" /\ pc' = "idle" /\ Len(buf) = count
        /\ count' = count /\ timeout' = timeout /\ buf' = buf
    BY <1>7, OthersKeepPending DEF ReturnFull, callVars
  <2> QED
    BY <2>1 DEF Fifo!Next, Fifo!Return
<1> QED
  BY <1>1, <1>2, <1>3, <1>4, <1>5, <1>6, <1>7 DEF UartNext, ReadSerial

\* read_serial over the circular DMA hands out the line's bytes in order, each
\* once, and a call without a time-out returns only with all its bytes.
THEOREM UartImplementsFifo == UartSpec => FifoSpec
<1>1. UartInit => Fifo!Init
  <2> SUFFICES ASSUME UartInit PROVE Fifo!Init
    OBVIOUS
  <2>1. Pending = <<>>
    BY UartInitially
  <2> QED
    BY <2>1 DEF UartInit, Fifo!Init
<1>2. UartInv /\ [UartNext]_uartVars => [Fifo!Next]_(Fifo!fvars)
  <2> SUFFICES ASSUME UartInv, [UartNext]_uartVars
               PROVE  Fifo!Next \/ UNCHANGED Fifo!fvars
    OBVIOUS
  <2>1. CASE UartNext
    BY <2>1, FifoStep
  <2>2. CASE UNCHANGED uartVars
    BY <2>2, UartStutter DEF Fifo!fvars
  <2> QED
    BY <2>1, <2>2
<1> QED
  BY <1>1, <1>2, UartSafe, PTL DEF UartSpec, FifoSpec, Fifo!Spec

-----------------------------------------------------------------------------
(* To its caller a call is one step. *)

\* A sequence falls apart into its first part and the rest.
LEMMA SplitConcat ==
  ASSUME NEW s \in Seq(Byte), NEW p \in Seq(Byte)
  PROVE  /\ Len(s) \in 0..Len(s \o p)
         /\ SubSeq(s \o p, 1, Len(s)) = s
         /\ SubSeq(s \o p, Len(s) + 1, Len(s \o p)) = p
<1>1. Len(s) \in Nat /\ Len(p) \in Nat /\ Len(s \o p) = Len(s) + Len(p)
  BY LenProperties, ConcatProperties
<1>2. s \o p \in Seq(Byte)
  BY ConcatProperties
<1>3. SubSeq(s \o p, 1, Len(s)) = s
  <2>1. CASE Len(s) = 0
    BY <1>1, <2>1, SubSeqEmpty, EmptySeq
  <2>2. CASE Len(s) # 0
    <3>1. 1 \in 1..Len(s) /\ Len(s) \in 1..Len(s)
      BY <1>1, <2>2
    <3> QED
      BY <3>1, SubSeqOfConcat1, SubSeqFull
  <2> QED
    BY <2>1, <2>2
<1>4. SubSeq(s \o p, Len(s) + 1, Len(s \o p)) = p
  <2>1. CASE Len(p) = 0
    <3>1. SubSeq(s \o p, Len(s) + 1, Len(s \o p)) = <<>>
      BY <1>1, <2>1, SubSeqEmpty
    <3> QED
      BY <2>1, <3>1, EmptySeq
  <2>2. CASE Len(p) # 0
    <3>1. /\ Len(s) + 1 \in Len(s) + 1..Len(s) + Len(p)
          /\ Len(s \o p) \in Len(s) + 1..Len(s) + Len(p)
          /\ (Len(s) + 1) - Len(s) = 1 /\ Len(s \o p) - Len(s) = Len(p)
      BY <1>1, <2>2
    <3>2. SubSeq(s \o p, Len(s) + 1, Len(s \o p)) = SubSeq(p, 1, Len(p))
      BY <3>1, SubSeqOfConcat2
    <3> QED
      BY <3>2, SubSeqFull
  <2> QED
    BY <2>1, <2>2
<1> QED
  BY <1>1, <1>3, <1>4

\* What a call that returns was given is the first part of what came.
LEMMA Returns ==
  ASSUME UartInv, pc # "idle", pc' = "idle", buf' = buf, Pending' = Pending,
         count' = count, timeout' = timeout, atStart' = atStart,
         \/ Len(buf) = count
         \/ Len(buf) < count /\ Len(buf) >= Len(atStart) /\ timeout >= 0
  PROVE  Read!Return
<1>1. buf \in Seq(Byte) /\ Pending \in Seq(Byte)
  BY UartNats DEF UartInv
<1>2. /\ Len(buf) \in 0..Len(buf \o Pending)
      /\ SubSeq(buf \o Pending, 1, Len(buf)) = buf
      /\ SubSeq(buf \o Pending, Len(buf) + 1, Len(buf \o Pending)) = Pending
  BY <1>1, SplitConcat
<1> QED
  BY <1>2 DEF Read!Return

LEMMA ReadStep ==
  ASSUME UartInv, UartNext, UartInv'
  PROVE  Read!Next \/ UNCHANGED Read!rvars
<1>0. buf \in Seq(Byte) /\ Pending \in Seq(Byte) /\ Len(buf) \in Nat /\ count \in Nat
  BY UartNats DEF UartInv
<1>1. CASE \E b \in Byte : DmaByte(b)
  <2>1. PICK b \in Byte : DmaByte(b)
    BY <1>1
  <2>2. Pending' = Append(Pending, b)
    BY <2>1, DmaAppends DEF UartInv
  <2>3. /\ pc' = pc /\ count' = count /\ timeout' = timeout /\ buf' = buf
        /\ atStart' = atStart
    BY <2>1 DEF DmaByte, callVars
  <2>4. buf \o Append(Pending, b) = Append(buf \o Pending, b)
    <3>1. <<b>> \in Seq(Byte) /\ buf \o Pending \in Seq(Byte)
      BY <1>0, ConcatProperties
    <3>2. /\ Append(Pending, b) = Pending \o <<b>>
          /\ Append(buf \o Pending, b) = (buf \o Pending) \o <<b>>
      BY <1>0, <3>1, AppendIsConcat
    <3> QED
      BY <1>0, <3>1, <3>2, ConcatAssociative
  <2>5. Read!Arrive
    BY <2>2, <2>3, <2>4 DEF Read!Arrive
  <2> QED
    BY <2>5 DEF Read!Next
<1>2. CASE Copy
  <2>1. Pending # <<>> /\ Pending' = Tail(Pending) /\ buf' = Append(buf, Head(Pending))
    BY <1>2, CopyTakes DEF UartInv
  <2>2. /\ pc = "copy" /\ pc' = pc /\ count' = count /\ timeout' = timeout
        /\ atStart' = atStart
    BY <1>2 DEF Copy
  <2>3. buf' \o Pending' = buf \o Pending
    BY <1>0, <2>1, ConcatMove
  <2> QED
    BY <2>2, <2>3 DEF Read!rvars
<1>3. CASE Tick
  <2>1. /\ Pending' = Pending /\ pc' = pc /\ count' = count /\ timeout' = timeout
        /\ buf' = buf /\ atStart' = atStart
    BY <1>3, OthersKeepPending DEF Tick, callVars
  <2> QED
    BY <2>1 DEF Read!rvars
<1>4. CASE \E c \in Counts, t \in Timeouts : Call(c, t)
  <2>1. PICK c \in Counts, t \in Timeouts : Call(c, t)
    BY <1>4
  <2>2. Pending' = Pending
    BY <2>1, OthersKeepPending DEF Call
  <2>3. /\ pc = "idle" /\ pc' = "loop" /\ count' \in Counts /\ timeout' \in Timeouts
        /\ buf' = <<>> /\ atStart' = Pending
    BY <2>1 DEF Call
  <2>4. buf' \o Pending' = Pending
    BY <1>0, <2>2, <2>3, ConcatEmptySeq
  <2> QED
    BY <2>2, <2>3, <2>4 DEF Read!Next, Read!Call
<1>5. CASE Look
  <2>1. /\ Pending' = Pending /\ pc = "loop" /\ pc' = "copy" /\ count' = count
        /\ timeout' = timeout /\ buf' = buf /\ atStart' = atStart
    BY <1>5, OthersKeepPending DEF Look
  <2> QED
    BY <2>1 DEF Read!rvars
<1>6. CASE CheckTime
  <2>1. /\ Pending' = Pending /\ pc = "copy" /\ count' = count
        /\ timeout' = timeout /\ buf' = buf /\ atStart' = atStart
        /\ pc' = IF Expired THEN "idle" ELSE "loop"
    BY <1>6, OthersKeepPending DEF CheckTime, callVars
  <2>2. CASE Expired
    <3>1. timeout >= 0 /\ Len(buf) <= count
      BY <2>2 DEF Expired, UartInv, Positions
    <3>2. Len(buf) < count => Len(atStart) <= Len(buf)
      BY <2>1, <2>2 DEF UartInv, ShortTakesAll, Short
    <3>3. Len(buf) = count \/ (Len(buf) < count /\ Len(buf) >= Len(atStart))
      BY <1>0, <3>1, <3>2, UartNats DEF UartInv
    <3>4. Read!Return
      BY <2>1, <2>2, <3>1, <3>3, Returns
    <3> QED
      BY <3>4 DEF Read!Next
  <2>3. CASE ~Expired
    BY <2>1, <2>3 DEF Read!rvars
  <2> QED
    BY <2>2, <2>3
<1>7. CASE ReturnFull
  <2>1. /\ Pending' = Pending /\ pc = "loop" /\ pc' = "idle" /\ Len(buf) = count
        /\ count' = count /\ timeout' = timeout /\ buf' = buf /\ atStart' = atStart
    BY <1>7, OthersKeepPending DEF ReturnFull, callVars
  <2>2. Read!Return
    BY <2>1, Returns
  <2> QED
    BY <2>2 DEF Read!Next
<1> QED
  BY <1>1, <1>2, <1>3, <1>4, <1>5, <1>6, <1>7 DEF UartNext, ReadSerial

\* A call of read_serial takes the first bytes of the stream in one piece, also
\* those that came while it copied, and a short one all that was there when it
\* began: what recv() may be taken for in the models of the frames.
THEOREM UartReadsInOnePiece == UartSpec => ReadSpec
<1>1. UartInit => Read!Init
  <2> SUFFICES ASSUME UartInit PROVE Read!Init
    OBVIOUS
  <2>1. Pending = <<>>
    BY UartInitially
  <2> QED
    BY <2>1 DEF UartInit, Read!Init
<1>2. UartInv /\ UartInv' /\ [UartNext]_uartVars => [Read!Next]_(Read!rvars)
  <2> SUFFICES ASSUME UartInv, UartInv', [UartNext]_uartVars
               PROVE  Read!Next \/ UNCHANGED Read!rvars
    OBVIOUS
  <2>1. CASE UartNext
    BY <2>1, ReadStep
  <2>2. CASE UNCHANGED uartVars
    <3>1. UNCHANGED <<Pending, count, timeout, buf>>
      BY <2>2, UartStutter
    <3>2. pc' = pc /\ atStart' = atStart
      BY <2>2 DEF uartVars, callVars
    <3> QED
      BY <3>1, <3>2 DEF Read!rvars
  <2> QED
    BY <2>1, <2>2
<1> QED
  BY <1>1, <1>2, UartSafe, PTL DEF UartSpec, ReadSpec, Read!Spec

\* No call with a time-out outlasts it by more than one turn of the loop, however
\* the bytes come and wherever the tick counter wraps.
THEOREM UartCallIsBounded == UartSpec => []CallIsBounded
<1>1. UartInit => CallIsBounded
  BY UartAssumption DEF UartInit, CallIsBounded
<1>2. UartInv /\ UartInv' /\ CallIsBounded /\ [UartNext]_uartVars => CallIsBounded'
  <2> SUFFICES ASSUME UartInv, UartInv', CallIsBounded, [UartNext]_uartVars
               PROVE  CallIsBounded'
    OBVIOUS
  <2>1. CASE pc' # "idle"
    <3>1. /\ timeout' \in Int /\ elapsed' \in Nat /\ MaxLag \in Nat
          /\ lag' \in Nat /\ lag' <= MaxLag
      BY UartAssumption DEF UartInv, UartTypeOK
    <3>2. timeout' >= 0 => elapsed' = lag' \/ elapsed' < timeout' + lag'
      BY <2>1 DEF UartInv, Clock
    <3>3. \A e, l, m \in Nat, t \in Int :
             t >= 0 /\ l <= m /\ (e = l \/ e < t + l) => e <= t + m
      OBVIOUS
    <3> QED
      BY <3>1, <3>2, <3>3 DEF CallIsBounded
  <2>2. CASE pc' = "idle"
    <3>1. timeout' = timeout /\ elapsed' = elapsed
      BY <2>2 DEF UartNext, ReadSerial, DmaByte, Tick, Call, Look, Copy, CheckTime,
                  ReturnFull, uartVars, callVars, timeVars
    <3> QED
      BY <3>1 DEF CallIsBounded
  <2> QED
    BY <2>1, <2>2
<1> QED
  BY <1>1, <1>2, UartSafe, PTL DEF UartSpec

\* The types, the indices into the DMA buffer among them.
THEOREM UartTypes == UartSpec => []UartTypeOK
<1>1. UartInv => UartTypeOK
  BY DEF UartInv
<1> QED
  BY <1>1, UartSafe, PTL

\* A short return comes after the whole time-out, and every one soon after it,
\* whatever the tick counter's value was when the call began.
THEOREM UartTimeoutIsReal == UartSpec => []TimeoutIsReal
<1>1. UartInv /\ CallIsBounded => TimeoutIsReal
  BY DEF UartInv, TimeoutIsReal
<1> QED
  BY <1>1, UartSafe, UartCallIsBounded, PTL

\* A short return leaves nothing on the line that was there at the call: what
\* flush() rests on.
THEOREM UartShortTakesAll == UartSpec => []ShortTakesAll
<1>1. UartInv => ShortTakesAll
  BY DEF UartInv
<1> QED
  BY <1>1, UartSafe, PTL
=============================================================================
