------------------------------- MODULE UartRx -------------------------------
(***************************************************************************)
(* Reception on USART2: the circular DMA transfer that main.c starts       *)
(* (src/src/main.c:171-226) writes every byte into uart2_rx_dma_buf        *)
(* without the CPU, and read_serial of port.c:253-294 polls its position.  *)
(* The DMA controller, the 1 ms tick interrupt and the polling loop run    *)
(* concurrently; read_serial is cut at every access to what they share.    *)
(*                                                                         *)
(* Two bounds are assumptions about the surroundings, not code:            *)
(* MaxUnread: the peer has no more bytes than this on the line that were   *)
(* not read.  It is below the size of the buffer, because a full buffer    *)
(* and an empty one look the same: the code cannot detect an overrun.      *)
(* MaxLag: ticks that pass during one turn of the polling loop.            *)
(***************************************************************************)
EXTENDS Integers, Sequences

CONSTANTS N,          \* UART2_RX_DMA_BUF_SIZE
          Byte,
          Counts,     \* the lengths the callers ask for
          Timeouts,   \* the time-outs they give; negative: none
          TickMod,    \* HAL_GetTick() counts modulo this (2^32)
          MaxUnread, MaxLag

ASSUME UartAssumption ==
  /\ N \in Nat \ {0} /\ MaxUnread \in 0..N - 1
  /\ Counts \subseteq Nat /\ Timeouts \subseteq Int
  /\ TickMod \in Nat \ {0} /\ MaxLag \in Nat
  /\ \A t \in Timeouts : t + MaxLag < TickMod
  /\ Byte # {}

VARIABLES
  ring,       \* uart2_rx_dma_buf
  wr,         \* where the DMA writes next: N - CNDTR
  last_pos,   \* uart2_rx_dma_last_pos
  tick,       \* HAL_GetTick()
  pc,         \* "idle": no call; "loop": at the head of the outer loop;
              \* "copy": at the head of the inner one
  count, timeout, buf, dma_pos, start,  \* of the call; received = Len(buf)
  lag,        \* ticks in this turn of the loop
  elapsed,    \* history: ticks since a call with a time-out began
  atStart     \* history: what was unread when the call began

dmaVars  == <<ring, wr>>
callVars == <<last_pos, count, timeout, buf, dma_pos, start, atStart>>
timeVars == <<tick, lag, elapsed>>
uartVars == <<dmaVars, callVars, timeVars, pc>>

\* From one position of the buffer to another, in writing direction.
Distance(i, j) == IF j >= i THEN j - i ELSE j - i + N
Unread == Distance(last_pos, wr)

\* The i-th cell from position l on, the cells from l up to w, and the bytes
\* that were not read.
Cell(l, i) == IF l + i < N THEN l + i ELSE l + i - N
Contents(r, l, w) == [i \in 1..Distance(l, w) |-> r[Cell(l, i - 1)]]
Pending == Contents(ring, last_pos, wr)

\* Mutant: the wrap comes one cell too late.
SuccLate(i) == IF i + 1 > N THEN 0 ELSE i + 1

\* i + 1, with the wrap around the end of the buffer.
Succ(i) == IF i + 1 >= N THEN 0 ELSE i + 1

UartTypeOK ==
  /\ ring \in [0..N - 1 -> Byte]
  /\ wr \in 0..N - 1 /\ last_pos \in 0..N - 1 /\ dma_pos \in 0..N - 1
  /\ tick \in 0..TickMod - 1 /\ start \in 0..TickMod - 1
  /\ pc \in {"idle", "loop", "copy"}
  /\ count \in Counts \cup {0} /\ timeout \in Timeouts \cup {0}
  /\ buf \in Seq(Byte) /\ atStart \in Seq(Byte)
  /\ lag \in 0..MaxLag /\ elapsed \in Nat

UartInit ==
  /\ ring \in {[i \in 0..N - 1 |-> b] : b \in Byte} /\ wr = 0 /\ last_pos = 0
  /\ tick = 0 /\ pc = "idle"
  /\ count = 0 /\ timeout = 0 /\ buf = <<>> /\ dma_pos = 0 /\ start = 0
  /\ lag = 0 /\ elapsed = 0 /\ atStart = <<>>

-----------------------------------------------------------------------------
(* The hardware. *)

DmaByte(b) ==
  /\ Unread < MaxUnread
  /\ ring' = [ring EXCEPT ![wr] = b]
  /\ wr' = Succ(wr)
  /\ UNCHANGED <<callVars, timeVars, pc>>

\* A call without a time-out reads no clock, and its time is not counted.
Tick ==
  /\ tick' = (tick + 1) % TickMod
  /\ IF pc = "idle" \/ timeout < 0
     THEN UNCHANGED <<lag, elapsed>>
     ELSE lag < MaxLag /\ lag' = lag + 1 /\ elapsed' = elapsed + 1
  /\ UNCHANGED <<dmaVars, callVars, pc>>

-----------------------------------------------------------------------------
(* read_serial. *)

Call(c, t) ==
  /\ pc = "idle"
  /\ pc' = "loop" /\ count' = c /\ timeout' = t /\ buf' = <<>> /\ start' = tick
  /\ lag' = 0 /\ elapsed' = 0 /\ atStart' = Pending
  /\ UNCHANGED <<dmaVars, last_pos, dma_pos, tick>>

\* Mutant: the call waits for a byte before it looks at the clock.
LookWaits ==
  /\ pc = "loop" /\ Len(buf) < count /\ wr # last_pos
  /\ pc' = "copy" /\ dma_pos' = wr
  /\ UNCHANGED <<dmaVars, last_pos, count, timeout, buf, start, atStart, timeVars>>

\* The position of the DMA is read once per turn.
Look ==
  /\ pc = "loop" /\ Len(buf) < count
  /\ pc' = "copy" /\ dma_pos' = wr
  /\ UNCHANGED <<dmaVars, last_pos, count, timeout, buf, start, atStart, timeVars>>

\* Mutants: the inner loop does not wrap, or does not stop at count.
CanCopyNoWrap  == last_pos < dma_pos /\ Len(buf) < count
CanCopyNoCount == last_pos # dma_pos
CanCopy == last_pos # dma_pos /\ Len(buf) < count

Copy ==
  /\ pc = "copy" /\ CanCopy
  /\ buf' = Append(buf, ring[last_pos])
  /\ last_pos' = Succ(last_pos)
  /\ UNCHANGED <<dmaVars, count, timeout, dma_pos, start, atStart, timeVars, pc>>

\* Mutant: the clock is compared with a deadline that may have wrapped.
ExpiredAtDeadline == timeout >= 0 /\ tick >= (start + timeout) % TickMod
Expired == timeout >= 0 /\ (tick - start) % TickMod >= timeout

CheckTime ==
  /\ pc = "copy" /\ ~CanCopy
  /\ pc' = IF Expired THEN "idle" ELSE "loop"
  /\ lag' = 0
  /\ UNCHANGED <<dmaVars, callVars, tick, elapsed>>

ReturnFull ==
  /\ pc = "loop" /\ Len(buf) = count
  /\ pc' = "idle"
  /\ UNCHANGED <<dmaVars, callVars, timeVars>>

ReadSerial == Look \/ Copy \/ CheckTime \/ ReturnFull

UartNext ==
  \/ \E b \in Byte : DmaByte(b)
  \/ Tick
  \/ \E c \in Counts, t \in Timeouts : Call(c, t)
  \/ ReadSerial

UartSpec == UartInit /\ [][UartNext]_uartVars

\* The CPU executes the loop and the clock ticks; bytes need not come.
FairUartSpec == UartSpec /\ WF_uartVars(ReadSerial) /\ WF_uartVars(Tick)

-----------------------------------------------------------------------------
\* read_serial hands out the line's bytes in order, each once, across the wrap
\* of the buffer and from call to call, while the DMA goes on writing, and a
\* call without a time-out returns only with all bytes.
Fifo == INSTANCE SerialFifo WITH line <- Pending, busy <- pc # "idle"
FifoSpec == Fifo!Spec

\* To its caller a call is one step, which takes the first bytes of the stream in
\* one piece, however the bytes come in while it copies: NmbsServer may read its
\* line so.  A short one takes what was there when it began.
Read == INSTANCE SerialRead
  WITH stream <- IF pc = "idle" THEN Pending ELSE buf \o Pending, busy <- pc # "idle",
       there <- Len(atStart), got <- IF pc = "idle" THEN buf ELSE <<>>
ReadSpec == Read!Spec

Short == pc = "idle" /\ Len(buf) < count

\* A call that returns short has waited its whole time.
ShortHasWaited ==
  Short => timeout >= 0 /\ elapsed >= timeout /\ elapsed <= timeout + MaxLag

\* A call with a time-out takes no longer than that and one turn of the loop.
CallIsBounded == timeout >= 0 => elapsed <= timeout + MaxLag

\* The time-out is neither early nor late, though bytes may come all the time and the
\* tick counter may wrap around.
TimeoutIsReal == ShortHasWaited /\ CallIsBounded

\* A call that returns short has read everything that was there when it began,
\* so flush(), a call for more bytes than the ring holds with time-out 0,
\* removes the rest of a broken frame as far as it has come.
ShortTakesAll ==
  Short => Len(atStart) <= Len(buf) /\ SubSeq(buf, 1, Len(atStart)) = atStart

\* Every call with a time-out returns.
CallsReturn == pc # "idle" /\ timeout >= 0 ~> pc = "idle"
=============================================================================
