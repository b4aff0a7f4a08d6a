---------------------------- MODULE FileReceiver ----------------------------
(***************************************************************************)
(* The receiving half of the "modbus file send algorithm": the context     *)
(* modbus_file_send_data_ctx, the static receive buffer and the FC 21      *)
(* callback server_write_file_record of src/src/nmbs/port.c.               *)
(*                                                                         *)
(* Memory is counted in 16-bit registers, the unit DATA chunks store;      *)
(* recv_buf_rest stays in bytes, because a HEAD chunk may announce an odd  *)
(* number of them.  A pointer is an offset into the static buffer or NULL. *)
(* The text of a file has no NUL byte: a register of text is a member of   *)
(* Word, a register that was never written is Zero.                        *)
(***************************************************************************)
EXTENDS Integers, Sequences

CONSTANTS BufRegs,      \* MODBUS_FILE_SEND_DATA_RECV_BUF_SIZE / 2
          ChunkRegs,    \* MOBDUS_PAYLOAD_CHUNK_SIZE / 2
          MaxCount,     \* most registers one FC 21 sub-request can carry
          HeadRec,      \* MOBDUS_FILE_SEND_HEAD_REC_NUM
          TotalLens,    \* the values total_len of a header takes
          ChunkCounts,  \* the values n_chunks of a header takes
          Word, Zero,
          Junk          \* what lies behind the buffer in memory

ASSUME ReceiverAssumption ==
  /\ BufRegs \in Nat \ {0} /\ ChunkRegs \in Nat \ {0}
  /\ MaxCount \in Nat /\ HeadRec \in Nat
  /\ TotalLens \subseteq Nat /\ ChunkCounts \subseteq Nat
  /\ Zero \notin Word

TailRec == HeadRec + 1      \* MOBDUS_FILE_SEND_TAIL_REC_NUM
HdrRegs == 4                \* sizeof(modbus_file_send_header_t) / 2
NULL == -1

VARIABLES
  recv_buf, recv_buf_ptr, recv_buf_rest,  \* modbus_file_send_data_ctx
  mem,      \* _modbus_file_send_data_recv_buf
  ret,      \* what the last call of the callback returned
  out,      \* the text the last call printed: a set of at most one
  total,    \* history: the total_len of the last accepted HEAD chunk
  taken     \* history: the registers stored since that chunk

ctx      == <<recv_buf, recv_buf_ptr, recv_buf_rest>>
history  == <<total, taken>>
recvVars == <<ctx, mem, ret, out, history>>

Payloads == UNION {[1..n -> Word] : n \in 0..MaxCount}
Headers  == [total_len : TotalLens, n_chunks : ChunkCounts]

RecvTypeOK ==
  /\ recv_buf \in {NULL, 0}
  /\ recv_buf_ptr \in Nat \cup {NULL}
  /\ recv_buf_rest \in Nat
  /\ mem \in [0..BufRegs - 1 -> Word \cup {Zero}]
  /\ ret \in {"NONE", "INVALID_REQUEST"}
  /\ out \subseteq Seq(Word \cup {Junk})
  /\ total \in Nat
  /\ taken \in Seq(Word)

RecvInit ==
  /\ recv_buf = NULL /\ recv_buf_ptr = NULL /\ recv_buf_rest = 0
  /\ mem = [i \in 0..BufRegs - 1 |-> Zero]
  /\ ret = "NONE" /\ out = {}
  /\ total = 0 /\ taken = <<>>

(***************************************************************************)
(* What printf("%s\n") of the buffer shows: the cells before the first     *)
(* NUL; if there is none it reads on behind the buffer, where it may or    *)
(* may not meet a NUL at once.                                             *)
(***************************************************************************)
StrLens == {n \in 0..BufRegs : /\ \A i \in 0..n - 1 : mem[i] # Zero
                               /\ n < BufRegs => mem[n] = Zero}
Text(n) == [i \in 1..n |-> mem[i - 1]]
PrintedTexts == {Text(n) : n \in StrLens}
                  \cup {Append(Text(n), Junk) : n \in StrLens \cap {BufRegs}}

(***************************************************************************)
(* The three chunk handlers.  Each gives ret and out a value.              *)
(***************************************************************************)
Refuse == /\ ret' = "INVALID_REQUEST" /\ out' = {}
          /\ UNCHANGED <<ctx, mem, history>>

\* Mutant: the pointer of an unfinished session is kept.
OpenSessionKeepsPtr(total_len) ==
  /\ recv_buf' = 0 /\ recv_buf_rest' = total_len
  /\ recv_buf_ptr' = IF recv_buf_ptr = NULL THEN 0 ELSE recv_buf_ptr
  /\ total' = total_len /\ taken' = <<>>
  /\ ret' = "NONE" /\ out' = {}
  /\ UNCHANGED mem

\* The clean-up of an unfinished session leaves nothing the opening of the
\* new one does not overwrite.
OpenSession(total_len) ==
  /\ recv_buf' = 0
  /\ recv_buf_ptr' = recv_buf'
  /\ recv_buf_rest' = total_len
  /\ total' = total_len /\ taken' = <<>>
  /\ ret' = "NONE" /\ out' = {}
  /\ UNCHANGED mem

\* Mutant: the announced length is not compared with the buffer's size.
HeadChunkNoLength(count, hdr) ==
  IF count # HdrRegs \/ hdr.n_chunks > HeadRec
  THEN Refuse ELSE OpenSession(hdr.total_len)

HeadChunk(count, hdr) ==
  IF \/ count # HdrRegs
     \/ hdr.n_chunks > HeadRec
     \/ hdr.total_len > 2 * BufRegs
  THEN Refuse
  ELSE OpenSession(hdr.total_len)

\* Mutant: the loop does not look at the rest of the session.
StoredUnbounded(regs) == Len(regs)

\* The register loop stores while two bytes of the session are left.
Stored(regs) == IF 2 * Len(regs) <= recv_buf_rest THEN Len(regs)
                                                  ELSE recv_buf_rest \div 2

StoreRegisters(regs, n) ==
  /\ mem' = [i \in DOMAIN mem |->
               IF i \in recv_buf_ptr .. recv_buf_ptr + n - 1
               THEN regs[i - recv_buf_ptr + 1] ELSE mem[i]]
  /\ recv_buf_rest' = recv_buf_rest - 2 * n
  /\ taken' = taken \o SubSeq(regs, 1, n)
  /\ out' = {}
  /\ UNCHANGED <<recv_buf, total>>

\* Mutant: the pointer is not moved behind what was stored.
DataChunkNoAdvance(regs) ==
  IF recv_buf_ptr = NULL \/ Len(regs) > ChunkRegs
  THEN Refuse
  ELSE /\ StoreRegisters(regs, Stored(regs))
       /\ UNCHANGED recv_buf_ptr
       /\ ret' = IF Stored(regs) = Len(regs) THEN "NONE" ELSE "INVALID_REQUEST"

\* A chunk larger than the rest of the session is stored as far as it fits
\* and then refused, and recv_buf_ptr is not moved.
DataChunk(regs) ==
  IF recv_buf_ptr = NULL \/ Len(regs) > ChunkRegs
  THEN Refuse
  ELSE /\ StoreRegisters(regs, Stored(regs))
       /\ IF Stored(regs) = Len(regs)
          THEN recv_buf_ptr' = recv_buf_ptr + Len(regs) /\ ret' = "NONE"
          ELSE UNCHANGED recv_buf_ptr /\ ret' = "INVALID_REQUEST"

\* Mutants: the tail handler forgets the rest of a refused session, prints
\* whatever there is, or does not close the session it printed.
TailChunkKeepsRest ==
  /\ recv_buf_ptr' = NULL
  /\ IF recv_buf_ptr # NULL /\ recv_buf_rest = 0 /\ recv_buf # NULL
     THEN recv_buf' = NULL /\ ret' = "NONE" /\ out' \in {{t} : t \in PrintedTexts}
     ELSE ret' = "INVALID_REQUEST" /\ out' = {} /\ UNCHANGED recv_buf
  /\ UNCHANGED <<recv_buf_rest, mem, history>>

TailChunkUnchecked ==
  /\ recv_buf_ptr' = NULL /\ recv_buf_rest' = 0
  /\ IF recv_buf_ptr # NULL /\ recv_buf # NULL
     THEN recv_buf' = NULL /\ ret' = "NONE" /\ out' \in {{t} : t \in PrintedTexts}
     ELSE ret' = "INVALID_REQUEST" /\ out' = {} /\ UNCHANGED recv_buf
  /\ UNCHANGED <<mem, history>>

TailChunkStaysOpen ==
  /\ IF recv_buf_ptr # NULL /\ recv_buf_rest = 0 /\ recv_buf # NULL
     THEN ret' = "NONE" /\ out' \in {{t} : t \in PrintedTexts}
     ELSE ret' = "INVALID_REQUEST" /\ out' = {}
  /\ UNCHANGED <<ctx, mem, history>>

\* The code's last branch, a session without a buffer, is unreachable
\* (SessionHasBuffer); it would refuse the chunk.
TailChunk ==
  /\ recv_buf_ptr' = NULL
  /\ recv_buf_rest' = 0
  /\ IF recv_buf_ptr # NULL /\ recv_buf_rest = 0 /\ recv_buf # NULL
     THEN /\ recv_buf' = NULL
          /\ ret' = "NONE"
          /\ out' \in {{t} : t \in PrintedTexts}
     ELSE /\ ret' = "INVALID_REQUEST" /\ out' = {}
          /\ UNCHANGED recv_buf
  /\ UNCHANGED <<mem, history>>

\* hdr is what the bytes of regs say when they are read as a header.  The
\* file number and the number of a DATA record are not looked at.
server_write_file_record(record_number, regs, hdr) ==
  \/ record_number > TailRec /\ Refuse
  \/ record_number = HeadRec /\ HeadChunk(Len(regs), hdr)
  \/ record_number = TailRec /\ TailChunk
  \/ record_number < HeadRec /\ DataChunk(regs)

\* A reset of the controller clears the context and the buffer (.bss).
Reset ==
  /\ recv_buf' = NULL /\ recv_buf_ptr' = NULL /\ recv_buf_rest' = 0
  /\ mem' = [i \in 0..BufRegs - 1 |-> Zero]
  /\ out' = {}
  /\ UNCHANGED <<ret, history>>

RecvNext ==
  \/ \E record_number \in 0..TailRec + 1, regs \in Payloads, hdr \in Headers :
        server_write_file_record(record_number, regs, hdr)
  \/ Reset

RecvSpec == RecvInit /\ [][RecvNext]_recvVars

-----------------------------------------------------------------------------
Open == recv_buf_ptr # NULL

\* An open session has a buffer, and nothing else does with bytes to come:
\* the tail handler's "recv_buf is NULL" branch is dead, and a session that
\* was closed, however it ended, waits for no data.
SessionHasBuffer ==
  /\ Open => recv_buf = 0
  /\ recv_buf_rest # 0 => Open

\* The bytes a session still expects fit behind recv_buf_ptr.
RestFits == Open => 2 * recv_buf_ptr + recv_buf_rest <= 2 * BufRegs

\* Whatever chunks arrive, in whatever order, with whatever lengths, only a session
\* expects bytes, and DATA chunks never store behind the static buffer.
WithinBuffer == SessionHasBuffer /\ RestFits

\* The bytes stored and the bytes expected add up to the announced length,
\* and the buffer starts with exactly the registers stored since HEAD, also
\* after a chunk that was stored in part and refused.
SessionInMemory ==
  Open =>
    /\ 2 * Len(taken) + recv_buf_rest = total
    /\ Len(taken) <= BufRegs
    /\ \A i \in 1..Len(taken) : mem[i - 1] = taken[i]

\* The pointer falls behind what was stored only when the session can take
\* nothing more, so a refused chunk never leads to an overwritten register.
PointerAtEnd ==
  Open => \/ recv_buf_ptr = Len(taken)
          \/ recv_buf_ptr < Len(taken) /\ recv_buf_rest < 2

BeginsWith(t, s) == Len(s) <= Len(t) /\ SubSeq(t, 1, Len(s)) = s

\* A text is only printed when every announced byte was stored, and it
\* starts with what was stored, in order.
OutIsSession == \A t \in out : BeginsWith(t, taken) /\ 2 * Len(taken) = total

\* "All data has been received - we are passing it on for the next
\* processing" (port.c:168), of a chunk sequence assembled "into a single
\* text (json) message" (port.c:217): the text passed on is the data.
PrintedIsSession == \A t \in out : t = taken
=============================================================================
