------------------------- MODULE FileTransferProofs -------------------------
(***************************************************************************)
(* The file transfer implements FileDelivery, for every file, buffer and   *)
(* chunk size and every number of retries.  TransferInv is inductive       *)
(* together with the receiver's RecvInv.  The heart of it is SessionIsFile *)
(* with the receiver's account of bytes: at the TAIL record everything was *)
(* sent, so a session with a repeated chunk holds more than the announced  *)
(* length or still waits for bytes, and only an exact copy can be printed. *)
(***************************************************************************)
EXTENDS FileTransfer, FileReceiverProofs

IInv == TransferInv /\ RecvInv

\* Division, as SMT proves it for a divisor that is not a number.
LEMMA DivBounds ==
  ASSUME NEW c \in Nat \ {0}, NEW a \in Nat
  PROVE  /\ a \div c \in Nat
         /\ c * (a \div c) <= a
         /\ a < c * (a \div c) + c
BY SMT

LEMMA DivLess ==
  ASSUME NEW c \in Nat \ {0}, NEW p \in Nat, NEW q \in Nat, c * p < c * q + c
  PROVE  p <= q
<1> SUFFICES ASSUME p > q PROVE FALSE
  OBVIOUS
<1>1. PICK d \in Nat : p = q + 1 + d
  BY p - q - 1 \in Nat
<1>2. c * p = c * q + c + c * d
  BY <1>1
<1>3. c * d >= 0
  OBVIOUS
<1> QED
  BY <1>2, <1>3

\* The numbers of a file's DATA records are below the one of the HEAD record.
LEMMA RecordNumber ==
  ASSUME NEW l \in Nat, NEW p \in Nat, p < l,
         (l + ChunkRegs - 1) \div ChunkRegs <= HeadRec
  PROVE  p \div ChunkRegs \in Nat /\ p \div ChunkRegs < HeadRec
<1> DEFINE c == ChunkRegs
           a == p \div c
           b == (l + c - 1) \div c
<1>1. c \in Nat \ {0} /\ HeadRec \in Nat /\ l + c - 1 \in Nat
  BY ReceiverAssumption
<1>2. a \in Nat /\ c * a <= p
  BY <1>1, DivBounds
<1>3. b \in Nat /\ l + c - 1 < c * b + c
  BY <1>1, DivBounds
<1>4. b <= HeadRec
  OBVIOUS
<1> HIDE DEF a, b, c
<1>5. c * (a + 1) = c * a + c
  BY <1>1, <1>2
<1>6. c * (a + 1) < c * b + c
  BY <1>1, <1>2, <1>3, <1>5
<1>7. a + 1 <= b
  BY <1>1, <1>2, <1>3, <1>6, DivLess
<1> QED
  BY <1>1, <1>2, <1>3, <1>4, <1>7 DEF a, c

LEMMA HeaderType ==
  ASSUME file \in Seq(Word)
  PROVE  Header \in [total_len : Nat, n_chunks : Nat] /\ NChunks(file) \in Nat
<1>1. Len(file) + ChunkRegs - 1 \in Nat /\ ChunkRegs \in Nat \ {0} /\ Len(file) \in Nat
  BY ReceiverAssumption
<1>2. NChunks(file) \in Nat
  BY <1>1, DivBounds DEF NChunks
<1> QED
  BY <1>1, <1>2 DEF Header

\* The chunk after the first pos registers of the file.
LEMMA ChunkFacts ==
  ASSUME file \in Seq(Word), pos \in 0..Len(file), pos < Len(file)
  PROVE  /\ ChunkEnd \in pos + 1 .. Len(file)
         /\ Chunk \in Seq(Word) /\ Len(Chunk) = ChunkEnd - pos
         /\ Len(Chunk) <= ChunkRegs
         /\ SubSeq(file, 1, pos) \o Chunk = SubSeq(file, 1, ChunkEnd)
<1>1. /\ ChunkEnd \in pos + 1 .. Len(file) /\ ChunkEnd - pos <= ChunkRegs
      /\ pos \in Nat /\ Len(file) \in Nat
  BY ReceiverAssumption DEF ChunkEnd
<1> HIDE DEF ChunkEnd
<1>2. Chunk \in Seq(Word) /\ Len(Chunk) = ChunkEnd - pos
  BY <1>1 DEF Chunk
<1>3. SubSeq(file, 1, pos) \o Chunk = SubSeq(file, 1, ChunkEnd)
  BY <1>1, ConcatAdjacentSubSeq DEF Chunk
<1> QED
  BY <1>1, <1>2, <1>3

\* The part of the state the client's steps leave alone.
LEMMA ClientStepRecv ==
  ASSUME RecvInv, UNCHANGED recvVars
  PROVE  RecvInv'
BY DEF RecvInv, recvVars, ctx, history, RecvTypeOK, SessionHasBuffer,
       RestFits, SessionInMemory, PointerAtEnd, Open

LEMMA StartRunInv ==
  ASSUME IInv, NEW f \in Files, StartRun(f)
  PROVE  IInv'
<1>1. f \in Seq(Word)
  BY TransferAssumption
<1>2. RecvInv'
  BY ClientStepRecv DEF IInv, StartRun
<1>3. TransferTypeOK'
  <2>1. /\ <<>> \in Seq(Seq(Word \cup {Junk})) /\ 0 \in 0..Len(f)
        /\ 0 \in 0..Retries + 1
    BY <1>1, TransferAssumption
  <2> QED
    BY <1>1, <1>2, <2>1
    DEF IInv, TransferInv, TransferTypeOK, StartRun, RecvInv
<1>4. frame = "none"
  BY DEF IInv, TransferInv, LineState, StartRun, TransferTypeOK
<1>5. LineState' /\ ClientState' /\ HeadAccepted' /\ SessionIsFile'
        /\ DeliveredAtTail' /\ WithoutFault' /\ FailureHasCause'
  BY <1>4, TransferAssumption
  DEF StartRun, LineState, ClientState, HeadAccepted, SessionIsFile,
      DeliveredAtTail, WithoutFault, FailureHasCause, Active, NChunks
<1> QED
  BY <1>2, <1>3, <1>5 DEF IInv, TransferInv

LEMMA ClientSendInv ==
  ASSUME IInv, ClientSend
  PROVE  IInv'
<1>1. RecvInv'
  BY ClientStepRecv DEF IInv, ClientSend
<1>2. TransferTypeOK'
  BY <1>1, TransferAssumption
  DEF IInv, TransferInv, TransferTypeOK, LineState, ClientSend, RecvInv
<1>3. LineState' /\ ClientState' /\ HeadAccepted' /\ DeliveredAtTail'
        /\ FailureHasCause'
  BY DEF IInv, TransferInv, ClientSend, recvVars, ctx, history, LineState,
         ClientState, HeadAccepted, DeliveredAtTail, FailureHasCause, Active,
         NChunks, Open, BeginsWith
<1>4. frame = "none"
  BY DEF IInv, TransferInv, LineState, ClientSend, TransferTypeOK
<1>5. SessionIsFile' /\ WithoutFault'
  BY <1>4 DEF IInv, TransferInv, ClientSend, recvVars, ctx, history,
              SessionIsFile, WithoutFault, ChunkEnd, Open
<1> QED
  BY <1>1, <1>2, <1>3, <1>5 DEF IInv, TransferInv

LEMMA ClientTimeoutInv ==
  ASSUME IInv, ClientTimeout
  PROVE  IInv'
<1>1. RecvInv'
  BY ClientStepRecv DEF IInv, ClientTimeout
<1>2. faulty /\ Active
  BY DEF IInv, TransferInv, TransferTypeOK, LineState, ClientTimeout
<1>3. TransferTypeOK'
  BY <1>1 DEF IInv, TransferInv, TransferTypeOK, ClientTimeout, RecvInv
<1>4. LineState' /\ ClientState' /\ HeadAccepted' /\ DeliveredAtTail'
        /\ FailureHasCause' /\ WithoutFault'
  BY <1>2, TransferAssumption
  DEF IInv, TransferInv, TransferTypeOK, ClientTimeout, recvVars, ctx, history,
      LineState, ClientState, HeadAccepted, DeliveredAtTail, FailureHasCause,
      WithoutFault, Active, NChunks, Open, BeginsWith
<1>5. SessionIsFile'
  BY DEF IInv, TransferInv, ClientTimeout, recvVars, ctx, history,
         SessionIsFile, ChunkEnd, Open
<1> QED
  BY <1>1, <1>3, <1>4, <1>5 DEF IInv, TransferInv

LEMMA LoseFrameInv ==
  ASSUME IInv, LoseFrame
  PROVE  IInv'
<1>1. RecvInv'
  BY ClientStepRecv DEF IInv, LoseFrame
<1>2. TransferTypeOK'
  BY <1>1 DEF IInv, TransferInv, TransferTypeOK, LoseFrame, RecvInv, clientVars
<1>3. LineState' /\ ClientState' /\ HeadAccepted' /\ DeliveredAtTail'
        /\ FailureHasCause' /\ WithoutFault'
  BY DEF IInv, TransferInv, TransferTypeOK, LoseFrame, recvVars, clientVars, ctx,
         history, LineState, ClientState, HeadAccepted, DeliveredAtTail,
         FailureHasCause, WithoutFault, Active, NChunks, Open, BeginsWith
<1>4. SessionIsFile'
  <2> SUFFICES ASSUME pc \in {"data", "tail"}, Open
               PROVE  total = 2 * Len(file)
                        /\ (taken = SubSeq(file, 1, pos) \/ Len(taken) > pos)
    BY DEF LoseFrame, recvVars, clientVars, ctx, history, SessionIsFile, Open
  <2>1. pc = "data" => /\ ChunkEnd \in pos + 1 .. Len(file) /\ pos \in Nat
                       /\ Len(SubSeq(file, 1, ChunkEnd)) = ChunkEnd
    BY ChunkFacts
    DEF IInv, TransferInv, TransferTypeOK, ClientState
  <2>2. Len(taken) \in Nat
    BY DEF IInv, RecvInv, RecvTypeOK
  <2> QED
    BY <2>1, <2>2 DEF IInv, TransferInv, SessionIsFile
<1> QED
  BY <1>1, <1>2, <1>3, <1>4 DEF IInv, TransferInv

LEMMA ControllerResetInv ==
  ASSUME IInv, ControllerReset
  PROVE  IInv'
<1>1. RecvInv' /\ ~Open'
  BY ResetInv DEF IInv, ControllerReset, Reset, RecvProps, Open, NULL
<1>2. TransferTypeOK'
  BY <1>1 DEF IInv, TransferInv, TransferTypeOK, ControllerReset, RecvInv,
              clientVars
<1>3. LineState' /\ ClientState' /\ HeadAccepted' /\ DeliveredAtTail'
        /\ FailureHasCause' /\ WithoutFault' /\ SessionIsFile'
  BY <1>1
  DEF IInv, TransferInv, ControllerReset, clientVars, LineState, ClientState,
      HeadAccepted, DeliveredAtTail, FailureHasCause, WithoutFault,
      SessionIsFile, Active, NChunks, BeginsWith
<1> QED
  BY <1>1, <1>2, <1>3 DEF IInv, TransferInv

\* The client takes a reply.  Only here does it go on to the next record.
LEMMA ClientReceiveInv ==
  ASSUME IInv, ClientReceive
  PROVE  IInv'
<1>1. RecvInv'
  BY ClientStepRecv DEF IInv, ClientReceive
<1>2. /\ TransferTypeOK /\ LineState /\ ClientState /\ HeadAccepted /\ SessionIsFile
      /\ DeliveredAtTail /\ WithoutFault /\ FailureHasCause
      /\ waiting /\ pc \in {"head", "data", "tail"}
  BY DEF IInv, TransferInv, ClientReceive, LineState, Active
<1>3. /\ UNCHANGED <<ctx, history, file, delivered, faulty>>
      /\ file' = file /\ delivered' = delivered /\ faulty' = faulty
      /\ frame' = "none" /\ waiting' = FALSE /\ tries' = 0
      /\ 0 \in 0..Retries + 1
  BY TransferAssumption DEF ClientReceive, recvVars
<1>4. /\ file \in Seq(Word) /\ Len(file) \in Nat /\ pos \in 0..Len(file)
      /\ Len(taken) \in Nat
  BY <1>2 DEF TransferTypeOK, RecvTypeOK
<1>5. pc = "data" => ChunkEnd \in pos + 1 .. Len(file)
  BY <1>2, ChunkFacts DEF TransferTypeOK, ClientState
<1>6. CASE frame = "exception"
  <2>1. pc' = "failed" /\ pos' = pos
    BY <1>6 DEF ClientReceive
  <2>2. TransferTypeOK'
    BY <1>1, <1>2, <1>3, <2>1 DEF TransferTypeOK, RecvInv
  <2> QED
    BY <1>1, <1>2, <1>3, <1>6, <2>1, <2>2, TransferAssumption
    DEF IInv, TransferInv, LineState, ClientState, HeadAccepted, SessionIsFile,
        DeliveredAtTail, WithoutFault, FailureHasCause, Active, BeginsWith
<1>7. CASE frame = "ok"
  <2> DEFINE p == IF pc = "data" THEN ChunkEnd ELSE pos
  <2>1. /\ pos' = p
        /\ pc' = IF pc = "tail" THEN "done"
                 ELSE IF p < Len(file) THEN "data" ELSE "tail"
    BY <1>7 DEF ClientReceive, Advance
  <2>2. p \in 0..Len(file)
    BY <1>4, <1>5
  <2>3. pc = "data" => p = ChunkEnd
    OBVIOUS
  <2>4. pc = "head" => p = 0
    BY <1>2 DEF ClientState
  <2> HIDE DEF p
  <2>5. TransferTypeOK'
    BY <1>1, <1>2, <1>3, <1>4, <2>1, <2>2 DEF TransferTypeOK, RecvInv
  <2>6. LineState' /\ ClientState' /\ HeadAccepted' /\ FailureHasCause'
    BY <1>2, <1>3, <1>4, <2>1, <2>2, TransferAssumption
    DEF LineState, ClientState, HeadAccepted, FailureHasCause, Active, NChunks
  <2>7. DeliveredAtTail'
    BY <1>2, <1>3, <1>7, <2>1 DEF DeliveredAtTail, Active, BeginsWith, Open, ctx
  <2>8. SubSeq(file, 1, 0) = <<>>
    BY <1>4
  <2>9. SessionIsFile'
    <3> SUFFICES ASSUME pc \in {"head", "data"}, Open
                 PROVE  total = 2 * Len(file)
                          /\ (taken = SubSeq(file, 1, p) \/ Len(taken) > p)
      BY <1>2, <1>3, <2>1 DEF SessionIsFile, Open, ctx, history
    <3> QED
      BY <1>2, <1>7, <2>3, <2>4, <2>8 DEF SessionIsFile, HeadAccepted
  <2>10. WithoutFault'
    <3> SUFFICES ASSUME ~faulty, pc # "tail"
                 PROVE  /\ Len(file) <= BufRegs /\ Open
                        /\ taken = SubSeq(file, 1, p)
                        /\ pc' = "tail" => taken = file
      BY <1>2, <1>3, <2>1 DEF WithoutFault, Open, ctx, history
    <3>1. Len(file) <= BufRegs /\ Open /\ taken = SubSeq(file, 1, p)
      BY <1>2, <1>7, <2>3, <2>4, <2>8 DEF WithoutFault, HeadAccepted
    <3>2. pc' = "tail" => p = Len(file)
      BY <1>4, <2>1, <2>2
    <3>3. SubSeq(file, 1, Len(file)) = file
      BY <1>4, SubSeqFull
    <3> QED
      BY <3>1, <3>2, <3>3
  <2> QED
    BY <1>1, <2>5, <2>6, <2>7, <2>9, <2>10 DEF IInv, TransferInv
<1> QED
  BY <1>6, <1>7 DEF ClientReceive

\* What the receiver answers to the HEAD record of the client.
LEMMA HeadEffect ==
  ASSUME IInv, pc = "head", Active, CallReceiver
  PROVE  /\ RecvInv' /\ out' = {}
         /\ \/ ret' = "INVALID_REQUEST" /\ Len(file) > BufRegs
            \/ /\ ret' = "NONE" /\ Len(file) <= BufRegs
               /\ Open' /\ total' = 2 * Len(file) /\ taken' = <<>>
<1>1. PICK regs \in [1..4 -> Word] : server_write_file_record(HeadRec, regs, Header)
  BY DEF CallReceiver, HdrRegs
<1>2. /\ file \in Seq(Word) /\ Len(file) \in Nat /\ NChunks(file) <= HeadRec
      /\ RecvInv
  BY DEF IInv, TransferInv, TransferTypeOK, ClientState
<1>3. regs \in Seq(Word) /\ Len(regs) = 4
  <2>1. ASSUME NEW n \in Nat, NEW s \in [1..n -> Word]
        PROVE  s \in Seq(Word) /\ Len(s) = n
    OBVIOUS
  <2> QED
    BY <2>1
<1>4. RecvInv'
  BY <1>1, <1>2, <1>3, HeaderType, CallbackInv, ReceiverAssumption DEF RecvProps
<1>5. HeadChunk(4, Header)
  BY <1>1, <1>3, ReceiverAssumption DEF server_write_file_record, TailRec
<1>6. Header.total_len = 2 * Len(file) /\ Header.n_chunks = NChunks(file)
  BY DEF Header
<1>7. NChunks(file) \in Nat
  BY <1>2, HeaderType
<1>8. CASE 2 * Len(file) > 2 * BufRegs
  <2>1. Refuse
    BY <1>5, <1>6, <1>8 DEF HeadChunk
  <2> QED
    BY <1>2, <1>4, <1>8, <2>1, ReceiverAssumption DEF Refuse
<1>9. CASE ~(2 * Len(file) > 2 * BufRegs)
  <2>1. OpenSession(2 * Len(file))
    BY <1>2, <1>5, <1>6, <1>7, <1>9, ReceiverAssumption DEF HeadChunk, HdrRegs
  <2> QED
    BY <1>2, <1>4, <1>9, <2>1, ReceiverAssumption DEF OpenSession, Open, NULL
<1> QED
  BY <1>8, <1>9

\* What it answers to a DATA record: the session takes the chunk, or there is
\* none, or it is left with room for less than one register.
LEMMA DataEffect ==
  ASSUME IInv, pc = "data", Active, CallReceiver
  PROVE  /\ RecvInv' /\ out' = {} /\ total' = total
         /\ \/ ret' = "INVALID_REQUEST" /\ ~Open /\ ~Open'
            \/ /\ ret' = "NONE" /\ Open /\ Open' /\ taken' = taken \o Chunk
            \/ /\ ret' = "INVALID_REQUEST" /\ Open /\ Open' /\ recv_buf_rest' < 2
               /\ recv_buf_rest < 2 * Len(Chunk)
<1>1. /\ file \in Seq(Word) /\ Len(file) \in Nat /\ NChunks(file) <= HeadRec
      /\ pos \in 0..Len(file) /\ pos < Len(file) /\ RecvInv
      /\ recv_buf_rest \in Nat
  BY DEF IInv, TransferInv, TransferTypeOK, ClientState, RecvTypeOK
<1>2. Chunk \in Seq(Word) /\ Len(Chunk) \in Nat /\ Len(Chunk) <= ChunkRegs
  BY <1>1, ChunkFacts
<1>3. server_write_file_record(pos \div ChunkRegs, Chunk, Header)
  BY DEF CallReceiver
<1>4. pos \div ChunkRegs \in Nat /\ pos \div ChunkRegs < HeadRec
  BY <1>1, RecordNumber DEF NChunks
<1>5. RecvInv'
  BY <1>1, <1>2, <1>3, <1>4, HeaderType, CallbackInv DEF RecvProps
<1>6. DataChunk(Chunk)
  <2> DEFINE rec == pos \div ChunkRegs
  <2>1. rec \in Nat /\ rec < HeadRec /\ server_write_file_record(rec, Chunk, Header)
    BY <1>3, <1>4
  <2> HIDE DEF rec
  <2> QED
    BY <2>1, ReceiverAssumption DEF server_write_file_record, TailRec
<1>7. CASE ~Open
  BY <1>5, <1>6, <1>7 DEF DataChunk, Refuse, Open, ctx, history
<1>8. CASE Open
  <2> DEFINE n == Stored(Chunk)
  <2>1. /\ StoreRegisters(Chunk, n)
        /\ IF n = Len(Chunk)
           THEN recv_buf_ptr' = recv_buf_ptr + Len(Chunk) /\ ret' = "NONE"
           ELSE UNCHANGED recv_buf_ptr /\ ret' = "INVALID_REQUEST"
    BY <1>2, <1>6, <1>8, ReceiverAssumption DEF DataChunk, Open
  <2>2. /\ n \in 0..Len(Chunk) /\ 2 * n <= recv_buf_rest
        /\ n # Len(Chunk) => recv_buf_rest - 2 * n < 2
    BY <1>1, <1>2, StoredBounds
  <2> HIDE DEF n
  <2>3. /\ out' = {} /\ total' = total
        /\ taken' = taken \o SubSeq(Chunk, 1, n)
        /\ recv_buf_rest' = recv_buf_rest - 2 * n
    BY <2>1 DEF StoreRegisters
  <2>4. Open'
    <3>1. recv_buf_ptr \in Nat
      BY <1>1, <1>8 DEF RecvInv, RecvTypeOK, Open, NULL
    <3> QED
      BY <1>2, <2>1, <3>1 DEF Open, NULL
  <2>5. CASE n = Len(Chunk)
    BY <1>2, <1>5, <1>8, <2>1, <2>3, <2>4, <2>5, SubSeqFull
  <2>6. CASE n # Len(Chunk)
    BY <1>1, <1>2, <1>5, <1>8, <2>1, <2>2, <2>3, <2>4, <2>6
  <2> QED
    BY <2>5, <2>6
<1> QED
  BY <1>7, <1>8

\* What it answers to the TAIL record.
LEMMA TailEffect ==
  ASSUME IInv, pc = "tail", Active, CallReceiver
  PROVE  /\ RecvInv' /\ ~Open' /\ UNCHANGED history
         /\ \/ /\ ret' = "INVALID_REQUEST" /\ out' = {}
               /\ ~Open \/ recv_buf_rest # 0
            \/ /\ ret' = "NONE" /\ Open /\ recv_buf_rest = 0
               /\ \E t \in Seq(Word \cup {Junk}) :
                    out' = {t} /\ BeginsWith(t, taken)
<1>1. RecvInv /\ file \in Seq(Word)
  BY DEF IInv, TransferInv, TransferTypeOK
<1>2. server_write_file_record(TailRec, <<>>, Header)
  BY DEF CallReceiver
<1>3. TailRec \in Nat /\ TailRec = HeadRec + 1 /\ HeadRec \in Nat
        /\ <<>> \in Seq(Word)
  BY ReceiverAssumption DEF TailRec
<1>4. RecvInv'
  BY <1>1, <1>2, <1>3, HeaderType, CallbackInv DEF RecvProps
<1>5. TailChunk
  BY <1>2, <1>3 DEF server_write_file_record
<1>6. ~Open' /\ UNCHANGED history
  BY <1>5 DEF TailChunk, Open, history
<1>7. CASE Open /\ recv_buf_rest = 0
  <2>1. recv_buf # NULL
    BY <1>1, <1>7 DEF RecvInv, SessionHasBuffer, NULL
  <2>2. PICK t \in PrintedTexts : out' = {t} /\ ret' = "NONE"
    BY <1>5, <1>7, <2>1 DEF TailChunk, Open
  <2>3. t \in Seq(Word \cup {Junk}) /\ BeginsWith(t, taken)
    BY <1>1, <1>7, PrintedBegins DEF RecvInv
  <2> QED
    BY <1>4, <1>6, <1>7, <2>2, <2>3
<1>8. CASE ~(Open /\ recv_buf_rest = 0)
  BY <1>4, <1>5, <1>6, <1>8 DEF TailChunk, Open
<1> QED
  BY <1>7, <1>8

\* What every answer leaves alone, and the frame it puts on the line.
LEMMA ServerHandleFrame ==
  ASSUME IInv, ServerHandle
  PROVE  /\ pc \in {"head", "data", "tail"} /\ waiting /\ frame = "request"
         /\ UNCHANGED <<pc, file, pos, tries, waiting, faulty>>
         /\ frame' = IF ret' = "NONE" THEN "ok" ELSE "exception"
BY DEF IInv, TransferInv, LineState, ServerHandle, clientVars, Active

LEMMA ServerHeadInv ==
  ASSUME IInv, ServerHandle, pc = "head"
  PROVE  IInv'
<1>1. /\ RecvInv' /\ out' = {}
      /\ \/ ret' = "INVALID_REQUEST" /\ Len(file) > BufRegs
         \/ /\ ret' = "NONE" /\ Len(file) <= BufRegs
            /\ Open' /\ total' = 2 * Len(file) /\ taken' = <<>>
  BY HeadEffect DEF ServerHandle, Active
<1>2. delivered' = delivered
  BY <1>1 DEF ServerHandle
<1> QED
  BY <1>1, <1>2, ServerHandleFrame
  DEF IInv, TransferInv, RecvInv, TransferTypeOK, LineState, ClientState,
      HeadAccepted, SessionIsFile, DeliveredAtTail, WithoutFault,
      FailureHasCause, Active, NChunks, BeginsWith

LEMMA ServerDataInv ==
  ASSUME IInv, ServerHandle, pc = "data"
  PROVE  IInv'
<1>1. /\ RecvInv' /\ out' = {} /\ total' = total
      /\ \/ ret' = "INVALID_REQUEST" /\ ~Open /\ ~Open'
         \/ /\ ret' = "NONE" /\ Open /\ Open' /\ taken' = taken \o Chunk
         \/ /\ ret' = "INVALID_REQUEST" /\ Open /\ Open' /\ recv_buf_rest' < 2
            /\ recv_buf_rest < 2 * Len(Chunk)
  BY DataEffect DEF ServerHandle, Active
<1>2. delivered' = delivered /\ delivered = <<>>
  BY <1>1 DEF ServerHandle, IInv, TransferInv, DeliveredAtTail, Active
<1>3. /\ TransferTypeOK /\ LineState /\ ClientState /\ SessionIsFile
      /\ WithoutFault /\ FailureHasCause
  BY DEF IInv, TransferInv
<1>4. /\ file \in Seq(Word) /\ Len(file) \in Nat /\ pos \in Nat /\ pos < Len(file)
      /\ ChunkEnd \in pos + 1 .. Len(file)
      /\ Chunk \in Seq(Word) /\ Len(Chunk) = ChunkEnd - pos
      /\ SubSeq(file, 1, pos) \o Chunk = SubSeq(file, 1, ChunkEnd)
      /\ Len(SubSeq(file, 1, pos)) = pos
  BY <1>3, ChunkFacts DEF TransferTypeOK, ClientState
<1>5. ChunkEnd' = ChunkEnd
  BY ServerHandleFrame DEF ChunkEnd
<1>6. /\ taken \in Seq(Word) /\ Len(taken) \in Nat /\ recv_buf_rest \in Nat
      /\ Open => 2 * Len(taken) + recv_buf_rest = total
      /\ taken' \in Seq(Word) /\ Len(taken') \in Nat /\ recv_buf_rest' \in Nat
      /\ Open' => 2 * Len(taken') + recv_buf_rest' = total'
  BY <1>1 DEF IInv, RecvInv, RecvTypeOK, SessionInMemory
<1>7. Open => /\ total = 2 * Len(file)
              /\ taken = SubSeq(file, 1, pos) \/ Len(taken) > pos
  BY <1>3, ServerHandleFrame DEF SessionIsFile
\* Without a fault the session waits for the whole chunk.
<1>8. ~faulty => Open /\ taken = SubSeq(file, 1, pos)
  BY <1>3, ServerHandleFrame DEF WithoutFault
<1>9. ~faulty => /\ Len(file) <= BufRegs /\ frame' = "ok" /\ Open'
                 /\ taken' = SubSeq(file, 1, ChunkEnd)
  <2> SUFFICES ASSUME ~faulty
               PROVE  /\ Len(file) <= BufRegs /\ frame' = "ok" /\ Open'
                      /\ taken' = SubSeq(file, 1, ChunkEnd)
    OBVIOUS
  <2>1. Len(file) <= BufRegs
    BY <1>3 DEF WithoutFault
  <2>2. Len(taken) = pos /\ 2 * pos + recv_buf_rest = 2 * Len(file)
    BY <1>4, <1>6, <1>7, <1>8
  <2>3. ~(recv_buf_rest < 2 * Len(Chunk))
    BY <1>4, <1>6, <2>2
  <2> QED
    BY <1>1, <1>4, <1>8, <2>1, <2>3, ServerHandleFrame
<1>10. SessionIsFile'
  <2> SUFFICES ASSUME Open'
      PROVE  LET sent == IF frame' = "ok" THEN ChunkEnd ELSE pos
             IN  /\ total' = 2 * Len(file)
                 /\ taken' = SubSeq(file, 1, sent) \/ Len(taken') > sent
    BY <1>5, ServerHandleFrame DEF SessionIsFile
  <2>1. total' = 2 * Len(file)
    BY <1>1, <1>7
  <2>2. CASE ret' = "NONE"
    <3>1. taken' = taken \o Chunk /\ frame' = "ok"
      BY <1>1, <2>2, ServerHandleFrame
    <3>2. CASE taken = SubSeq(file, 1, pos)
      BY <1>4, <2>1, <3>1, <3>2
    <3>3. CASE Len(taken) > pos
      <4>1. Len(taken') = Len(taken) + Len(Chunk)
        BY <1>4, <1>6, <3>1, ConcatProperties
      <4>2. Len(taken') > ChunkEnd
        BY <1>4, <1>6, <3>3, <4>1
      <4> QED
        BY <2>1, <3>1, <4>2
    <3> QED
      BY <1>1, <1>7, <2>2, <3>2, <3>3
  <2>3. CASE ret' # "NONE"
    \* The session is full, and the client has not sent the whole file.
    <3>1. recv_buf_rest' < 2 /\ frame' = "exception"
      BY <1>1, <2>3, ServerHandleFrame
    <3>2. Len(taken') > pos
      BY <1>4, <1>6, <2>1, <3>1
    <3> QED
      BY <2>1, <3>1, <3>2
  <2> QED
    BY <2>2, <2>3
<1>11. TransferTypeOK' /\ LineState' /\ ClientState' /\ HeadAccepted'
         /\ DeliveredAtTail' /\ FailureHasCause'
  BY <1>1, <1>2, <1>3, ServerHandleFrame
  DEF RecvInv, TransferTypeOK, LineState, ClientState, HeadAccepted,
      DeliveredAtTail, FailureHasCause, Active, NChunks, BeginsWith
<1>12. WithoutFault'
  BY <1>5, <1>9, ServerHandleFrame DEF WithoutFault
<1> QED
  BY <1>1, <1>10, <1>11, <1>12 DEF IInv, TransferInv

\* The client's last record: the only one that is answered with a text.
LEMMA TailPrintsFile ==
  ASSUME IInv, ServerHandle, pc = "tail"
  PROVE  \/ /\ ret' = "INVALID_REQUEST" /\ delivered' = delivered /\ faulty
         \/ /\ ret' = "NONE" /\ delivered = <<>>
            /\ \E t \in Seq(Word \cup {Junk}) :
                 delivered' = <<t>> /\ BeginsWith(t, file)
<1>1. \/ /\ ret' = "INVALID_REQUEST" /\ out' = {}
         /\ ~Open \/ recv_buf_rest # 0
      \/ /\ ret' = "NONE" /\ Open /\ recv_buf_rest = 0
         /\ \E t \in Seq(Word \cup {Junk}) : out' = {t} /\ BeginsWith(t, taken)
  BY TailEffect DEF ServerHandle, Active
<1>2. /\ file \in Seq(Word) /\ Len(file) \in Nat /\ pos = Len(file)
      /\ taken \in Seq(Word) /\ Len(taken) \in Nat /\ recv_buf_rest \in Nat
  BY DEF IInv, TransferInv, TransferTypeOK, ClientState, RecvTypeOK
<1>3. Open => /\ 2 * Len(taken) + recv_buf_rest = total /\ total = 2 * Len(file)
              /\ taken = SubSeq(file, 1, Len(file)) \/ Len(taken) > Len(file)
  BY <1>2 DEF IInv, TransferInv, SessionIsFile, RecvInv, SessionInMemory
<1>4. Open => taken = file
  BY <1>2, <1>3, SubSeqFull
<1>5. CASE ret' = "NONE"
  <2>1. PICK t \in Seq(Word \cup {Junk}) : out' = {t} /\ BeginsWith(t, taken) /\ Open
    BY <1>1, <1>5
  <2>2. delivered = <<>>
    BY <2>1 DEF IInv, TransferInv, DeliveredAtTail, Active
  <2>3. delivered' = Append(delivered, t)
    BY <2>1 DEF ServerHandle
  <2>4. delivered' = <<t>> /\ BeginsWith(t, file)
    BY <1>4, <2>1, <2>2, <2>3
  <2> QED
    BY <1>5, <2>2, <2>4
<1>6. CASE ret' # "NONE"
  <2>1. out' = {} /\ ret' = "INVALID_REQUEST" /\ (~Open \/ recv_buf_rest # 0)
    BY <1>1, <1>6
  <2>2. faulty
    <3> SUFFICES ASSUME ~faulty PROVE FALSE
      OBVIOUS
    <3>1. Open /\ taken = file
      BY ServerHandleFrame DEF IInv, TransferInv, WithoutFault
    <3> QED
      BY <1>2, <1>3, <2>1, <3>1
  <2> QED
    BY <2>1, <2>2 DEF ServerHandle, IInv, TransferInv, TransferTypeOK
<1> QED
  BY <1>5, <1>6

LEMMA ServerTailInv ==
  ASSUME IInv, ServerHandle, pc = "tail"
  PROVE  IInv'
<1>1. RecvInv' /\ ~Open'
  BY TailEffect DEF ServerHandle, Active
<1>2. /\ delivered \in Seq(Seq(Word \cup {Junk}))
      /\ delivered' \in Seq(Seq(Word \cup {Junk}))
      /\ delivered' # <<>> => Len(delivered') = 1 /\ BeginsWith(delivered'[1], file)
      /\ ret' = "NONE" => delivered' # <<>>
      /\ ret' # "NONE" => faulty
  <2>1. /\ delivered \in Seq(Seq(Word \cup {Junk}))
        /\ delivered # <<>> => Len(delivered) = 1 /\ BeginsWith(delivered[1], file)
    BY DEF IInv, TransferInv, TransferTypeOK, DeliveredAtTail
  <2>2. ASSUME NEW t \in Seq(Word \cup {Junk}), delivered' = <<t>>
        PROVE  /\ delivered' \in Seq(Seq(Word \cup {Junk})) /\ delivered' # <<>>
               /\ Len(delivered') = 1 /\ delivered'[1] = t
    BY <2>2
  <2> QED
    BY <2>1, <2>2, TailPrintsFile
<1>3. TransferTypeOK'
  BY <1>1, <1>2, ServerHandleFrame DEF IInv, TransferInv, TransferTypeOK, RecvInv
<1>4. DeliveredAtTail'
  BY <1>1, <1>2, ServerHandleFrame DEF DeliveredAtTail, Active, BeginsWith
<1>5. LineState' /\ ClientState' /\ HeadAccepted' /\ SessionIsFile'
        /\ FailureHasCause'
  BY <1>1, ServerHandleFrame
  DEF IInv, TransferInv, LineState, ClientState, HeadAccepted, SessionIsFile,
      FailureHasCause, Active, NChunks
<1>6. WithoutFault'
  BY <1>2, ServerHandleFrame DEF IInv, TransferInv, WithoutFault
<1> QED
  BY <1>1, <1>3, <1>4, <1>5, <1>6 DEF IInv, TransferInv

LEMMA TransferInitInv == TransferInit => IInv
<1> SUFFICES ASSUME TransferInit PROVE IInv
  OBVIOUS
<1>1. RecvInv
  BY RecvInitInv DEF TransferInit, RecvProps
<1>2. /\ <<>> \in Seq(Word) /\ <<>> \in Seq(Seq(Word \cup {Junk}))
      /\ 0 \in 0..Len(<<>>) /\ 0 \in 0..Retries + 1
  BY TransferAssumption
<1>3. TransferTypeOK
  BY <1>1, <1>2 DEF TransferInit, TransferTypeOK, RecvInv
<1> QED
  BY <1>1, <1>3
  DEF TransferInit, IInv, TransferInv, LineState, ClientState, HeadAccepted,
      SessionIsFile, DeliveredAtTail, WithoutFault, FailureHasCause, Active

LEMMA TransferStepInv == IInv /\ [TransferNext]_transferVars => IInv'
<1> SUFFICES ASSUME IInv, [TransferNext]_transferVars PROVE IInv'
  OBVIOUS
<1>1. CASE UNCHANGED transferVars
  <2>1. RecvInv'
    BY <1>1, ClientStepRecv DEF IInv, transferVars
  <2> QED
    BY <1>1, <2>1
    DEF transferVars, recvVars, clientVars, ctx, history, IInv, TransferInv,
        TransferTypeOK, RecvInv, LineState, ClientState, HeadAccepted,
        SessionIsFile, DeliveredAtTail, WithoutFault, FailureHasCause, Active,
        NChunks, ChunkEnd, Open, BeginsWith
<1>2. CASE TransferNext
  <2>1. CASE ServerHandle
    BY <2>1, ServerHeadInv, ServerDataInv, ServerTailInv, ServerHandleFrame
  <2> QED
    BY <1>2, <2>1, StartRunInv, ClientSendInv, ClientReceiveInv,
       ClientTimeoutInv, LoseFrameInv, ControllerResetInv DEF TransferNext
<1> QED
  BY <1>1, <1>2

\* All the named parts of the invariant, and the receiver's under the client.
THEOREM TransferSafe == TransferSpec => []IInv
BY TransferInitInv, TransferStepInv, PTL DEF TransferSpec

-----------------------------------------------------------------------------
(* The refinement of FileDelivery. *)

LEMMA DeliveryInit == TransferInit => Delivery!Init
BY DEF TransferInit, Delivery!Init, Status, Active

\* Only the server's answer to the TAIL record is a Deliver step.
LEMMA ServerDelivers ==
  ASSUME IInv, ServerHandle
  PROVE  [Delivery!Next]_(Delivery!dvars)
<1>1. Status = "running" /\ Status' = "running" /\ file' = file
  BY ServerHandleFrame DEF Status, Active
<1>2. CASE delivered' = delivered
  BY <1>1, <1>2 DEF Delivery!dvars
<1>3. CASE delivered' # delivered
  <2>1. pc = "tail"
    BY <1>3, ServerHandleFrame, HeadEffect, DataEffect DEF ServerHandle, Active
  <2>2. /\ delivered = <<>>
        /\ \E t \in Seq(Word \cup {Junk}) :
             delivered' = <<t>> /\ BeginsWith(t, file)
    BY <1>3, <2>1, TailPrintsFile
  <2>3. Delivery!Deliver
    BY <1>1, <2>2 DEF Delivery!Deliver, Delivery!StartsWith, BeginsWith
  <2> QED
    BY <2>3 DEF Delivery!Next
<1> QED
  BY <1>2, <1>3

LEMMA DeliveryStep ==
  ASSUME IInv, [TransferNext]_transferVars
  PROVE  [Delivery!Next]_(Delivery!dvars)
<1>1. ASSUME NEW f \in Files, StartRun(f)
      PROVE  [Delivery!Next]_(Delivery!dvars)
  <2>1. Delivery!Submit
    BY <1>1 DEF StartRun, Delivery!Submit, Status, Active,
                IInv, TransferInv, TransferTypeOK
  <2> QED
    BY <2>1 DEF Delivery!Next
<1>2. CASE ClientReceive
  <2>1. /\ Active /\ file' = file /\ delivered' = delivered
        /\ frame = "ok" \/ frame = "exception"
    BY <1>2 DEF ClientReceive, IInv, TransferInv, LineState
  <2>2. CASE frame = "ok"
    <3>1. pc = "tail" => pc' = "done" /\ delivered # <<>>
      BY <1>2, <2>2 DEF ClientReceive, Advance, IInv, TransferInv, DeliveredAtTail
    <3>2. pc # "tail" => pc' \in {"data", "tail"}
      BY <1>2, <2>2 DEF ClientReceive, Advance
    <3>3. CASE pc = "tail"
      BY <2>1, <3>1, <3>3 DEF Delivery!Next, Delivery!Finish, Status, Active
    <3>4. CASE pc # "tail"
      BY <2>1, <3>2, <3>4 DEF Delivery!dvars, Status, Active
    <3> QED
      BY <3>3, <3>4
  <2>3. CASE frame = "exception"
    <3>1. pc' = "failed"
      BY <1>2, <2>3 DEF ClientReceive
    <3> QED
      BY <2>1, <3>1 DEF Delivery!Next, Delivery!Fail, Status, Active
  <2> QED
    BY <2>1, <2>2, <2>3
<1>3. CASE ClientTimeout
  <2>1. Active /\ file' = file /\ delivered' = delivered /\ pc' \in {"failed", pc}
    BY <1>3 DEF ClientTimeout, IInv, TransferInv, LineState
  <2> QED
    BY <2>1 DEF Delivery!Next, Delivery!Fail, Delivery!dvars, Status, Active
<1>4. CASE \/ ClientSend \/ LoseFrame \/ ControllerReset
           \/ UNCHANGED transferVars
  BY <1>4 DEF ClientSend, LoseFrame, ControllerReset, clientVars, transferVars,
              Delivery!dvars, Status, Active
<1> QED
  BY <1>1, <1>2, <1>3, <1>4, ServerDelivers DEF TransferNext

\* modbus_test1.py and port.c together deliver a text that starts with the
\* file at most once per run, and the client ends without an error only after
\* it was delivered, whatever the line loses and whenever the controller resets.
THEOREM TransferImplementsDelivery == TransferSpec => DeliverySpec
<1>1. IInv /\ [TransferNext]_transferVars => [Delivery!Next]_(Delivery!dvars)
  BY DeliveryStep
<1> QED
  BY <1>1, DeliveryInit, TransferSafe, PTL
  DEF TransferSpec, DeliverySpec, Delivery!Spec

\* Types of the transfer's state.
THEOREM TransferTypes == TransferSpec => []TransferTypeOK
BY TransferSafe, PTL DEF IInv, TransferInv

\* An open session holds what the client has sent, or visibly more.
THEOREM TransferSessionIsFile == TransferSpec => []SessionIsFile
BY TransferSafe, PTL DEF IInv, TransferInv

\* A run without a lost frame and a reset delivers every file that fits.
THEOREM TransferFailureHasCause == TransferSpec => []FailureHasCause
BY TransferSafe, PTL DEF IInv, TransferInv

-----------------------------------------------------------------------------
(* The measure of a run. *)

\* The order of the records and of an attempt's phases.
LEMMA RunOrder ==
  /\ RecordRank["head"] < RecordRank["data"] /\ RecordRank["head"] < RecordRank["tail"]
  /\ RecordRank["data"] < RecordRank["tail"]
BY DEF RecordRank

LEMMA AttemptOrder ==
  /\ ~waiting => Attempt = 3
  /\ waiting /\ frame = "request" => Attempt = 0
  /\ waiting /\ frame \in {"ok", "exception"} => Attempt = 1
  /\ waiting /\ frame = "none" => Attempt = 2
BY DEF Attempt

LEMMA AttemptOrderNext ==
  /\ ~waiting' => Attempt' = 3
  /\ waiting' /\ frame' \in {"ok", "exception"} => Attempt' = 1
  /\ waiting' /\ frame' = "none" => Attempt' = 2
BY DEF Attempt

\* An acknowledgement takes the run to a later record.
LEMMA AdvanceGoesOn ==
  ASSUME IInv, Active, Advance
  PROVE  \/ ~Active'
         \/ RecordRank[pc'] > RecordRank[pc]
         \/ pc' = pc /\ pos' > pos
<1>1. pc \in {"head", "data", "tail"}
  BY DEF Active
<1>2. CASE pc = "head"
  <2>1. pc' \in {"data", "tail"}
    BY <1>2 DEF Advance
  <2> QED
    BY <1>2, <2>1, RunOrder
<1>3. CASE pc = "data"
  <2>1. file \in Seq(Word) /\ pos \in 0..Len(file) /\ pos < Len(file)
    BY <1>3 DEF IInv, TransferInv, TransferTypeOK, ClientState
  <2>2. ChunkEnd \in pos + 1 .. Len(file)
    BY <2>1, ChunkFacts
  <2>3. ChunkEnd > pos
    BY <2>1, <2>2
  <2>4. pos' = ChunkEnd /\ pc' \in {"data", "tail"}
    BY <1>3 DEF Advance
  <2> QED
    BY <1>3, <2>3, <2>4, RunOrder
<1>4. CASE pc = "tail"
  BY <1>4 DEF Advance, Active
<1> QED
  BY <1>1, <1>2, <1>3, <1>4

\* However many frames are lost and wherever the controller resets, a run has a
\* measure that every step of the client or of the line makes smaller; its bounds are
\* those of TransferTypeOK.
THEOREM RunsAdvance == TransferSpec => RunAdvances
<1> DEFINE Further == \/ ~Active'
                      \/ RecordRank[pc'] > RecordRank[pc]
                      \/ pc' = pc /\ pos' > pos
                      \/ /\ pc' = pc /\ pos' = pos
                         /\ tries' > tries \/ (tries' = tries /\ Attempt' > Attempt)
<1>1. IInv /\ [TransferNext]_transferVars => [Active => Further]_<<clientVars, frame>>
  <2> SUFFICES ASSUME IInv, [TransferNext]_transferVars, Active,
                      <<clientVars, frame>>' # <<clientVars, frame>>
               PROVE  Further
    OBVIOUS
  <2>1. CASE \E f \in Files : StartRun(f)
    BY <2>1 DEF StartRun
  <2>2. CASE ClientSend
    <3>1. pc' = pc /\ pos' = pos /\ tries' = tries + 1 /\ tries \in Nat
      BY <2>2, TransferAssumption DEF ClientSend, IInv, TransferInv, TransferTypeOK
    <3>2. tries' > tries
      BY <3>1
    <3> QED
      BY <3>1, <3>2
  <2>3. CASE ClientReceive
    <3>1. Advance \/ pc' = "failed"
      BY <2>3 DEF ClientReceive
    <3> QED
      BY <3>1, AdvanceGoesOn DEF Active
  <2>4. CASE ClientTimeout
    <3>1. /\ waiting /\ frame = "none" /\ ~waiting' /\ pos' = pos /\ tries' = tries
          /\ pc' = pc \/ pc' = "failed"
      BY <2>4 DEF ClientTimeout
    <3>2. Attempt = 2 /\ Attempt' = 3
      BY <3>1, AttemptOrder, AttemptOrderNext
    <3> QED
      BY <3>1, <3>2 DEF Active
  <2>5. CASE LoseFrame
    <3>1. frame \in {"request", "ok", "exception"} /\ waiting
      BY <2>5 DEF LoseFrame, IInv, TransferInv, TransferTypeOK, LineState
    <3>2. /\ frame' = "none" /\ waiting' = waiting /\ pc' = pc /\ pos' = pos
          /\ tries' = tries
      BY <2>5 DEF LoseFrame, clientVars
    <3>3. Attempt \in {0, 1} /\ Attempt' = 2
      BY <3>1, <3>2, AttemptOrder, AttemptOrderNext
    <3> QED
      BY <3>2, <3>3
  <2>6. CASE ServerHandle
    <3>1. /\ waiting /\ frame = "request" /\ waiting' = waiting
          /\ pc' = pc /\ pos' = pos /\ tries' = tries
          /\ frame' \in {"ok", "exception"}
      BY <2>6, ServerHandleFrame
    <3>2. Attempt = 0 /\ Attempt' = 1
      BY <3>1, AttemptOrder, AttemptOrderNext
    <3> QED
      BY <3>1, <3>2
  <2>7. CASE ControllerReset
    BY <2>7 DEF ControllerReset
  <2>8. CASE UNCHANGED transferVars
    BY <2>8 DEF transferVars
  <2> QED
    BY <2>1, <2>2, <2>3, <2>4, <2>5, <2>6, <2>7, <2>8 DEF TransferNext
<1> QED
  BY <1>1, TransferSafe, PTL DEF TransferSpec, RunAdvances
=============================================================================
